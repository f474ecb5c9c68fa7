-------------------------------- MODULE Site --------------------------------
(***************************************************************************)
(* From an address to a page and back (internal/site, internal/web,        *)
(* internal/gemini): what each address answers with, the addresses that    *)
(* listings, search results and redirects give, what an upload over titan  *)
(* overwrites, and how a page is put together, for readers and in the      *)
(* preview of the editor.                                                  *)
(*                                                                         *)
(* The pages are those of PublishedSite, which Store implements.  A path   *)
(* or an address is a folder, a stem and the extensions after it: ".feed"  *)
(* is the empty stem with the extension feed, and an address that ends in  *)
(* a slash is a folder with neither.  A content is a text, the page it     *)
(* includes, whether it shows the counter of its address, and its choice   *)
(* of header.  Footers and stylesheets are chosen like headers; the other  *)
(* directives, titles and dates are left out.                              *)
(***************************************************************************)
EXTENDS PublishedSite, Naturals, Sequences

CONSTANTS
    Words,           \* what names are made of
    Urls,            \* addresses that editors ask for
    Editors,         \* titan clients
    DraftPaths,      \* where drafts are kept: bounds them
    Allowed,         \* the documents of each path: bounds the site
    MaxIncludeDepth

Seqs == INSTANCE SequencesExt

Name == [dir : Seq(Words), stem : Words, exts : Seq(Words)]

ASSUME SiteAssumption ==
    /\ {"", "index", "gmi", "cgi", "txt", "header", "feed"} \subseteq Words
    /\ Paths \cup Urls \subseteq Name
    /\ \A p \in Paths : p.stem # "" \/ p.exts # <<>>
    /\ HiddenPaths = {p \in Paths : p.stem = ""}
    /\ Allowed \in [Paths -> SUBSET Doc] /\ NoDoc \notin Doc \cup Contents
    /\ DraftPaths \subseteq Paths
    /\ MaxIncludeDepth \in Nat

VARIABLES
    drafts,  \* the unpublished content of each path, or NoDoc
    editing, \* the address and the page a titan client has fetched, or NoFetch
    target   \* where its upload under way will be saved, or NoTarget

pathVars == <<siteVars, drafts, editing, target>>

NoFetch == <<>>

NoTarget == [path |-> NoDoc]

SiteTypeOK ==
    /\ \A p \in Paths : live[p] # NoDoc => live[p] \in Allowed[p]
    /\ \A p \in Paths : drafts[p] # NoDoc =>
        p \in DraftPaths /\ drafts[p] \in Contents
    /\ \A e \in Editors :
        /\ editing[e] # NoFetch => editing[e] \in Urls \X Paths
        /\ target[e] # NoTarget => editing[e] # NoFetch /\ target[e].path \in Paths

PathInit ==
    /\ SiteInit
    /\ drafts = [p \in Paths |-> NoDoc]
    /\ editing = [e \in Editors |-> NoFetch]
    /\ target = [e \in Editors |-> NoTarget]

Live(p) == p \in Paths /\ live[p] # NoDoc

-----------------------------------------------------------------------------
(***************************************************************************)
(* Names.                                                                  *)
(***************************************************************************)

Folder(d) == [dir |-> d, stem |-> "", exts |-> <<>>]

Special(d, name) == [dir |-> d, stem |-> "", exts |-> <<name>>]

Index(d) == [dir |-> d, stem |-> "index", exts |-> <<"gmi">>]

With(u, exts) == [u EXCEPT !.exts = @ \o exts]

IsFolder(u) == u.stem = "" /\ u.exts = <<>>

Hidden(u) == u.stem = "" /\ u.exts # <<>>

Ext(u) == IF u.exts = <<>> THEN "" ELSE Seqs!Last(u.exts)

\* A folder's address without its slash.
Bare(u) ==
    IF IsFolder(u) /\ u.dir # <<>>
    THEN [dir |-> Seqs!Front(u.dir), stem |-> Seqs!Last(u.dir), exts |-> <<>>]
    ELSE u

\* The mime type a name gives: "binary" when it gives none.
MimeFor(p) ==
    IF Hidden(p) \/ Ext(p) \in {"gmi", "gemini"} THEN "gemtext"
    ELSE IF Ext(p) \in {"txt", "md", "html", "xml"} THEN "text" ELSE "binary"

DirExists(d) == \E p \in Paths : Live(p) /\ Seqs!IsPrefix(d, p.dir)

IsFeedFolder(d) == Live(Special(d, "feed"))

\* The address a page is served at, for search results and redirects.
PageURL(p) ==
    LET u == IF Ext(p) = "gmi" THEN [p EXCEPT !.exts = Seqs!Front(@)] ELSE p
    IN  IF u.stem = "index" /\ u.exts = <<>> THEN Folder(u.dir) ELSE u

\* The address a listing gives, which drops whatever extension there is.
ListURL(p) == IF p.exts = <<>> THEN p ELSE [p EXCEPT !.exts = Seqs!Front(@)]

Listed(d) ==
    {p \in Paths : /\ Live(p) /\ p.dir = d /\ ~ Hidden(p)
                   /\ live[p].mime = "gemtext"
                   /\ ListURL(p) # [dir |-> d, stem |-> "index", exts |-> <<>>]}

-----------------------------------------------------------------------------
(***************************************************************************)
(* What an address answers with.                                           *)
(***************************************************************************)

Result(type, at) == [type |-> type, at |-> at]

NotFound(u) == Result("none", u)

Resolve_folderFirst(u) ==
    IF Hidden(u) \/ Ext(u) = "cgi" THEN NotFound(u)
    ELSE IF IsFolder(u)
         THEN IF Live(Index(u.dir)) THEN Result("page", Index(u.dir))
              ELSE IF u.dir = <<>> \/ DirExists(u.dir) THEN Result("listing", u)
              ELSE NotFound(u)
    ELSE IF DirExists(Append(u.dir, u.stem)) /\ u.exts = <<>>
         THEN Result("redirect", Folder(Append(u.dir, u.stem)))
    ELSE IF Live(u)
         THEN Result(IF live[u].mime = "gemtext" THEN "page" ELSE "file", u)
    ELSE IF Live(With(u, <<"gmi">>)) THEN Result("page", With(u, <<"gmi">>))
    ELSE NotFound(u)

\* A page of the very name, then one with .gmi added, then a folder.
Resolve(u) ==
    IF Hidden(u) \/ Ext(u) = "cgi" THEN NotFound(u)
    ELSE IF IsFolder(u)
         THEN IF Live(Index(u.dir)) THEN Result("page", Index(u.dir))
              ELSE IF u.dir = <<>> \/ DirExists(u.dir) THEN Result("listing", u)
              ELSE NotFound(u)
    ELSE IF Live(u)
         THEN Result(IF live[u].mime = "gemtext" THEN "page" ELSE "file", u)
    ELSE IF Live(With(u, <<"gmi">>)) THEN Result("page", With(u, <<"gmi">>))
    ELSE IF DirExists(Append(u.dir, u.stem)) /\ u.exts = <<>>
         THEN Result("redirect", Folder(Append(u.dir, u.stem)))
    ELSE NotFound(u)

Candidates(u) ==
    <<With(u, <<"gmi", "cgi">>), With(u, <<"txt", "cgi">>), With(u, <<"cgi">>)>>

\* The executable pages that answer an address, the first of which does.
ScriptsFor(u) ==
    IF Hidden(u) \/ Bare(u) = Folder(<<>>) THEN {}
    ELSE {i \in 1..3 : Live(Candidates(Bare(u))[i])}

IsFeed(u) == u.stem = "feed" /\ u.exts = <<"xml">> /\ IsFeedFolder(u.dir)

\* On the web and over gemini: feeds, then executable pages, then the rest.
Answer(u) ==
    IF IsFeed(u) THEN Result("feed", u)
    ELSE IF ScriptsFor(u) # {}
    THEN Result("script", Candidates(Bare(u))[CHOOSE i \in ScriptsFor(u) :
                                        \A j \in ScriptsFor(u) : i <= j])
    ELSE Resolve(u)

\* The pages a search can find.
SearchHits == {p \in Paths : \E c \in Contents : <<p, c>> \in searchable}

-----------------------------------------------------------------------------
(***************************************************************************)
(* How a page is put together.                                             *)
(***************************************************************************)

\* What readers can be shown of each path.
Published == [p \in Paths |-> IF Live(p) THEN live[p].content ELSE NoDoc]

\* The site once every draft is published.
Drafted == [p \in Paths |-> IF drafts[p] # NoDoc THEN drafts[p] ELSE Published[p]]

Has(pages, p) == p \in Paths /\ pages[p] # NoDoc

\* What a document of the folder base refers to.
RefFrom(base, c) ==
    LET ref == CHOOSE r \in c.includes : TRUE
    IN  [ref.to EXCEPT !.dir = IF ref.absolute THEN @ ELSE base \o @]

\* The key under which the views of an address are counted.
CountKey(u) == Bare(u)

Text(words) == [text |-> words, count |-> NoDoc]

\* A document's own text, with the counter of the address it is shown at.
Own(c, u) == [text |-> c.text, count |-> IF c.counted THEN CountKey(u) ELSE NoDoc]

\* Below the largest depth the directives are left as they are written.
Expanded(content, base, u) ==
    LET expand[n \in 0..(MaxIncludeDepth + 1), c \in Contents,
               b \in {p.dir : p \in Paths}] ==
            LET ref == RefFrom(b, c)
                page == IF Has(Published, ref) THEN ref ELSE With(ref, <<"gmi">>)
            IN  IF n > MaxIncludeDepth THEN <<Text(c.text)>>
                ELSE IF c.includes = {} THEN <<Own(c, u)>>
                ELSE IF ~ Has(Published, page)
                THEN <<Own(c, u), Text("not found")>>
                ELSE <<Own(c, u)>> \o expand[n + 1, Published[page], page.dir]
    IN  expand[0, content, base]

\* The closest header among some pages, at or above a folder, if there is one.
Closest(ps, d) ==
    LET levels == {n \in 0..Len(d) : Special(SubSeq(d, 1, n), "header") \in ps}
    IN  IF levels = {} THEN {}
        ELSE {Special(SubSeq(d, 1, CHOOSE n \in levels :
                                        \A m \in levels : m <= n), "header")}

\* The header of a page: none, the one it names, or the inherited one.
Headers(ps, p, content) ==
    IF content.bare THEN {}
    ELSE IF content.header # {} THEN content.header \cap ps
    ELSE Closest(ps, p.dir)

\* The headers of readers are pages.
Wrapper(pages, p, content) ==
    {pages[h] : h \in Headers({q \in Paths : Has(pages, q)}, p, content)}

DraftWrapper_draftsFirst(p, content) ==
    LET drafted == Headers({q \in Paths : drafts[q] # NoDoc}, p, content)
    IN  IF drafted = {} THEN Wrapper(Published, p, content)
        ELSE {drafts[h] : h \in drafted}

\* Those of a preview are drafts where there is one: for a name that is given,
\* and at each level of the folders.
DraftWrapper(p, content) ==
    LET drafted(q) == q \in Paths /\ drafts[q] # NoDoc
        headers == {q \in Paths : drafted(q) \/ Live(q)}
    IN  IF content.bare THEN {}
        ELSE IF content.header # {}
        THEN IF \E h \in content.header : drafted(h)
             THEN {drafts[h] : h \in content.header}
             ELSE Wrapper(Published, p, content)
        ELSE {IF drafted(h) THEN drafts[h] ELSE live[h].content :
                h \in Closest(headers, p.dir)}

Wrapped(wrapper, p, u, body) ==
    IF wrapper = {} THEN body
    ELSE Expanded(CHOOSE c \in wrapper : TRUE, p.dir, u) \o body

\* The folder that the references of a page are relative to.
BaseDir(u) == u.dir

\* What a page becomes at an address, with the headers of some site.
Assembled(pages, u, p) ==
    Wrapped(Wrapper(pages, p, live[p].content), p, u,
            Expanded(live[p].content, BaseDir(u), u))

\* The preview of a content that would be saved at a path.
Preview(p, content) ==
    LET u == IF Ext(p) = "gmi" THEN ListURL(p) ELSE p
    IN  Wrapped(DraftWrapper(p, content), p, u, Expanded(content, p.dir, u))

-----------------------------------------------------------------------------
(***************************************************************************)
(* What is done to the pages.                                              *)
(***************************************************************************)

SearchFollows == searchable' = FindableIn(live')

\* A save through one of the doors.
Save(p, d) ==
    /\ Publish(p, d)
    /\ SearchFollows
    /\ UNCHANGED <<drafts, editing, target>>

\* A page goes with its draft.
Delete(p) ==
    /\ Live(p)
    /\ Remove(p)
    /\ SearchFollows
    /\ drafts' = [drafts EXCEPT ![p] = NoDoc]
    /\ UNCHANGED <<editing, target>>

Rename(p, q) ==
    /\ live[p] \in Allowed[q]
    /\ drafts[p] = NoDoc \/ (drafts[q] = NoDoc /\ q \in DraftPaths)
    /\ Move(p, q)
    /\ SearchFollows
    /\ drafts' = IF drafts[p] = NoDoc THEN drafts
                 ELSE [drafts EXCEPT ![q] = drafts[p], ![p] = NoDoc]
    /\ UNCHANGED <<editing, target>>

SaveDraft(p, d) ==
    /\ drafts' = [drafts EXCEPT ![p] = d.content]
    /\ UNCHANGED <<siteVars, editing, target>>

DiscardDraft(p) ==
    /\ drafts[p] # NoDoc
    /\ drafts' = [drafts EXCEPT ![p] = NoDoc]
    /\ UNCHANGED <<siteVars, editing, target>>

\* An editor's certificate gets the source of a page in place of the page.
Fetch(e, u) ==
    /\ target[e] = NoTarget
    /\ Answer(u).type = "page"
    /\ editing' = [editing EXCEPT ![e] = <<u, Answer(u).at>>]
    /\ UNCHANGED <<siteVars, drafts, target>>

TitanTarget_gmi(u, there) ==
    IF IsFolder(u) THEN Index(u.dir)
    ELSE IF u.exts = <<>> THEN With(u, <<"gmi">>) ELSE u

\* The path an upload to an address is saved at, if that of the very name is
\* there or not.
TitanTarget(u, there) ==
    IF IsFolder(u) THEN Index(u.dir)
    ELSE IF u.exts = <<>> /\ ~ there THEN With(u, <<"gmi">>) ELSE u

\* Uploading to a folder that publishes a feed posts a note of a new name.
PostsNote(u) == IsFolder(u) /\ u.dir # <<>> /\ IsFeedFolder(u.dir)

\* Why the page that was fetched may not be the one to be written: it is gone,
\* there is one of the very name by now, its name has a dot of its own, or
\* what is there could not be looked up.
Elsewhere(u, p, there) ==
    \/ ~ Live(p)
    \/ Live(u) /\ u # p
    \/ p = With(u, <<"gmi">>) /\ u.exts # <<>>
    \/ there # Live(u)

\* An upload begins: where it goes is decided, by what can be looked up, before
\* its body is read.  Whether it was to go elsewhere is noted (history).
ChooseTarget(e) ==
    /\ editing[e] # NoFetch /\ target[e] = NoTarget
    /\ LET u == editing[e][1]
       IN  \/ /\ PostsNote(u)
              /\ editing' = [editing EXCEPT ![e] = NoFetch]
              /\ UNCHANGED target
           \/ \E there \in {Live(u), FALSE} :
              /\ TitanTarget(u, there) \in Paths
              /\ target' = [target EXCEPT ![e] =
                    [path |-> TitanTarget(u, there),
                     elsewhere |-> Elsewhere(u, editing[e][2], there)]]
              /\ UNCHANGED editing
    /\ UNCHANGED <<siteVars, drafts>>

UploadEnds(e) ==
    /\ editing' = [editing EXCEPT ![e] = NoFetch]
    /\ target' = [target EXCEPT ![e] = NoTarget]

\* The name decides the type where it gives one, and else the client.
Upload(e) ==
    /\ target[e] # NoTarget
    /\ LET p == target[e].path
       IN  \E d \in Allowed[p] :
            /\ MimeFor(p) # "binary" => d.mime = MimeFor(p)
            /\ Publish(p, d)
    /\ SearchFollows
    /\ UploadEnds(e)
    /\ UNCHANGED drafts

\* An upload of no bytes deletes.
UploadNothing(e) ==
    /\ target[e] # NoTarget
    /\ LET p == target[e].path
       IN  /\ Live(p)
           /\ Remove(p)
           /\ SearchFollows
           /\ drafts' = [drafts EXCEPT ![p] = NoDoc]
    /\ UploadEnds(e)

\* The connection or the save fails, or there is nothing to delete: the client
\* has what it fetched and may try again.
UploadFails(e) ==
    /\ target[e] # NoTarget
    /\ target' = [target EXCEPT ![e] = NoTarget]
    /\ UNCHANGED <<siteVars, drafts, editing>>

PathNext ==
    \/ \E p \in Paths :
        \/ \E d \in Allowed[p] : Save(p, d)
        \/ Delete(p)
        \/ \E q \in Paths : Rename(p, q)
    \/ \E p \in DraftPaths :
        \/ \E d \in Allowed[p] : SaveDraft(p, d)
        \/ DiscardDraft(p)
    \/ \E e \in Editors :
        \/ \E u \in Urls : Fetch(e, u)
        \/ ChooseTarget(e)
        \/ Upload(e) \/ UploadNothing(e) \/ UploadFails(e)

PathSpec == PathInit /\ [][PathNext]_pathVars

-----------------------------------------------------------------------------
(***************************************************************************)
(* Properties.                                                             *)
(***************************************************************************)

ShownAt(u, p) == Answer(u) \in {Result("page", p), Result("file", p)}

\* Something that comes before page p at the address u.
InTheWay(u, p) ==
    \/ IsFeed(u) \/ ScriptsFor(u) # {}
    \/ Live(u) /\ u # p

\* Addresses that are refused, as those of the source of an executable page:
\* a page x.cgi.gmi has one too (site.go:127).
Refused(u) == Ext(u) = "cgi"

\* A page whose whole name is index is taken for that of its folder
\* (web.go:389).
NamedLikeAnIndex(p) == p.stem = "index" /\ p.exts = <<>>

\* The address that search, a feed or a redirect gives for a page shows that
\* page, and so does the address in a listing for every .gmi page, however
\* folders, indexes and extensions are named, unless a feed, a script or a page
\* of the very name has taken the address, the address is one that is refused,
\* or the name is index alone (web.go:387, site.go:147, 746).
LinksLead ==
    \A p \in Paths : Live(p) =>
        /\ p \in SearchHits /\ ~ Refused(PageURL(p)) /\ ~ NamedLikeAnIndex(p) =>
            ShownAt(PageURL(p), p) \/ InTheWay(PageURL(p), p)
        /\ p \in Listed(p.dir) /\ Ext(p) = "gmi" /\ ~ Refused(ListURL(p)) =>
            ShownAt(ListURL(p), p) \/ InTheWay(ListURL(p), p)

\* A titan client overwrites, or deletes, the page whose source it fetched from
\* the same address, whatever was saved, moved, deleted and made a feed since it
\* was fetched, and until its upload has been read and is saved; unless, when
\* the upload began, that page was gone, there was one of the very name, the
\* name has a dot of its own, or the look-up failed (server.go:414, 499, 534).
\* What is uploaded to a folder with a feed is a note, and overwrites nothing.
TitanWritesWhatWasFetched ==
    \A e \in Editors : target[e] # NoTarget =>
        target[e].path = editing[e][2] \/ target[e].elsewhere

\* The pages that a document may include, or include once they are made.
Mentioned(content, base) ==
    LET pages[n \in 0..(MaxIncludeDepth + 1), c \in Contents,
              b \in {p.dir : p \in Paths}] ==
            LET ref == RefFrom(b, c)
                page == IF Has(Published, ref) THEN ref ELSE With(ref, <<"gmi">>)
            IN  IF n > MaxIncludeDepth \/ c.includes = {} THEN {}
                ELSE {ref, With(ref, <<"gmi">>)} \cup
                     IF Has(Published, page)
                     THEN pages[n + 1, Published[page], page.dir] ELSE {}
    IN  pages[0, content, base]

\* A page that shows itself, in its text or as or in its header.
ShowsItself(p, content) ==
    \/ p \in content.header
    \/ p \in Mentioned(content, p.dir)
    \/ \E c \in DraftWrapper(p, content) : p \in Mentioned(c, p.dir)

ServedAsPreviewed(p, d) ==
    LET u == PageURL(p)
    IN  Save(p, d) /\ d.mime = "gemtext" /\ ShownAt(u, p)'
            /\ ~ ShowsItself(p, d.content) =>
        Preview(p, d.content) = Assembled(Drafted, u, p)'

\* What the editor is shown of a page before it is saved is what readers are
\* shown of it afterwards at its address, once the drafted headers are
\* published: the same inclusions, found from the same folder, and the same
\* header (site.go:299, 338); a page that shows itself is previewed with what it
\* said, and the counter of an index is another one.
PreviewIsServed ==
    [][\A p \in Paths : \A d \in Allowed[p] :
        \/ ServedAsPreviewed(p, d)
        \/ /\ IsFolder(PageURL(p))
           /\ \E i \in DOMAIN Preview(p, d.content) :
                Preview(p, d.content)[i].count # NoDoc]_pathVars
=============================================================================
