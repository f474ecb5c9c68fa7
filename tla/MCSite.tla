------------------------------- MODULE MCSite -------------------------------
(***************************************************************************)
(* Small instances of Site; each behaviour chooses one.  In "addresses"    *)
(* there is a folder "d" with pages of every kind of name that matters,    *)
(* beside a page of its own name.  In "previews" there are two indexes and *)
(* the pages they include, with headers above them that may be drafted.    *)
(***************************************************************************)
EXTENDS Site

VARIABLE part

Top(stem, exts) == [dir |-> <<>>, stem |-> stem, exts |-> exts]
In(stem, exts) == [dir |-> <<"d">>, stem |-> stem, exts |-> exts]

Says(text, includes, counted, bare, header) ==
    [text |-> text, includes |-> includes, counted |-> counted, bare |-> bare,
     header |-> header]

Plain == Says("plain", {}, FALSE, FALSE, {})

Gemtext(c) == [content |-> c, mime |-> "gemtext"]

\* For addresses.
Pages == {Top("d", <<>>), Top("d", <<"gmi">>), Top("index", <<"gmi">>),
          In("index", <<"gmi">>), In("a", <<>>), In("a", <<"gmi">>),
          In("a", <<"v2", "gmi">>), In("a", <<"gmi", "cgi">>),
          In("feed", <<"xml">>)}
AddressPaths == Pages \cup {In("", <<"feed">>)}

PlainText == [content |-> Plain, mime |-> "text"]

InAddresses(p) ==
    IF p \notin AddressPaths THEN {}
    ELSE IF p \in {In("a", <<>>), In("feed", <<"xml">>)} THEN {PlainText}
    ELSE {Gemtext(Plain)}

MCUrls == {Folder(<<>>), Folder(<<"d">>), Top("d", <<>>), Top("d", <<"gmi">>),
           In("a", <<>>), In("a", <<"v2">>), In("a", <<"v2", "gmi">>)}

\* For previews.
Ref(absolute, p) == [absolute |-> absolute, to |-> p]
AHere == Ref(FALSE, [dir |-> <<>>, stem |-> "a", exts |-> <<>>])
AThere == Ref(TRUE, In("a", <<"gmi">>))

\* What the pages say: an index that includes a page beside it, a page that
\* includes itself, one with its counter, one that names its header.
WithA == Says("with a", {AHere}, FALSE, FALSE, {})
Loop == Says("loop", {AThere}, FALSE, FALSE, {})
Counted == Says("counted", {}, TRUE, FALSE, {})
Named == Says("named", {}, FALSE, FALSE, {Top("", <<"header">>)})
Bared == Says("bare", {}, FALSE, TRUE, {})
\* What the headers say.
Title == Says("title", {}, FALSE, FALSE, {})
NewTitle == Says("new title", {}, TRUE, FALSE, {})
Header == Says("header", {AThere}, FALSE, FALSE, {})
NewHeader == Says("new header", {AHere}, FALSE, FALSE, {})

MCContents ==
    {Plain, WithA, Loop, Counted, Named, Bared, Title, NewTitle, Header, NewHeader}

Headed == {Top("", <<"header">>), In("", <<"header">>)}

PreviewPaths ==
    {Top("index", <<"gmi">>), In("index", <<"gmi">>), In("a", <<"gmi">>),
     In("a", <<>>)} \cup Headed

InPreviews(p) ==
    IF p \notin PreviewPaths THEN {}
    ELSE IF p = In("index", <<"gmi">>)
    THEN {Gemtext(WithA), Gemtext(Named), Gemtext(Counted)}
    ELSE IF p = Top("index", <<"gmi">>) THEN {Gemtext(WithA), Gemtext(Bared)}
    ELSE IF p = In("a", <<"gmi">>) THEN {Gemtext(Counted), Gemtext(Loop)}
    ELSE IF p = Top("", <<"header">>) THEN {Gemtext(Title), Gemtext(NewTitle)}
    ELSE IF p = In("", <<"header">>) THEN {Gemtext(Header), Gemtext(NewHeader)}
    ELSE {PlainText}

MCPaths == AddressPaths \cup PreviewPaths
MCHidden == {p \in MCPaths : Hidden(p)}
MCAllowed == [p \in MCPaths |-> InAddresses(p) \cup InPreviews(p)]

OnlyAddresses ==
    \A p \in Paths :
        live[p] \in InAddresses(p) \cup {NoDoc} /\ drafts[p] = NoDoc

OnlyPreviews ==
    /\ \A p \in Paths : live[p] \in InPreviews(p) \cup {NoDoc}
    /\ \A e \in Editors : editing[e] = NoFetch

MCInit == PathInit /\ part \in {"addresses", "previews"}

MCNext ==
    /\ PathNext
    /\ UNCHANGED part
    /\ \/ part = "addresses" /\ OnlyAddresses'
       \/ part = "previews" /\ OnlyPreviews'

MCSpec == MCInit /\ [][MCNext]_<<pathVars, part>>
=============================================================================
