----------------------------- MODULE MCTerminal -----------------------------
(***************************************************************************)
(* Small instances of Terminal; each behaviour chooses one.  In "keys",    *)
(* for what keys lead to, there are a home page, a script, a header and a  *)
(* note, and two views are counted.  In "views" there are a folder with an *)
(* index page and a picture, beside a page of its own name, which is       *)
(* counted under the same key, and no editor is opened.                    *)
(***************************************************************************)
EXTENDS Terminal

VARIABLE part

InFolder == {"posts/index.gmi", "posts/cat.png"}

KeyPaths == {"index.gmi", "game.cgi", ".header", "now/a.gmi"}

ViewPaths == {"posts.gmi"} \cup InFolder

MCPaths == KeyPaths \cup ViewPaths

KeyUrls == {"/game", "/now/a"}

ViewUrls == {"/posts", "/posts/", "/posts/cat.png"}

MCUrls == {"/", "/search"} \cup KeyUrls \cup ViewUrls

MCAnswersTo ==
    [u \in MCUrls |->
        CASE u = "/" -> <<"index.gmi">>
          [] u = "/game" -> <<"game.cgi">>
          [] u = "/now/a" -> <<"now/a.gmi">>
          [] u = "/posts" -> <<"posts.gmi">>
          [] u = "/posts/" -> <<"posts/index.gmi">>
          [] u = "/posts/cat.png" -> <<"posts/cat.png">>
          [] OTHER -> <<>>]

MCUrlOf ==
    [p \in MCPaths \ {"game.cgi", ".header"} |->
        CASE p = "index.gmi" -> "/"
          [] p = "now/a.gmi" -> "/now/a"
          [] p = "posts.gmi" -> "/posts"
          [] p = "posts/index.gmi" -> "/posts/"
          [] OTHER -> "/posts/cat.png"]

MCKeys ==
    MCUrls \cup {"/index", "/game.cgi", "/.header", "/posts/index"}

MCCountKey == [u \in MCUrls |-> IF u = "/posts/" THEN "/posts" ELSE u]

MCClearedKey ==
    [p \in MCPaths |->
        CASE p = "index.gmi" -> "/index"
          [] p = "now/a.gmi" -> "/now/a"
          [] p = "game.cgi" -> "/game.cgi"
          [] p = ".header" -> "/.header"
          [] p = "posts.gmi" -> "/posts"
          [] p = "posts/index.gmi" -> "/posts/index"
          [] OTHER -> "/posts/cat.png"]

MCBelow == [u \in MCUrls |-> IF u = "/posts/" THEN InFolder ELSE {}]

MCSlashOf == [u \in MCUrls |-> IF u = "/posts" THEN "/posts/" ELSE u]

MCFirstPages ==
    [p \in MCPaths |->
        CASE p \in {"index.gmi", "game.cgi", ".header"} -> "old"
          [] p \in InFolder -> ""
          [] OTHER -> NoPage]

\* Nobody goes to the pages of the other instance.
Keeps(paths, urls) ==
    /\ \A p \in paths : page[p] = MCFirstPages[p]
    /\ \A s \in Sessions :
        term[s] \notin {Away, Gone} =>
            term[s].url \notin urls /\ term[s].edPath \notin paths

NothingIsWritten ==
    /\ \A p \in ViewPaths : page[p] \in {"", NoPage}
    /\ \A s \in Sessions : ~ InEditor(term[s])

MCInit == TerminalInit /\ part \in {"keys", "views"}

MCNext ==
    /\ TerminalNext
    /\ UNCHANGED part
    /\ \/ /\ part = "keys"
          /\ Keeps(ViewPaths, ViewUrls)'
          /\ MapThenSumSet(LAMBDA k : hits'[k] + lost'[k], Keys) <= 2
       \/ /\ part = "views"
          /\ Keeps(KeyPaths, KeyUrls)'
          /\ NothingIsWritten'

MCSpec == MCInit /\ [][MCNext]_<<terminalVars, part>>
=============================================================================
