------------------------------- MODULE OAuth -------------------------------
(***************************************************************************)
(* Authorization codes and signed tokens (internal/web/oauth.go,           *)
(* internal/auth/auth.go).  The consent page approves a request and puts a *)
(* code into a table in memory; the token endpoint takes the code out,     *)
(* checks what came with it, and issues tokens.  A token is nothing but    *)
(* its expiry signed with the server's secret, so access tokens, refresh   *)
(* tokens and the cookie of a login are all the same to the server.        *)
(*                                                                         *)
(* The password of the consent page, of client credentials and of the      *)
(* login form is asked for as Throttle says; here it was right.  A         *)
(* challenge and the verifier that matches it are the client that made     *)
(* them.  Times are readings of the clock, which outlives restarts.        *)
(***************************************************************************)
EXTENDS Naturals, Sequences, FiniteSets

CONSTANTS
    Clients,        \* MCP clients
    Codes,          \* codes ever drawn at random: bounds the approvals
    Exchanges,      \* token requests under way at once: bounds them
    Redirects,      \* callbacks that clients ask for
    AllowedHosts,   \* oauth_redirect_hosts
    OwnHosts,       \* the site's names, its onion address among them
    Onions,         \* the onion address alone, if there is one
    Loopback,       \* localhost and its addresses
    CodeTTL, AccessTTL, RefreshTTL,
    MaxTime,        \* bound on the clock
    MaxSecret,      \* bound on the secrets ever made
    NoCode

ASSUME OAuthAssumption ==
    /\ Redirects \subseteq [scheme : STRING, host : STRING]
    /\ Onions \subseteq OwnHosts
    /\ {CodeTTL, AccessTTL, RefreshTTL, MaxTime, MaxSecret} \subseteq Nat

VARIABLES
    asked,     \* what each code was drawn for, and when (history)
    codes,     \* codeStore: the pending codes
    exchange,  \* the token requests that have taken a code, or NoExchange
    sold,      \* the exchanges each code has bought tokens for (history)
    spent,     \* codes presented, or lost in a restart (history)
    tokens,    \* the tokens issued that have not expired
    secret,    \* the secret the running server signs with
    saved,     \* session_secret in the settings table, 0 for none
    drawn,     \* the secrets made so far, which are numbered
    doubtful,  \* secrets that a start could not read, or not save (history)
    clock

secretVars == <<secret, saved, drawn, doubtful>>

oauthVars == <<asked, codes, exchange, sold, spent, tokens, secretVars, clock>>

Asked == [client : Clients, redirect : Redirects, at : Nat, put : BOOLEAN]

\* authCode
AuthCode == [challenge : Clients, redirect : Redirects, expires : Nat]

Taken == [code : Codes, ac : AuthCode, verifier : Clients,
          redirect : Redirects \cup {<<>>}, at : Nat]

NoExchange == [code |-> <<>>]

Token == [expires : Nat, secret : Nat]

ASSUME SentinelsAssumption ==
    /\ NoCode \notin Asked \cup AuthCode
    /\ NoExchange \notin Taken

OAuthTypeOK ==
    /\ asked \in [Codes -> Asked \cup {NoCode}]
    /\ codes \in [Codes -> AuthCode \cup {NoCode}]
    /\ exchange \in [Exchanges -> Taken \cup {NoExchange}]
    /\ sold \in [Codes -> Seq([verifier : Clients, at : Nat])]
    /\ spent \subseteq Codes
    /\ tokens \subseteq Token
    /\ {secret, saved, drawn, clock} \subseteq Nat
    /\ doubtful \subseteq Nat

\* A first start finds no secret, and makes one, which it may fail to save.
OAuthInit ==
    /\ asked = [k \in Codes |-> NoCode]
    /\ codes = [k \in Codes |-> NoCode]
    /\ exchange = [e \in Exchanges |-> NoExchange]
    /\ sold = [k \in Codes |-> <<>>]
    /\ spent = {}
    /\ tokens = {}
    /\ secret = 1
    /\ drawn = 1
    /\ \/ saved = 1 /\ doubtful = {}
       \/ saved = 0 /\ doubtful = {1}
    /\ clock = 0

-----------------------------------------------------------------------------

\* Cleartext only to loopback or over tor; https to this site and to the
\* hosts the operator names.
ValidRedirect(r) ==
    \/ r.scheme = "http" /\ r.host \in Onions \cup Loopback
    \/ r.scheme = "https" /\ r.host \in OwnHosts \cup AllowedHosts

Signed(expires) == [expires |-> expires, secret |-> secret]

Valid(t) == t.secret = secret /\ clock < t.expires

Issued == tokens \cup {Signed(clock + AccessTTL), Signed(clock + RefreshTTL)}

\* The right password on the consent page: a code is drawn and its expiry
\* computed, before the table is locked.
Approve(k, c, r) ==
    /\ ValidRedirect(r)
    /\ asked[k] = NoCode
    /\ asked' = [asked EXCEPT ![k] =
                    [client |-> c, redirect |-> r, at |-> clock, put |-> FALSE]]
    /\ UNCHANGED <<codes, exchange, sold, spent, tokens, secretVars, clock>>

SweptCodes_soon == [k \in Codes |->
    IF codes[k] # NoCode /\ clock >= codes[k].expires THEN NoCode ELSE codes[k]]

SweptCodes == [k \in Codes |->
    IF codes[k] # NoCode /\ clock > codes[k].expires THEN NoCode ELSE codes[k]]

\* put: the expired codes are swept out, the new one goes in, and the client
\* is sent to its callback with it.
Put(k) ==
    /\ asked[k] # NoCode
    /\ ~ asked[k].put
    /\ k \notin spent
    /\ codes' = [SweptCodes EXCEPT ![k] =
                    [challenge |-> asked[k].client,
                     redirect |-> asked[k].redirect,
                     expires |-> asked[k].at + CodeTTL]]
    /\ asked' = [asked EXCEPT ![k].put = TRUE]
    /\ UNCHANGED <<exchange, sold, spent, tokens, secretVars, clock>>

Take_leavesCode(e, k, v, r) ==
    /\ exchange[e] = NoExchange
    /\ asked[k] # NoCode
    /\ asked[k].put
    /\ codes[k] # NoCode /\ clock <= codes[k].expires
    /\ exchange' = [exchange EXCEPT ![e] =
                    [code |-> k, ac |-> codes[k], verifier |-> v,
                     redirect |-> r, at |-> clock]]
    /\ UNCHANGED <<codes, spent, asked, sold, tokens, secretVars, clock>>

\* take, under the lock: the code is gone whatever comes of it, and an expired
\* one buys nothing.  Nobody has a code before it was put; a client may
\* present one again, or one that was sent to another.
Take(e, k, v, r) ==
    /\ exchange[e] = NoExchange
    /\ asked[k] # NoCode
    /\ asked[k].put
    /\ codes' = [codes EXCEPT ![k] = NoCode]
    /\ spent' = spent \cup {k}
    /\ exchange' = IF codes[k] # NoCode /\ clock <= codes[k].expires
                   THEN [exchange EXCEPT ![e] =
                            [code |-> k, ac |-> codes[k], verifier |-> v,
                             redirect |-> r, at |-> clock]]
                   ELSE exchange
    /\ UNCHANGED <<asked, sold, tokens, secretVars, clock>>

\* The rest of the exchange: the callback, when one is given, and the verifier
\* must be those of the request that was approved.
Exchange(e) ==
    LET x == exchange[e]
    IN  /\ x # NoExchange
        /\ exchange' = [exchange EXCEPT ![e] = NoExchange]
        /\ IF x.redirect \in {<<>>, x.ac.redirect} /\ x.verifier = x.ac.challenge
           THEN /\ tokens' = Issued
                /\ sold' = [sold EXCEPT ![x.code] =
                        Append(@, [verifier |-> x.verifier, at |-> x.at])]
           ELSE UNCHANGED <<tokens, sold>>
        /\ UNCHANGED <<asked, codes, spent, secretVars, clock>>

\* The right password as client_secret.
ClientCredentials ==
    /\ tokens' = Issued
    /\ UNCHANGED <<asked, codes, exchange, sold, spent, secretVars, clock>>

Refresh(t) ==
    /\ Valid(t)
    /\ tokens' = Issued
    /\ UNCHANGED <<asked, codes, exchange, sold, spent, secretVars, clock>>

\* The cookie of a login.  Logging out makes the browser forget it; nothing is
\* revoked.
Login ==
    /\ tokens' = tokens \cup {Signed(clock + AccessTTL)}
    /\ UNCHANGED <<asked, codes, exchange, sold, spent, secretVars, clock>>

Secret_fresh(setting) == drawn + 1

\* NewSessions: the secret of the settings, a new one when there is none.
Secret(setting) == IF setting # 0 THEN setting ELSE drawn + 1

\* The table of codes and all requests go with the process.  The secret is
\* loaded, and saved again; a read that fails looks like a setting that is not
\* there, and a save that fails is passed over.
OAuthRestart ==
    \E setting \in {saved, 0}, saves \in BOOLEAN :
        /\ Secret(setting) <= MaxSecret
        /\ secret' = Secret(setting)
        /\ drawn' = IF secret' > drawn THEN secret' ELSE drawn
        /\ saved' = IF saves THEN secret' ELSE saved
        /\ doubtful' = doubtful \cup ({saved} \ {0, setting})
                               \cup ({secret'} \ {saved'})
        /\ codes' = [k \in Codes |-> NoCode]
        /\ exchange' = [e \in Exchanges |-> NoExchange]
        /\ spent' = {k \in Codes : asked[k] # NoCode}
        /\ UNCHANGED <<asked, sold, tokens, clock>>

OAuthTick ==
    /\ clock < MaxTime
    /\ clock' = clock + 1
    /\ tokens' = {t \in tokens : clock' < t.expires}
    /\ UNCHANGED <<asked, codes, exchange, sold, spent, secretVars>>

OAuthNext ==
    \/ \E k \in Codes :
        \/ \E c \in Clients, r \in Redirects : Approve(k, c, r)
        \/ Put(k)
        \/ \E e \in Exchanges, v \in Clients, r \in Redirects \cup {<<>>} :
            Take(e, k, v, r)
    \/ \E e \in Exchanges : Exchange(e)
    \/ ClientCredentials \/ Login
    \/ \E t \in tokens : Refresh(t)
    \/ OAuthRestart
    \/ OAuthTick

OAuthSpec == OAuthInit /\ [][OAuthNext]_oauthVars

-----------------------------------------------------------------------------
(***************************************************************************)
(* Properties.                                                             *)
(***************************************************************************)

\* However many exchanges of a code run at once and however often it is tried,
\* it buys tokens once, within its time, and for the client whose request was
\* approved (oauth.go:63).
CodeBuysOnceInTime ==
    \A k \in Codes :
        /\ Len(sold[k]) <= 1
        /\ \A i \in DOMAIN sold[k] :
            /\ sold[k][i].verifier = asked[k].client
            /\ sold[k][i].at <= asked[k].at + CodeTTL

\* A code sent to a client is there until somebody presents it, it expires or
\* the server restarts: the sweep of one approval takes nothing usable from
\* another client (oauth.go:50).
UsableCodesAreKept ==
    \A k \in Codes :
        /\ asked[k] # NoCode
        /\ asked[k].put
        /\ k \notin spent
        /\ clock <= asked[k].at + CodeTTL
        => codes[k] # NoCode

\* A token is good until it expires, over any number of restarts: nobody is
\* logged out and no client has to ask for the password again, but for tokens
\* signed with a secret that a start could not read, or could not save
\* (auth.go:45, serve.go:68).  The failures of other starts, with the secrets
\* they make and leave in the settings, harm none.
TokensOutliveRestarts ==
    \A t \in tokens :
        clock < t.expires /\ t.secret \notin doubtful => Valid(t)
=============================================================================
