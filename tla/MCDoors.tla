------------------------------ MODULE MCDoors ------------------------------
(***************************************************************************)
(* Small instances, for TLC, of parts of the server that share nothing:    *)
(* the limiter of failed logins, authorization codes and tokens, the       *)
(* sessions of the telnet door and their byte filter, the release check,   *)
(* notes posted without a name, and the marker of a feed.  Each behaviour  *)
(* chooses the part it runs, so that their states add up and do not        *)
(* multiply.                                                               *)
(***************************************************************************)
EXTENDS Throttle, OAuth, Telnet, TelnetFilter, Updates, Notes, Feeds

CONSTANT Parts

VARIABLE part

\* One callback that may be given, and one that may not.
MCRedirects == {[scheme |-> "https", host |-> "agent"],
                [scheme |-> "http", host |-> "agent"]}

\* Clients, codes and token requests are alike: a first one comes first.
FirstOf(S) == CHOOSE x \in S : TRUE

OAuthInTurn ==
    /\ \A k \in Codes : asked'[k] # NoCode => asked'[FirstOf(Codes)] # NoCode
    /\ asked'[FirstOf(Codes)] # NoCode =>
        asked'[FirstOf(Codes)].client = FirstOf(Clients)
    /\ \A e \in Exchanges :
        exchange[e] = NoExchange /\ exchange'[e] # NoExchange =>
            e = FirstOf(Exchanges) \/ exchange[FirstOf(Exchanges)] # NoExchange

doorVars ==
    <<part, throttleVars, oauthVars, telnetVars, filterVars, updateVars,
      notesVars, feedVars>>

Init ==
    /\ part \in Parts
    /\ ThrottleInit /\ OAuthInit /\ TelnetInit /\ FilterInit /\ UpdatesInit
    /\ NotesInit /\ FeedsInit

Alone(name) ==
    /\ part = name
    /\ UNCHANGED part
    /\ name # "limiter" => UNCHANGED throttleVars
    /\ name # "oauth" => UNCHANGED oauthVars
    /\ name # "telnet" => UNCHANGED telnetVars
    /\ name # "filter" => UNCHANGED filterVars
    /\ name # "updates" => UNCHANGED updateVars
    /\ name # "notes" => UNCHANGED notesVars
    /\ name # "feeds" => UNCHANGED feedVars

Next ==
    \/ Alone("limiter") /\ ThrottleNext
    \/ Alone("oauth") /\ OAuthNext /\ OAuthInTurn
    \/ Alone("telnet") /\ TelnetNext
    \/ Alone("filter") /\ FilterNext
    \/ Alone("updates") /\ UpdatesNext
    \/ Alone("notes") /\ NotesNext
    \/ Alone("feeds") /\ FeedsNext

Spec == Init /\ [][Next]_doorVars

-----------------------------------------------------------------------------

\* Time passes, and an attempt that has read the clock is not left waiting.
LimiterFairness ==
    /\ WF_throttleVars(part = "limiter" /\ Tick)
    /\ \A a \in Attempts :
        WF_throttleVars(part = "limiter" /\ (Check(a) \/ Record(a)))

\* Timers fire, and goroutines whose turn it is run on.  Nothing is assumed of
\* visitors: they may type for ever, and leave or not.
TelnetFairness ==
    /\ WF_telnetVars(part = "telnet" /\ TelnetTick)
    /\ \A c \in Conns :
        /\ WF_telnetVars(part = "telnet" /\ HardLimit(c))
        /\ WF_telnetVars(part = "telnet" /\ RunReturns(c))
        /\ WF_telnetVars(part = "telnet" /\ GiveBack(c))

\* Pages go on being rendered, time passes, a request is answered or times out,
\* and of the answers that come again and again some are not failures.
UpdatesFairness ==
    /\ WF_updateVars(part = "updates" /\ UpdatesTick)
    /\ \A p \in Pages : WF_updateVars(part = "updates" /\ Render(p))
    /\ \A g \in Refreshes :
        /\ WF_updateVars(part = "updates" /\ Finish(g))
        /\ WF_updateVars(part = "updates" /\ (Answer(g) \/ NoAnswer(g)))
        /\ SF_updateVars(part = "updates" /\ Answer(g))

FairSpec == Spec /\ LimiterFairness /\ TelnetFairness /\ UpdatesFairness
=============================================================================
