------------------------------- MODULE Feeds -------------------------------
(***************************************************************************)
(* The marker of a folder that publishes a feed (internal/store/store.go,  *)
(* internal/web/admin.go, adminbrowse.go): a page .feed, there or not,     *)
(* whose lines say how the feed is titled and how new pages are named.     *)
(* The admin pages switch the feed on and off, and a click on a way of     *)
(* naming reads the marker, changes that line and saves the rest as it was *)
(* read.                                                                   *)
(*                                                                         *)
(* One folder; the lines besides the prefix are one value.  A save is one  *)
(* of the store, which keeps what it overwrites (Store has that).          *)
(***************************************************************************)
CONSTANTS
    Lines,         \* what a marker may say besides the prefix
    DefaultLines,  \* what it says when the feed is switched on
    Clicks,        \* requests that set the prefix, at once
    Off            \* no lines: the feed is switched off

ASSUME FeedsAssumption == DefaultLines \in Lines /\ Off \notin Lines

VARIABLES
    marker,  \* the marker, or NoMarker
    click,   \* the marker each click is about to save, or NoClick
    said,    \* the lines last written by hand, or Off (history)
    late,    \* clicks that read before that, or what such a click had written
             \* (history)
    revived  \* whether the marker is one that such a click wrote (history)

feedVars == <<marker, click, said, late, revived>>

NoMarker == [prefix |-> "no marker"]

NoClick == [prefix |-> "no click"]

Prefixes == {"none", "date", "datetime"}

Marker == [prefix : Prefixes \cup {"unset"}, lines : Lines]

Says(m) == IF m = NoMarker THEN Off ELSE m.lines

DefaultMarker == [prefix |-> "date", lines |-> DefaultLines]

FeedsTypeOK ==
    /\ marker \in Marker \cup {NoMarker}
    /\ click \in [Clicks -> Marker \cup {NoClick}]
    /\ said \in Lines \cup {Off}
    /\ late \in [Clicks -> BOOLEAN]
    /\ revived \in BOOLEAN

FeedsInit ==
    /\ marker = NoMarker
    /\ click = [c \in Clicks |-> NoClick]
    /\ said = Off
    /\ late = [c \in Clicks |-> FALSE]
    /\ revived = FALSE

-----------------------------------------------------------------------------

WithPrefix_regenerated(m, v) == [DefaultMarker EXCEPT !.prefix = v]

\* setKey: the line is replaced, or added where there is none.
WithPrefix(m, v) == [m EXCEPT !.prefix = v]

ByHand(m) ==
    /\ marker' = m
    /\ said' = Says(m)
    /\ late' = [c \in Clicks |-> click[c] # NoClick]
    /\ revived' = FALSE
    /\ UNCHANGED click

\* Switched on again, a feed gets the default marker in the place of its own.
SwitchOn == ByHand(DefaultMarker)

SwitchOff == marker # NoMarker /\ ByHand(NoMarker)

\* An edit of the marker, which is a page like others.
WriteMarker(m) == ByHand(m)

\* adminPrefix up to the save: a folder without a marker is refused.
ReadMarker(c, v) ==
    /\ click[c] = NoClick
    /\ marker # NoMarker
    /\ click' = [click EXCEPT ![c] = WithPrefix(marker, v)]
    /\ late' = [late EXCEPT ![c] = revived]
    /\ UNCHANGED <<marker, said, revived>>

SaveMarker(c) ==
    /\ click[c] # NoClick
    /\ marker' = click[c]
    /\ click' = [click EXCEPT ![c] = NoClick]
    /\ revived' = late[c]
    /\ UNCHANGED <<said, late>>

FeedsNext ==
    \/ SwitchOn \/ SwitchOff
    \/ \E m \in Marker : WriteMarker(m)
    \/ \E c \in Clicks :
        \/ \E v \in Prefixes : ReadMarker(c, v)
        \/ SaveMarker(c)

FeedsSpec == FeedsInit /\ [][FeedsNext]_feedVars

-----------------------------------------------------------------------------
(***************************************************************************)
(* Properties.                                                             *)
(***************************************************************************)

\* A folder publishes, and its marker says, what was last written by hand or
\* switched on or off, whatever is clicked beside and after that, unless the
\* marker is one that was read before (adminbrowse.go:260, 280).
SettingsAreTheLastWord == revived \/ Says(marker) = said
=============================================================================
