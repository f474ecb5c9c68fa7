---------------------------- MODULE TelnetFilter ----------------------------
(***************************************************************************)
(* What a telnet session makes of the bytes it receives (feed, respond and *)
(* endSub of internal/telnet/telnet.go): text for the program, answers to  *)
(* negotiation, and window sizes.  A byte is named for what it means after *)
(* IAC; "a" is any other byte, "NAWS" is the option of window sizes (31)  *)
(* and "NUL" is 0.                                                         *)
(***************************************************************************)
EXTENDS Integers, Sequences, FiniteSets

CONSTANTS
    Bytes,      \* of {"a","NUL","NAWS","IAC","SB","SE","DO","WILL","DONT"}
    SubBytes,   \* those told apart inside a subnegotiation
    MaxStream,  \* bound on the bytes received
    MaxInSub    \* and on those received while inside a subnegotiation

ASSUME FilterAssumption ==
    SubBytes \subseteq Bytes /\ MaxStream \in Nat /\ MaxInSub \in Nat

VARIABLES
    stream,   \* all bytes received (history)
    mode, verb, sub,
    out,      \* text for the program
    replies,  \* answers to negotiation
    sizes     \* window sizes reported

filterVars == <<stream, mode, verb, sub, out, replies, sizes>>

SubMax == 64

FilterInit ==
    /\ stream = <<>>
    /\ mode = "data"
    /\ verb = "none"
    /\ sub = <<>>
    /\ out = <<>>
    /\ replies = <<>>
    /\ sizes = <<>>

Verbs == {"DO", "WILL", "DONT"}

\* respond: what we asked for needs no answer, the rest is declined.
Reply(v, opt) ==
    IF v = "DO" THEN <<<<"WONT", opt>>>>
    ELSE IF v = "WILL" /\ opt # "NAWS" THEN <<<<"DONT", opt>>>>
    ELSE <<>>

ByteOf(b) == IF b = "NUL" THEN 0 ELSE 1

\* endSub: five bytes that begin with NAWS, neither measure zero.
Resize(s) ==
    IF /\ Len(s) = 5
       /\ s[1] = "NAWS"
       /\ ByteOf(s[2]) + ByteOf(s[3]) > 0
       /\ ByteOf(s[4]) + ByteOf(s[5]) > 0
    THEN <<Tail(s)>> ELSE <<>>

InSub(b) == sub' = IF Len(sub) < SubMax THEN Append(sub, b) ELSE sub

Data(b) ==
    /\ mode = "data"
    /\ IF b = "IAC" THEN mode' = "iac" /\ UNCHANGED out
       ELSE out' = Append(out, b) /\ UNCHANGED mode
    /\ UNCHANGED <<verb, sub, replies, sizes>>

Iac(b) ==
    /\ mode = "iac"
    /\ mode' = IF b \in Verbs THEN "cmd" ELSE IF b = "SB" THEN "sub" ELSE "data"
    /\ verb' = IF b \in Verbs THEN b ELSE verb
    /\ sub' = IF b = "SB" THEN <<>> ELSE sub
    /\ out' = IF b = "IAC" THEN Append(out, b) ELSE out
    /\ UNCHANGED <<replies, sizes>>

Cmd(b) ==
    /\ mode = "cmd"
    /\ mode' = "data"
    /\ replies' = replies \o Reply(verb, b)
    /\ UNCHANGED <<verb, sub, out, sizes>>

Sub(b) ==
    /\ mode = "sub"
    /\ IF b = "IAC" THEN mode' = "subiac" /\ UNCHANGED sub
       ELSE InSub(b) /\ UNCHANGED mode
    /\ UNCHANGED <<verb, out, replies, sizes>>

SubIac_dropsEscape(b) ==
    /\ mode = "subiac"
    /\ mode' = IF b = "SE" THEN "data" ELSE "sub"
    /\ UNCHANGED sub
    /\ sizes' = IF b = "SE" THEN sizes \o Resize(sub) ELSE sizes
    /\ UNCHANGED <<verb, out, replies>>

SubIac(b) ==
    /\ mode = "subiac"
    /\ mode' = IF b = "SE" THEN "data" ELSE "sub"
    /\ IF b = "IAC" THEN InSub("IAC") ELSE UNCHANGED sub
    /\ sizes' = IF b = "SE" THEN sizes \o Resize(sub) ELSE sizes
    /\ UNCHANGED <<verb, out, replies>>

FilterNext ==
    /\ \/ Len(stream) < MaxStream
       \/ Len(stream) < MaxInSub /\ mode \in {"sub", "subiac"}
    /\ \E b \in IF mode \in {"sub", "subiac"} THEN SubBytes ELSE Bytes :
        /\ stream' = Append(stream, b)
        /\ Data(b) \/ Iac(b) \/ Cmd(b) \/ Sub(b) \/ SubIac(b)

FilterSpec == FilterInit /\ [][FilterNext]_filterVars

-----------------------------------------------------------------------------
(***************************************************************************)
(* The reference: a grammar of the stream.  It knows no modes: an item is  *)
(* told by the places it begins and ends at, and the items are those that  *)
(* follow each other from the front, as far as they are complete.          *)
(***************************************************************************)

AnyOf(S) == CHOOSE x \in S : TRUE

\* IACs come in pairs inside a subnegotiation that begins at j: whether the one
\* at k is waiting for its second byte.
Waiting(s, j, k) ==
    Cardinality({i \in j..k : \A m \in i..k : s[m] = "IAC"}) % 2 = 1

\* The places from j to k that are part of what a subnegotiation says: bytes
\* that follow no waiting IAC, and the second of each pair of IACs.
Said(s, j, k) ==
    {m \in j..k : IF s[m] = "IAC" THEN ~ Waiting(s, j, m)
                  ELSE ~ Waiting(s, j, m - 1)}

Closes(s, j, k) == s[k] = "SE" /\ Waiting(s, j, k - 1)

\* The bytes from i to k are one item: a byte of text, an escape or a command
\* of two bytes, a negotiation, or a subnegotiation.
Item(s, i, k) ==
    IF s[i] # "IAC" THEN k = i
    ELSE /\ i < k
         /\ \/ s[i + 1] \notin Verbs \cup {"SB"} /\ k = i + 1
            \/ s[i + 1] \in Verbs /\ k = i + 2
            \/ /\ s[i + 1] = "SB"
               /\ i + 2 < k
               /\ Closes(s, i + 2, k)
               /\ \A m \in (i + 3)..(k - 1) : ~ Closes(s, i + 2, m)

\* The place after the item at i, or i while that is incomplete.
Beyond(s, i) ==
    LET ends == {k \in i..Len(s) : Item(s, i, k)}
    IN  IF ends = {} THEN i ELSE AnyOf(ends) + 1

\* The places after up to n items.
Fronts(s) ==
    LET reached[n \in Nat] ==
            IF n = 0 THEN {1} ELSE {1} \cup {Beyond(s, i) : i \in reached[n - 1]}
    IN  reached[Len(s)]

\* Every item is complete that begins where one before it ended.
Items(s) ==
    {e \in Fronts(s) \X (1..Len(s)) : e[1] <= e[2] /\ Item(s, e[1], e[2])}

\* A finite set of numbers as a sequence, the least first.
Ascending(S) ==
    [n \in 1..Cardinality(S) |->
        AnyOf({k \in S : Cardinality({m \in S : m <= k}) = n})]

BytesAt(s, S) == [n \in 1..Cardinality(S) |-> s[Ascending(S)[n]]]

\* The place where the item that ends at k begins.
BeginOf(items, k) == AnyOf({i \in 1..k : <<i, k>> \in items})

Ends(items) == {e[2] : e \in items}

TextPlaces(s, items) ==
    {k \in Ends(items) :
        \/ BeginOf(items, k) = k
        \/ BeginOf(items, k) = k - 1 /\ s[k] = "IAC"}

ReplyAt(s, k) == Reply(s[k - 1], s[k])

Answered(s, items) ==
    {k \in Ends(items) : BeginOf(items, k) = k - 2 /\ ReplyAt(s, k) # <<>>}

Payload(s, i, k) == BytesAt(s, Said(s, i + 2, k - 2))

SizeAt(s, items, k) == Resize(Payload(s, BeginOf(items, k), k))

Reported(s, items) ==
    {k \in Ends(items) : BeginOf(items, k) < k - 2 /\ SizeAt(s, items, k) # <<>>}

\* However the bytes are cut into reads, the program gets the text between
\* commands, escapes undone, each command gets its answer, and each complete
\* window size is reported, nothing of one leaking into the other
\* (telnet.go:274).
FilterIsExact ==
    LET items == Items(stream)
        cmds == Ascending(Answered(stream, items))
        subs == Ascending(Reported(stream, items))
    IN  /\ out = BytesAt(stream, TextPlaces(stream, items))
        /\ replies = [n \in DOMAIN cmds |-> ReplyAt(stream, cmds[n])[1]]
        /\ sizes = [n \in DOMAIN subs |-> SizeAt(stream, items, subs[n])[1]]
=============================================================================
