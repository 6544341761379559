-------------------------------- MODULE Config --------------------------------
(***************************************************************************)
(* util/config.cpp.  An argument is a sequence of words: <<"--mine">>,     *)
(* <<"--datadir", dir>>, or <<"--", key, value>> for --key=value and       *)
(* --key, whose value is "".  A line of shawncoin.conf is <<"[", section>> *)
(* or <<key, value>>; comments, empty lines and lines without a "=" change *)
(* nothing and are left out, and so are --testnet and the list of nodes    *)
(* to connect to, which nobody asks for.  A key is a sequence of the       *)
(* words that the code joins with a dot.                                   *)
(***************************************************************************)
EXTENDS Integers, Sequences

CONSTANTS
    Number,                     \* the values that std::stoi accepts
    ToInt(_)                    \* std::stoi on these

ASSUME ConfigConstants == \A v \in Number : ToInt(v) \in Int

NoValues == [k \in {} |-> ""]

\* values_[key] = value
SetValue(values, key, value) ==
    [k \in DOMAIN values \cup {key} |-> IF k = key THEN value ELSE values[k]]

-----------------------------------------------------------------------------
LoadFromArgs(args) ==
    LET values[n \in 0..Len(args)] ==
            IF n = 0 THEN NoValues
            ELSE CASE args[n][1] = "--mine" -> SetValue(values[n - 1], <<"mine">>, "1")
                   [] args[n][1] = "--datadir" ->
                        SetValue(values[n - 1], <<"datadir">>, args[n][2])
                   [] OTHER -> SetValue(values[n - 1], <<args[n][2]>>, args[n][3])
    IN  values[Len(args)]

Key(section, key) == IF section = "" THEN <<key>> ELSE <<section, key>>

\* A section lasts until the next one.  The file overrides the arguments.
Load(lines, given) ==
    LET section[n \in 0..Len(lines)] ==
            IF n = 0 THEN ""
            ELSE IF lines[n][1] = "[" THEN lines[n][2] ELSE section[n - 1]
        values[n \in 0..Len(lines)] ==
            IF n = 0 THEN given
            ELSE IF lines[n][1] = "[" THEN values[n - 1]
            ELSE SetValue(values[n - 1], Key(section[n], lines[n][1]), lines[n][2])
    IN  values[Len(lines)]

-----------------------------------------------------------------------------
Get(values, key, default) == IF <<key>> \in DOMAIN values THEN values[<<key>>] ELSE default

\* What is not a number makes std::stoi throw.
Throws(values, key) == Get(values, key, "") \notin Number \cup {""}

GetInt(values, key, default) ==
    LET v == Get(values, key, "")
    IN  IF v = "" THEN default ELSE ToInt(v)

\* home is $HOME/.shawncoin, or .shawncoin when there is no HOME.
GetDataDir(values, home) ==
    LET d == Get(values, "datadir", "")
    IN  IF d = "" THEN home ELSE d

=============================================================================
