------------------------------ MODULE ConfFile ------------------------------
(***************************************************************************)
(* What a configuration file means: it is a sequence of lines; a section   *)
(* header begins a new entry of the table whose name it contains, a line   *)
(* "key = value" gives a key of that entry its value, and everything else  *)
(* is skipped.  What is part of a value is as the comments of              *)
(* src/src/utility/conf/conf_ini.h put it: not a comment, unless that is   *)
(* between quotation marks or escaped.  Those comments do not confine      *)
(* quotes and escapes to values; the code does, and so does this module:   *)
(* in headers and keys every mark counts (conf_ini.c:60-94).               *)
(***************************************************************************)
EXTENDS Naturals, Sequences, FiniteSetsExt

CONSTANTS
    Lines,   \* the lines of a file, as sequences of characters
    Tables   \* the sections: a name, and the names of the keys

VARIABLES
    line, due,   \* the last line that was read; it was not yet taken
    content,     \* for each table its entries: the values of the keys
    current      \* the table whose latest entry gets the next values, or 0

vars == <<line, due, content, current>>

Blanks == {" ", "\n"}
Quotes == {"'", "\""}
Unset  == <<"NUL">>

\* Where a character of C first occurs in s, or the place after its end
First(s, C) == Min({i \in 1 .. Len(s) : s[i] \in C} \cup {Len(s) + 1})

\* s without blanks at its ends
Stripped(s) ==
    LET solid == {i \in 1 .. Len(s) : s[i] \notin Blanks} IN
    IF solid = {} THEN <<>> ELSE SubSeq(s, Min(solid), Max(solid))

\* What a character means that is neither quoted nor escaped nor in a comment: a mark
\* opens a string that another one closes
Plainly(v, i) ==
    CASE v[i] = "\\" -> "escape"
      [] v[i] = ";"  -> "comment"
      [] v[i] \in Quotes -> IF \E j \in i + 1 .. Len(v) : v[j] = v[i] THEN v[i] ELSE "plain"
      [] OTHER -> "plain"

\* What it means after others
Mode(v, before, i) ==
    CASE before = "plain"   -> Plainly(v, i)
      [] before = "escape"  -> "plain"
      [] before = "comment" -> "comment"
      [] before \in Quotes  -> IF v[i] = before THEN "plain" ELSE before

\* What the characters of a value mean, one after the other
Modes(v) ==
    LET mode[i \in 0 .. Len(v)] == IF i = 0 THEN "plain" ELSE Mode(v, mode[i - 1], i)
    IN mode

Uncommented(v) ==
    SubSeq(v, 1, Min({i \in 1 .. Len(v) : Modes(v)[i] = "comment"} \cup {Len(v) + 1}) - 1)

IsHeader(s) ==
    /\ s # <<>> /\ s[1] = "["
    /\ First(s, {"]"}) <= Len(s) /\ First(s, {"]"}) < First(s, {";"})
IsSetting(s) ==
    /\ ~IsHeader(s)
    /\ First(s, {"="}) \in 2 .. Len(s) /\ First(s, {"="}) < First(s, {";"})

Name(s)  == Stripped(SubSeq(s, 2, First(s, {"]"}) - 1))
Key(s)   == Stripped(SubSeq(s, 1, First(s, {"="}) - 1))
Value(s) == Stripped(Uncommented(SubSeq(s, First(s, {"="}) + 1, Len(s))))

Within(n, s) == \E i \in 1 .. Len(s) : SubSeq(s, i, i + Len(n) - 1) = n

\* The first table whose name the header contains, or 0
Table(n) ==
    LET fit == {t \in 1 .. Len(Tables) : Within(Tables[t].name, n)} IN
    IF fit = {} THEN 0 ELSE Min(fit)

Init == line = <<>> /\ due = FALSE /\ current = 0
        /\ content = [t \in 1 .. Len(Tables) |-> <<>>]

Read == /\ \E l \in Lines : line' = l
        /\ due' = TRUE /\ UNCHANGED <<content, current>>

TakeHeader ==
    LET s == Stripped(line) IN
    /\ IsHeader(s) /\ Name(s) # <<>>
    /\ current' = Table(Name(s))
    /\ content' = [t \in DOMAIN content |->
           IF t = current' THEN Append(content[t], [k \in Tables[t].keys |-> Unset])
                           ELSE content[t]]

TakeSetting ==
    LET s == Stripped(line) IN
    /\ IsSetting(s) /\ current # 0 /\ Key(s) \in Tables[current].keys
    /\ content' = [content EXCEPT ![current][Len(content[current])][Key(s)] = Value(s)]
    /\ UNCHANGED current

Skip ==
    LET s == Stripped(line) IN
    /\ ~(IsHeader(s) /\ Name(s) # <<>>)
    /\ ~(IsSetting(s) /\ current # 0 /\ Key(s) \in Tables[current].keys)
    /\ UNCHANGED <<content, current>>

Take == due /\ (TakeHeader \/ TakeSetting \/ Skip) /\ due' = FALSE /\ line' = <<>>

\* A load begins or ends, at the end of the file or without success
Stop == current' = 0 /\ due' = FALSE /\ line' = <<>> /\ UNCHANGED content

Clean == /\ \E t \in DOMAIN content : content' = [content EXCEPT ![t] = <<>>]
         /\ UNCHANGED <<line, due, current>>

Spec == Init /\ [][Read \/ Take \/ Stop \/ Clean]_vars
=============================================================================
