------------------------------ MODULE ConfIni ------------------------------
(***************************************************************************)
(* Configuration files: src/src/utility/conf/conf_ini.c.  A load reads a   *)
(* file line by line into a buffer, works on the characters in place, and  *)
(* keeps what it finds in blocks of memory: one for each entry of a table, *)
(* which is in the table's list, and one for each value.                   *)
(*                                                                         *)
(* The buffer is modelled with what is left behind the end of a string,    *)
(* because the scan of a value may run there.  A position is an index into *)
(* the buffer, and 0 is NULL.  Any file is one of Lines after another.     *)
(***************************************************************************)
EXTENDS Naturals, Sequences, FiniteSets, FiniteSetsExt

CONSTANTS
    Lines,      \* the lines of a file, as sequences of characters
    Tables,     \* tbls: sections with a name, and the names of the keys
    BufSize,    \* sizeof(buf): the characters of the buffer, 4096
    MaxLines,   \* bound: lines that are read
    MaxBlocks,  \* bound: blocks of memory
    Failing     \* calls to malloc that may fail: "section", "keyval"

ASSUME ConfAssumption ==
    /\ BufSize \in Nat /\ MaxLines \in Nat /\ MaxBlocks \in Nat
    /\ Lines \subseteq Seq(STRING)
    /\ Tables \in Seq([name : Seq(STRING), keys : SUBSET Seq(STRING)])

\* A line is a string: there is no zero in it
ASSUME TextAssumption == \A l \in Lines : \A i \in 1 .. Len(l) : l[i] # "NUL"

Blocks   == 1 .. MaxBlocks
TableIds == 1 .. Len(Tables)
None == 0
NUL  == "NUL"
Room == 3       \* zeros of the buffer behind a line that the model keeps

VARIABLES
    pc, lines,          \* where conf_ini_load is; how many lines were read
    line, buf,          \* the line, and the buffer it was read into
    tbl, addr,          \* the table and the entry that get the next keys
    heap,               \* the blocks that are allocated
    keys, text,         \* what a block holds: an entry's keys, or a value
    list,               \* the entries of each table
    crashed             \* memory was used that is not the program's

memory == <<heap, keys, text, list>>
vars   == <<pc, lines, line, buf, tbl, addr, memory, crashed>>

Init ==
    /\ pc = "out" /\ lines = 0 /\ line = <<>> /\ buf = <<>> /\ tbl = None /\ addr = None
    /\ heap = {} /\ keys = [b \in Blocks |-> <<>>] /\ text = [b \in Blocks |-> <<>>]
    /\ list = [t \in TableIds |-> <<>>] /\ crashed = FALSE

-----------------------------------------------------------------------------
(* Strings in the buffer *)

\* The end of the string at o; the string
End(b, o) == Min({i \in o .. Len(b) : b[i] = NUL})
Str(b, o) == SubSeq(b, o, End(b, o) - 1)

strchr(b, o, c) ==
    LET at == {i \in o .. End(b, o) - 1 : b[i] = c} IN IF at = {} THEN None ELSE Min(at)

strstr(s, n) == \E i \in 1 .. Len(s) : SubSeq(s, i, i + Len(n) - 1) = n

Visible(c) == c \notin {" ", "\n"}

\* The string at o moves to the front of its blanks; of those at its end only the first
\* is overwritten.  Both leave characters behind the new end.
str_trim(b, o) ==
    LET end   == End(b, o)
        head  == Min({i \in o .. end - 1 : Visible(b[i])} \cup {end}) - o
        moved == [i \in 1 .. Len(b) |-> IF i \in o .. end - head THEN b[i + head] ELSE b[i]]
        tail  == Max({i \in o .. end - head - 1 : Visible(moved[i])} \cup {o - 1})
    IN [moved EXCEPT ![tail + 1] = NUL]

\* For ImplementsConfFile: a mark of any kind closes a string
PairOfAnyKind(b, i) ==
    LET at == {j \in i + 1 .. End(b, i + 1) - 1 : b[j] \in {"'", "\""}} IN
    IF b[i] \notin {"'", "\""} \/ at = {} THEN None ELSE Min(at)

\* The mark that closes the string that begins at i, or None
Pair(b, i) == IF b[i] \in {"'", "\""} THEN strchr(b, i + 1, b[i]) ELSE None

\* For ScanStays: the character behind an escape character is skipped twice
EscapeTwice(b, o) ==
    LET from[i \in o .. Len(b)] ==
        CASE b[i] = NUL  -> [stop |-> i, cut |-> None]
          [] b[i] = ";"  -> [stop |-> i, cut |-> i]
          [] b[i] = "\\" -> from[i + 3]
          [] OTHER -> IF Pair(b, i) # None THEN from[Pair(b, i) + 1] ELSE from[i + 1]
    IN from[o]

\* ini_value_analyze, from o on: where it stops, and where it puts an end.  An escape
\* character takes the next one with it, also when that is the end of the string.
ini_value_analyze(b, o) ==
    LET from[i \in o .. Len(b)] ==
        CASE b[i] = NUL  -> [stop |-> i, cut |-> None]
          [] b[i] = ";"  -> [stop |-> i, cut |-> i]
          [] b[i] = "\\" -> from[i + 2]
          [] OTHER -> IF Pair(b, i) # None THEN from[Pair(b, i) + 1] ELSE from[i + 1]
    IN from[o]

-----------------------------------------------------------------------------
(* Lines *)

Before(i, j) == i # None /\ (j = None \/ i < j)

ini_line_is_keyval(b) ==
    strchr(b, 1, "=") \notin {None, 1} /\ ~Before(strchr(b, 1, ";"), strchr(b, 1, "="))

\* The line begins with a section's name in marks; the name, which may be empty
ini_line_is_section(b) ==
    /\ b[1] = "[" /\ strchr(b, 1, "]") # None
    /\ ~Before(strchr(b, 1, ";"), strchr(b, 1, "]"))
SectionName(b) == Str(str_trim([b EXCEPT ![strchr(b, 1, "]")] = NUL], 2), 2)

\* What line_read makes of the line in the buffer
ini_line_read ==
    LET b == str_trim(buf, 1) IN
    CASE ini_line_is_section(b) -> IF SectionName(b) = <<>> THEN "empty" ELSE "section"
      [] ~ini_line_is_section(b) /\ ini_line_is_keyval(b) -> "keyval"
      [] OTHER -> "empty"

\* The table of a section: the first whose name is part of the section's
TableOf(name) ==
    LET fit == {t \in TableIds : strstr(name, Tables[t].name)} IN
    IF fit = {} THEN None ELSE Min(fit)

-----------------------------------------------------------------------------
(* conf_ini_load *)

Load ==
    /\ pc = "out" /\ ~crashed
    /\ pc' = "read"
    /\ UNCHANGED <<lines, line, buf, tbl, addr, memory, crashed>>

\* With its newline and the zero that ends it the line is in the buffer
Fits(l) == Len(l) + 2 <= BufSize

\* memset and a line with its newline
Read ==
    /\ pc = "read" /\ ~crashed /\ lines < MaxLines /\ Cardinality(heap) < MaxBlocks
    /\ lines' = lines + 1
    /\ \E l \in Lines :
           Fits(l) /\ line' = l /\ buf' = Append(l, "\n") \o [i \in 1 .. Room |-> NUL]
    /\ pc' = "take"
    /\ UNCHANGED <<tbl, addr, memory, crashed>>

\* Nothing stops the reading at the end of the buffer: the line is written over what is
\* behind it, or has no zero.  Anything may happen, and the model stops.
Overrun ==
    /\ pc = "read" /\ ~crashed /\ lines < MaxLines
    /\ \E l \in Lines : ~Fits(l)
    /\ crashed' = TRUE
    /\ UNCHANGED <<pc, lines, line, buf, tbl, addr, memory>>

Leave == pc' = "out" /\ tbl' = None /\ addr' = None

\* The end of the file, or an error of read
ReadEnds ==
    /\ pc = "read" /\ ~crashed /\ Leave
    /\ UNCHANGED <<lines, line, buf, memory, crashed>>

\* The line in the buffer is of kind k and was taken
Taken(k) ==
    /\ pc = "take" /\ ini_line_read = k
    /\ line' = <<>> /\ buf' = <<>>
    /\ UNCHANGED <<lines, crashed>>

Fresh == Min(Blocks \ heap)    \* what malloc returns

\* For TypeOK: the address of the new entry does not reach the caller
AddSectionUnseen ==
    LET t == TableOf(SectionName(str_trim(buf, 1))) IN
    /\ Taken("section") /\ t # None
    /\ heap' = heap \cup {Fresh}
    /\ keys' = [keys EXCEPT ![Fresh] = [k \in Tables[t].keys |-> None]]
    /\ list' = [list EXCEPT ![t] = Append(@, Fresh)]
    /\ tbl' = t /\ pc' = "read"
    /\ UNCHANGED <<text, addr>>

\* A section of a table: ini_add_section
AddSection ==
    LET t == TableOf(SectionName(str_trim(buf, 1))) IN
    /\ Taken("section") /\ t # None
    /\ heap' = heap \cup {Fresh}
    /\ keys' = [keys EXCEPT ![Fresh] = [k \in Tables[t].keys |-> None]]
    /\ list' = [list EXCEPT ![t] = Append(@, Fresh)]
    /\ tbl' = t /\ addr' = Fresh /\ pc' = "read"
    /\ UNCHANGED text

AddSectionFails ==
    /\ Taken("section") /\ TableOf(SectionName(str_trim(buf, 1))) # None
    /\ "section" \in Failing
    /\ Leave /\ UNCHANGED memory

\* The keys of a section without a table are skipped
UnknownSection ==
    /\ Taken("section") /\ TableOf(SectionName(str_trim(buf, 1))) = None
    /\ tbl' = None /\ pc' = "read"
    /\ UNCHANGED <<addr, memory>>

\* ini_add_keyval: the buffer when the key and the value are cut out of it
Assign == strchr(str_trim(buf, 1), 1, "=")
CutOut ==
    LET b    == [str_trim(buf, 1) EXCEPT ![Assign] = NUL]
        scan == ini_value_analyze(b, Assign + 1)
        v    == IF scan.cut = None THEN b ELSE [b EXCEPT ![scan.cut] = NUL]
    IN str_trim(str_trim(v, Assign + 1), 1)

Known == tbl # None /\ Str(CutOut, 1) \in Tables[tbl].keys

AddKeyval ==
    /\ Taken("keyval") /\ Known
    /\ heap' = heap \cup {Fresh}
    /\ text' = [text EXCEPT ![Fresh] = Str(CutOut, Assign + 1)]
    /\ keys' = [keys EXCEPT ![addr][Str(CutOut, 1)] = Fresh]
    /\ pc' = "read"
    /\ UNCHANGED <<list, tbl, addr>>

AddKeyvalFails ==
    /\ Taken("keyval") /\ Known /\ "keyval" \in Failing
    /\ Leave /\ UNCHANGED memory

Skip ==
    /\ Taken("empty") \/ (Taken("keyval") /\ ~Known)
    /\ pc' = "read"
    /\ UNCHANGED <<tbl, addr, memory>>

-----------------------------------------------------------------------------
(* conf_ini_get_size, conf_ini_get_entry, conf_ini_clean *)

conf_ini_get_size(t) == Len(list[t])
conf_ini_get_entry(t, idx) == list[t][idx + 1]

Entries(t) == {conf_ini_get_entry(t, i) : i \in 0 .. conf_ini_get_size(t) - 1}
Values(b)  == {keys[b][k] : k \in DOMAIN keys[b]} \ {None}

\* For HeldOnce: the entries are not unlinked
CleanUnlinked(t) ==
    LET gone == Entries(t) \cup UNION {Values(b) : b \in Entries(t)} IN
    /\ pc = "out" /\ ~crashed
    /\ heap' = heap \ gone
    /\ UNCHANGED <<pc, lines, line, buf, tbl, addr, keys, text, list, crashed>>

\* For LosesOnlyReplaced: only the entries are freed
CleanShallow(t) ==
    /\ pc = "out" /\ ~crashed
    /\ heap' = heap \ Entries(t)
    /\ keys' = [b \in Blocks |-> IF b \in Entries(t) THEN <<>> ELSE keys[b]]
    /\ list' = [list EXCEPT ![t] = <<>>]
    /\ UNCHANGED <<pc, lines, line, buf, tbl, addr, text, crashed>>

\* Every entry of a table goes, with its values.  The next entry is read from
\* the one that was just freed: if it is still there all is well.
Clean(t) ==
    LET gone == Entries(t) \cup UNION {Values(b) : b \in Entries(t)} IN
    /\ pc = "out" /\ ~crashed
    /\ heap' = heap \ gone
    /\ keys' = [b \in Blocks |-> IF b \in gone THEN <<>> ELSE keys[b]]
    /\ text' = [b \in Blocks |-> IF b \in gone THEN <<>> ELSE text[b]]
    /\ list' = [list EXCEPT ![t] = <<>>]
    /\ UNCHANGED <<pc, lines, line, buf, tbl, addr, crashed>>

\* Otherwise anything may happen as well, and the model stops
CleanAstray(t) ==
    /\ pc = "out" /\ ~crashed /\ list[t] # <<>>
    /\ crashed' = TRUE
    /\ UNCHANGED <<pc, lines, line, buf, tbl, addr, memory>>

Next ==
    \/ Load \/ Read \/ Overrun \/ ReadEnds
    \/ AddSection \/ AddSectionFails \/ UnknownSection
    \/ AddKeyval \/ AddKeyvalFails \/ Skip
    \/ \E t \in TableIds : Clean(t) \/ CleanAstray(t)

Spec == Init /\ [][Next]_vars

-----------------------------------------------------------------------------
(* Properties *)

Entry(b) == \E t \in TableIds : b \in Entries(t)
Held(b)  == Entry(b) \/ \E e \in Blocks : Entry(e) /\ b \in Values(e)

TypeOK ==
    /\ pc \in {"out", "read", "take"} /\ lines \in 0 .. MaxLines
    /\ tbl \in TableIds \cup {None} /\ addr \in Blocks \cup {None}
    /\ tbl # None => addr \in Entries(tbl) /\ DOMAIN keys[addr] = Tables[tbl].keys
    /\ heap \subseteq Blocks /\ crashed \in BOOLEAN
    /\ \A b \in Blocks : text[b] # <<>> => b \in heap

\* Nothing that was freed can be reached, and nothing twice, so that conf_ini_clean
\* frees each block once, in any order of loads, failed loads and cleans
\* (conf_ini.c:155-167, 199-207, 265-279).
HeldOnce ==
    /\ \A b \in Blocks : Held(b) => b \in heap
    /\ \A t, u \in TableIds : \A i \in 1 .. Len(list[t]), j \in 1 .. Len(list[u]) :
           list[t][i] = list[u][j] => t = u /\ i = j
    /\ \A d, e \in Blocks : Entry(d) /\ Entry(e) =>
           /\ d # e => Values(d) \cap Values(e) = {}
           /\ Values(d) \cap UNION {Entries(t) : t \in TableIds} = {}
           /\ \A k, m \in DOMAIN keys[d] : keys[d][k] = keys[d][m] => k = m \/ keys[d][k] = None

\* The scan of a value stops at the latest at the zero behind the line's newline, so
\* that a line that Fits the buffer with both is safe, although an escape character at
\* the end of a value takes the end of the string with it (conf_ini.c:41) and trimming
\* leaves characters behind that end.
ScanStays ==
    pc = "take" /\ ini_line_read = "keyval" =>
        ini_value_analyze([str_trim(buf, 1) EXCEPT ![Assign] = NUL], Assign + 1).stop
            <= Len(line) + 2

\* A block is lost for ever only when its key gets another value (conf_ini.c:207);
\* neither a load that fails half-way nor a clean loses one.
LosesOnlyReplaced ==
    [][\A b \in heap' : Held(b) /\ ~Held(b)' =>
           \E e \in Blocks : Entry(e)' /\ \E k \in DOMAIN keys[e] :
               keys[e][k] = b /\ keys'[e][k] \notin {b, None}]_vars

Contents ==
    [t \in TableIds |-> [i \in 1 .. Len(list[t]) |->
        [k \in Tables[t].keys |->
            LET v == keys[list[t][i]][k] IN IF v = None THEN <<NUL>> ELSE text[v]]]]

Conf == INSTANCE ConfFile WITH due <- pc = "take", content <- Contents, current <- tbl

\* The part of a line that is longer than the buffer is ignored: "每行不能超过4096字节，
\* 超出部分会被忽略" (conf_ini.h:58).  conf_ini.c:102-115 writes it behind the buffer.
ExcessIgnored == [][pc = "read" => ~crashed']_vars

\* Whatever characters lines are made of, a load that stays in its memory stores what
\* the file means: of each setting the value by the rules of conf_ini.h (which comments
\* count, marks in quotes, escapes), the last of several values; a load that fails keeps
\* what it has stored.  Quotes and escapes count in values only: which lines are headers
\* and settings, and what their names are, is as in the code (conf_ini.c:60-94).
ImplementsConfFile == Conf!Spec
=============================================================================
