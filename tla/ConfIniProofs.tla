--------------------------- MODULE ConfIniProofs ---------------------------
(***************************************************************************)
(* Proofs about the memory of ConfIni, for any tables, lines and number of *)
(* blocks: what the lists and the keys of their entries hold is allocated  *)
(* and held once (Inv).  HeldOnce alone is not inductive: it leaves open   *)
(* that a load has room for a line, and which entry gets a key.            *)
(***************************************************************************)
EXTENDS ConfIni, FiniteSetTheorems, WellFoundedInduction, TLAPS

\* A set of numbers that has members has a least
LEMMA Least ==
    ASSUME NEW S \in SUBSET Nat, S # {}
    PROVE  Min(S) \in S /\ \A x \in S : Min(S) <= x
  <1> DEFINE R == {p \in Nat \X Nat : p[1] < p[2]}
  <1>1. IsWellFoundedOn(R, Nat)
    BY NatLessThanWellFounded, Zenon DEF OpToRel
  <1> HIDE DEF R
  <1>2. \E x \in S : \A y \in S : <<y, x>> \notin R
    BY <1>1, WFMin
  <1>3. \A x, y \in Nat : y < x => <<y, x>> \in R
    <2> TAKE x, y \in Nat
    <2> DEFINE p == <<y, x>>
    <2>1. p \in Nat \X Nat /\ p[1] = y /\ p[2] = x
      OBVIOUS
    <2> HIDE DEF p
    <2>2. y < x => p \in R
      BY <2>1 DEF R
    <2> QED BY <2>2 DEF p
  <1>4. \E x \in S : \A y \in S : ~(y < x)
    BY <1>2, <1>3, Zenon
  <1>5. \E x \in S : \A y \in S : x <= y
    BY <1>4
  <1> QED BY <1>5 DEF Min

\* ... and a bounded one a greatest
LEMMA Greatest ==
    ASSUME NEW S \in SUBSET Nat, S # {}, NEW n \in Nat, \A x \in S : x <= n
    PROVE  Max(S) \in S /\ \A x \in S : x <= Max(S)
  <1> DEFINE R == {n - x : x \in S}
  <1>1. R \in SUBSET Nat /\ R # {}
    <2>1. \A x \in S : n - x \in Nat
      OBVIOUS
    <2> QED BY <2>1
  <1>2. PICK y \in S : n - y = Min(R)
    BY <1>1, Least
  <1>3. \A x \in S : Min(R) <= n - x
    BY <1>1, Least
  <1>4. \A x \in S : x <= y
    BY <1>2, <1>3
  <1> QED BY <1>4 DEF Max

-----------------------------------------------------------------------------
(* Blocks of memory *)

\* While a line is due there is memory for it, and outside of a load no table gets keys
Loading ==
    /\ pc = "take" => heap # Blocks
    /\ pc = "out" => tbl = None

\* Lists hold blocks, entries hold blocks or nothing
Stored ==
    /\ DOMAIN list = TableIds /\ \A t \in TableIds : list[t] \in Seq(Blocks)
    /\ DOMAIN keys = Blocks /\ DOMAIN text = Blocks
    /\ \A b \in Blocks : \A k \in DOMAIN keys[b] : keys[b][k] \in Blocks \cup {None}

\* HeldOnce, one block at a time: an entry is allocated and in one place of one list,
\* a value is allocated, no entry, and of one key of one entry
Apart ==
    /\ \A t, u \in TableIds : \A i \in 1 .. Len(list[t]), j \in 1 .. Len(list[u]) :
           list[t][i] = list[u][j] => t = u /\ i = j
    /\ \A d \in Blocks : Entry(d) => d \in heap
    /\ \A d \in Blocks : Entry(d) => \A k \in DOMAIN keys[d] : keys[d][k] # None =>
           keys[d][k] \in heap /\ ~Entry(keys[d][k])
    /\ \A d, e \in Blocks : Entry(d) /\ Entry(e) =>
           \A k \in DOMAIN keys[d], m \in DOMAIN keys[e] :
               keys[d][k] = keys[e][m] /\ keys[d][k] # None => d = e /\ k = m

Inv == TypeOK /\ Loading /\ Stored /\ Apart

\* Tables, blocks and bounds are numbers, and None is none of them
LEMMA Numbers ==
    /\ MaxLines \in Nat /\ MaxBlocks \in Nat /\ Len(Tables) \in Nat
    /\ None = 0 /\ None \notin Blocks /\ None \notin TableIds
    /\ Blocks \subseteq Nat /\ TableIds \subseteq Nat
BY ConfAssumption DEF None, Blocks, TableIds

\* Counting from zero, as conf_ini_get_entry does, reaches every place of a list
LEMMA FromZero ==
    ASSUME NEW s, Len(s) \in Nat
    PROVE  {s[i + 1] : i \in 0 .. Len(s) - 1} = {s[i] : i \in 1 .. Len(s)}
  <1>1. \A i \in 0 .. Len(s) - 1 : i + 1 \in 1 .. Len(s)
    OBVIOUS
  <1>2. \A i \in 1 .. Len(s) : i - 1 \in 0 .. Len(s) - 1 /\ (i - 1) + 1 = i
    OBVIOUS
  <1> QED BY <1>1, <1>2

\* The entries of a table are the members of its list
LEMMA EntriesListed ==
    ASSUME Stored, NEW t \in TableIds
    PROVE  Entries(t) = {list[t][i] : i \in 1 .. Len(list[t])}
  <1>1. Len(list[t]) \in Nat
    BY DEF Stored
  <1> QED BY <1>1, FromZero DEF Entries, conf_ini_get_entry, conf_ini_get_size

\* malloc returns a block that is free
LEMMA FreshFree ==
    ASSUME heap \subseteq Blocks, heap # Blocks
    PROVE  Fresh \in Blocks /\ Fresh \notin heap
  <1>1. Blocks \ heap \in SUBSET Nat /\ Blocks \ heap # {}
    BY Numbers
  <1> QED BY <1>1, Least DEF Fresh

\* A section has one of the tables, or none
LEMMA TableFound == \A name : TableOf(name) \in TableIds \cup {None}
  <1> TAKE name
  <1> DEFINE fit == {t \in TableIds : strstr(name, Tables[t].name)}
  <1>1. fit \in SUBSET Nat
    BY Numbers
  <1>2. fit # {} => Min(fit) \in fit
    BY <1>1, Least
  <1> QED BY <1>2 DEF TableOf

\* A heap with fewer blocks than there are is not all of them
LEMMA RoomLeft ==
    ASSUME heap \subseteq Blocks, Cardinality(heap) < MaxBlocks
    PROVE  heap # Blocks
  <1>1. Cardinality(Blocks) = MaxBlocks
    BY Numbers, FS_Interval DEF Blocks
  <1> QED BY <1>1, Numbers

-----------------------------------------------------------------------------
(* Steps *)

\* A step that leaves memory and the current entry alone, or forgets that entry
LEMMA OtherSteps ==
    ASSUME Inv, UNCHANGED memory,
           pc' \in {"out", "read", "take"}, lines' \in 0 .. MaxLines, crashed' \in BOOLEAN,
           addr' = addr \/ addr' = None,
           (tbl' = tbl /\ addr' = addr) \/ tbl' = None,
           pc' = "take" => heap # Blocks, pc' = "out" => tbl' = None
    PROVE  Inv'
  <1>1. heap' = heap /\ keys' = keys /\ text' = text /\ list' = list
    BY DEF memory
  <1>2. Stored' /\ Loading'
    BY <1>1 DEF Inv, Stored, Loading
  <1>3. \A t \in TableIds : Entries(t)' = Entries(t)
    BY <1>1 DEF Entries, conf_ini_get_entry, conf_ini_get_size
  <1>4. \A b : Entry(b)' <=> Entry(b)
    BY <1>3 DEF Entry
  <1>5. Apart'
    BY <1>1, <1>4 DEF Inv, Apart
  <1>6. TypeOK'
    BY <1>1, <1>3 DEF Inv, TypeOK
  <1> QED BY <1>2, <1>5, <1>6 DEF Inv

\* A new entry is free memory, which nothing held
LEMMA AddSectionKeeps == ASSUME Inv, AddSection PROVE Inv'
  <1> DEFINE t == TableOf(SectionName(str_trim(buf, 1)))
  <1> DEFINE f == Fresh
  <1>1. /\ pc = "take" /\ t # None /\ heap' = heap \cup {f}
        /\ keys' = [keys EXCEPT ![f] = [k \in Tables[t].keys |-> None]]
        /\ list' = [list EXCEPT ![t] = Append(list[t], f)] /\ text' = text
        /\ tbl' = t /\ addr' = f /\ pc' = "read" /\ lines' = lines /\ crashed' = crashed
    BY DEF AddSection, Taken
  <1>2. t \in TableIds
    BY <1>1, TableFound
  <1>3. f \in Blocks /\ f \notin heap
    BY <1>1, FreshFree DEF Inv, TypeOK, Loading
  <1> SUFFICES ASSUME NEW u, u = t, NEW c, c = f PROVE Inv'
    OBVIOUS
  <1> HIDE DEF t, f
  <1>4. /\ DOMAIN list' = TableIds /\ DOMAIN keys' = Blocks /\ DOMAIN text' = Blocks
        /\ \A v \in TableIds : v # u => list'[v] = list[v]
        /\ list'[u] = Append(list[u], c) /\ list[u] \in Seq(Blocks)
        /\ \A b \in Blocks : b # c => keys'[b] = keys[b]
        /\ DOMAIN keys'[c] = Tables[u].keys /\ \A k \in DOMAIN keys'[c] : keys'[c][k] = None
    BY <1>1, <1>2, <1>3 DEF Inv, Stored
  <1>5. /\ list'[u] \in Seq(Blocks) /\ Len(list'[u]) = Len(list[u]) + 1
        /\ Len(list[u]) \in Nat /\ list'[u][Len(list[u]) + 1] = c
        /\ \A i \in 1 .. Len(list[u]) : list'[u][i] = list[u][i]
        /\ \A i \in 1 .. Len(list'[u]) : i \in 1 .. Len(list[u]) \/ i = Len(list[u]) + 1
    BY <1>3, <1>4
  <1>6. Stored'
    BY <1>2, <1>4, <1>5 DEF Inv, Stored
  <1>7. /\ Entries(u)' = Entries(u) \cup {c}
        /\ \A v \in TableIds : v # u => Entries(v)' = Entries(v)
    <2>1. Entries(u)' = {list'[u][i] : i \in 1 .. Len(list'[u])}
      <3>1. Len(list'[u]) \in Nat
        BY <1>5
      <3>2. {list'[u][i + 1] : i \in 0 .. Len(list'[u]) - 1}
                = {list'[u][i] : i \in 1 .. Len(list'[u])}
        BY <3>1, FromZero
      <3> QED BY <3>2 DEF Entries, conf_ini_get_entry, conf_ini_get_size
    <2>2. Entries(u) = {list[u][i] : i \in 1 .. Len(list[u])}
      BY <1>2, EntriesListed DEF Inv
    <2>3. Entries(u)' = Entries(u) \cup {c}
      BY <2>1, <2>2, <1>5
    <2>4. \A v \in TableIds : v # u => Entries(v)' = Entries(v)
      BY <1>4 DEF Entries, conf_ini_get_entry, conf_ini_get_size
    <2> QED BY <2>3, <2>4
  <1>8. \A b : Entry(b)' <=> Entry(b) \/ b = c
    BY <1>2, <1>7 DEF Entry
  <1>9. ~Entry(c)
    BY <1>3 DEF Inv, Apart
  <1>10. Apart'
    <2>1. \A v, w \in TableIds : \A i \in 1 .. Len(list'[v]), j \in 1 .. Len(list'[w]) :
              list'[v][i] = list'[w][j] => v = w /\ i = j
      <3>1. \A v \in TableIds : \A i \in 1 .. Len(list[v]) : list[v][i] # c
        BY <1>9, EntriesListed DEF Entry, Inv
      <3>2. \A v \in TableIds : \A i \in 1 .. Len(list'[v]) :
                \/ i \in 1 .. Len(list[v]) /\ list'[v][i] = list[v][i]
                \/ v = u /\ i = Len(list[u]) + 1 /\ list'[v][i] = c
        BY <1>4, <1>5
      <3> QED BY <3>1, <3>2 DEF Inv, Apart
    <2>2. \A d \in Blocks : Entry(d)' => d \in heap'
      BY <1>1, <1>8 DEF Inv, Apart
    <2>3. \A d \in Blocks : Entry(d)' => \A k \in DOMAIN keys'[d] : keys'[d][k] # None =>
              keys'[d][k] \in heap' /\ ~Entry(keys[d][k])'
      BY <1>1, <1>3, <1>4, <1>8 DEF Inv, Apart
    <2>4. \A d, e \in Blocks : Entry(d)' /\ Entry(e)' =>
              \A k \in DOMAIN keys'[d], m \in DOMAIN keys'[e] :
                  keys'[d][k] = keys'[e][m] /\ keys'[d][k] # None => d = e /\ k = m
      BY <1>4, <1>8 DEF Inv, Apart
    <2> QED BY <2>1, <2>2, <2>3, <2>4 DEF Apart
  <1>11. TypeOK'
    BY <1>1, <1>2, <1>3, <1>4, <1>7 DEF Inv, TypeOK
  <1>12. Loading'
    BY <1>1 DEF Loading
  <1> QED BY <1>6, <1>10, <1>11, <1>12 DEF Inv

\* A value goes to a key of the current entry
LEMMA AddKeyvalKeeps == ASSUME Inv, AddKeyval PROVE Inv'
  <1> SUFFICES ASSUME NEW c, c = Fresh, NEW a, a = addr, NEW q, q = Str(CutOut, 1)
               PROVE  Inv'
    OBVIOUS
  <1>1. /\ pc = "take" /\ tbl # None /\ q \in Tables[tbl].keys
        /\ heap' = heap \cup {c} /\ list' = list /\ tbl' = tbl /\ addr' = addr
        /\ \E v : text' = [text EXCEPT ![c] = v]
        /\ keys' = [keys EXCEPT ![a] = [keys[a] EXCEPT ![q] = c]]
        /\ pc' = "read" /\ lines' = lines /\ crashed' = crashed
    BY DEF AddKeyval, Taken, Known
  <1>2. /\ tbl \in TableIds /\ a \in Entries(tbl) /\ DOMAIN keys[a] = Tables[tbl].keys
        /\ Entry(a) /\ a \in Blocks
    <2>1. tbl \in TableIds /\ a \in Entries(tbl) /\ DOMAIN keys[a] = Tables[tbl].keys
      BY <1>1 DEF Inv, TypeOK
    <2>2. a \in Blocks
      BY <2>1, EntriesListed DEF Inv, Stored
    <2> QED BY <2>1, <2>2 DEF Entry
  <1>3. c \in Blocks /\ c \notin heap /\ c # None
    BY <1>1, FreshFree, Numbers DEF Inv, TypeOK, Loading
  <1>4. /\ DOMAIN keys' = Blocks /\ DOMAIN text' = Blocks
        /\ \A b \in Blocks : b # a => keys'[b] = keys[b]
        /\ DOMAIN keys'[a] = DOMAIN keys[a] /\ q \in DOMAIN keys[a] /\ keys'[a][q] = c
        /\ \A k \in DOMAIN keys[a] : k # q => keys'[a][k] = keys[a][k]
        /\ \A b \in Blocks : b # c => text'[b] = text[b]
    BY <1>1, <1>2, <1>3 DEF Inv, Stored
  <1>5. Stored'
    BY <1>1, <1>3, <1>4 DEF Inv, Stored
  <1>6. \A t \in TableIds : Entries(t)' = Entries(t)
    BY <1>1 DEF Entries, conf_ini_get_entry, conf_ini_get_size
  <1>7. \A b : Entry(b)' <=> Entry(b)
    BY <1>6 DEF Entry
  <1>8. ~Entry(c)
    BY <1>3 DEF Inv, Apart
  <1>9. \A d \in Blocks : DOMAIN keys'[d] = DOMAIN keys[d]
    BY <1>4
  <1>10. \A d \in Blocks : \A k \in DOMAIN keys[d] :
             \/ d = a /\ k = q /\ keys'[d][k] = c
             \/ ~(d = a /\ k = q) /\ keys'[d][k] = keys[d][k]
    BY <1>4
  <1>11. Apart'
    <2>1. \A t, u \in TableIds : \A i \in 1 .. Len(list'[t]), j \in 1 .. Len(list'[u]) :
              list'[t][i] = list'[u][j] => t = u /\ i = j
      BY <1>1 DEF Inv, Apart
    <2>2. \A d \in Blocks : Entry(d)' => d \in heap'
      BY <1>1, <1>7 DEF Inv, Apart
    <2>3. ASSUME NEW d \in Blocks, Entry(d), NEW k \in DOMAIN keys[d], keys'[d][k] # None
          PROVE  keys'[d][k] \in heap' /\ ~Entry(keys'[d][k])
      BY <1>1, <1>8, <1>10, <2>3 DEF Inv, Apart
    <2>4. ASSUME NEW d \in Blocks, NEW e \in Blocks, Entry(d), Entry(e),
                 NEW k \in DOMAIN keys[d], NEW m \in DOMAIN keys[e],
                 keys'[d][k] = keys'[e][m], keys'[d][k] # None
          PROVE  d = e /\ k = m
      <3>1. keys[d][k] # c /\ keys[e][m] # c
        BY <1>3, <2>4 DEF Inv, Apart
      <3> QED BY <1>10, <2>4, <3>1 DEF Inv, Apart
    <2>5. \A d \in Blocks : Entry(d)' => \A k \in DOMAIN keys'[d] : keys'[d][k] # None =>
              keys'[d][k] \in heap' /\ ~Entry(keys[d][k])'
      BY <1>7, <1>9, <2>3
    <2>6. \A d, e \in Blocks : Entry(d)' /\ Entry(e)' =>
              \A k \in DOMAIN keys'[d], m \in DOMAIN keys'[e] :
                  keys'[d][k] = keys'[e][m] /\ keys'[d][k] # None => d = e /\ k = m
      BY <1>7, <1>9, <2>4
    <2> QED BY <2>1, <2>2, <2>5, <2>6 DEF Apart
  <1>12. TypeOK'
    BY <1>1, <1>2, <1>3, <1>4, <1>6 DEF Inv, TypeOK
  <1>13. Loading'
    BY <1>1 DEF Loading
  <1> QED BY <1>5, <1>11, <1>12, <1>13 DEF Inv

\* What a clean frees: the entries of a table and their values
Gone(t) == Entries(t) \cup UNION {Values(b) : b \in Entries(t)}

\* Other entries are not among it, nor are their values
LEMMA OthersStay ==
    ASSUME Inv, NEW t \in TableIds, NEW d \in Blocks, Entry(d), d \notin Entries(t)
    PROVE  /\ d \notin Gone(t)
           /\ \A k \in DOMAIN keys[d] : keys[d][k] # None => keys[d][k] \notin Gone(t)
  <1>1. \A e \in Entries(t) : e \in Blocks /\ Entry(e)
    BY EntriesListed DEF Inv, Stored, Entry
  <1>2. \A e \in Entries(t) : \A v \in Values(e) :
            v # None /\ \E m \in DOMAIN keys[e] : keys[e][m] = v
    BY DEF Values
  <1>3. d \notin Gone(t)
    BY <1>1, <1>2 DEF Gone, Inv, Apart
  <1>4. ASSUME NEW k \in DOMAIN keys[d], keys[d][k] # None, keys[d][k] \in Gone(t)
        PROVE  FALSE
    <2>1. ~Entry(keys[d][k])
      BY <1>4 DEF Inv, Apart
    <2>2. PICK e \in Entries(t) : keys[d][k] \in Values(e)
      BY <1>1, <1>4, <2>1 DEF Gone
    <2>3. PICK m \in DOMAIN keys[e] : keys[e][m] = keys[d][k]
      BY <1>2, <2>2
    <2> QED BY <1>1, <1>4, <2>2, <2>3 DEF Inv, Apart
  <1> QED BY <1>3, <1>4

\* A clean frees the entries of one table and what they hold, and unlinks them
LEMMA CleanKeeps == ASSUME Inv, NEW t \in TableIds, Clean(t) PROVE Inv'
  <1>1. /\ pc = "out" /\ heap' = heap \ Gone(t) /\ list' = [list EXCEPT ![t] = <<>>]
        /\ keys' = [b \in Blocks |-> IF b \in Gone(t) THEN <<>> ELSE keys[b]]
        /\ text' = [b \in Blocks |-> IF b \in Gone(t) THEN <<>> ELSE text[b]]
        /\ pc' = pc /\ lines' = lines /\ tbl' = tbl /\ addr' = addr /\ crashed' = crashed
        /\ tbl = None
    BY DEF Clean, Gone, Inv, Loading
  <1>2. /\ DOMAIN list' = TableIds /\ list'[t] = <<>>
        /\ \A u \in TableIds : u # t => list'[u] = list[u]
        /\ \A b \in Blocks : b \notin Gone(t) => keys'[b] = keys[b]
        /\ \A b \in Blocks : b \in Gone(t) => keys'[b] = <<>>
    BY <1>1 DEF Inv, Stored
  <1>3. Stored'
    <2>1. \A b \in Blocks : \A k \in DOMAIN keys'[b] : keys'[b][k] \in Blocks \cup {None}
      BY <1>2 DEF Inv, Stored
    <2> QED BY <1>1, <1>2, <2>1 DEF Inv, Stored
  <1>4. \A u \in TableIds : u # t => Entries(u)' = Entries(u)
    BY <1>2 DEF Entries, conf_ini_get_entry, conf_ini_get_size
  <1>5. Entries(t)' = {}
    BY <1>2 DEF Entries, conf_ini_get_entry, conf_ini_get_size
  <1>6. \A b : Entry(b)' <=> \E u \in TableIds \ {t} : b \in Entries(u)
    BY <1>4, <1>5 DEF Entry
  <1>7. \A u \in TableIds \ {t} : \A b \in Entries(u) :
            b \in Blocks /\ Entry(b) /\ b \notin Entries(t)
    <2> TAKE u \in TableIds \ {t}
    <2>1. /\ Entries(u) = {list[u][i] : i \in 1 .. Len(list[u])}
          /\ Entries(t) = {list[t][i] : i \in 1 .. Len(list[t])}
      BY EntriesListed DEF Inv
    <2>2. \A b \in Entries(u) : b \in Blocks /\ Entry(b)
      BY <2>1 DEF Inv, Stored, Entry
    <2>3. \A b \in Entries(u) : b \notin Entries(t)
      BY <2>1 DEF Inv, Apart
    <2> QED BY <2>2, <2>3
  <1>8. ASSUME NEW d \in Blocks, Entry(d)'
        PROVE  /\ Entry(d) /\ d \notin Gone(t) /\ keys'[d] = keys[d]
               /\ \A k \in DOMAIN keys[d] : keys[d][k] # None => keys[d][k] \notin Gone(t)
    BY <1>2, <1>6, <1>7, <1>8, OthersStay
  <1>9. \A b : Entry(b)' => Entry(b)
    BY <1>6 DEF Entry
  <1>10. Apart'
    <2>1. \A v, w \in TableIds : \A i \in 1 .. Len(list'[v]), j \in 1 .. Len(list'[w]) :
              list'[v][i] = list'[w][j] => v = w /\ i = j
      BY <1>2 DEF Inv, Apart
    <2>2. \A d \in Blocks : Entry(d)' => d \in heap'
      BY <1>1, <1>8 DEF Inv, Apart
    <2>3. \A d \in Blocks : Entry(d)' => \A k \in DOMAIN keys'[d] : keys'[d][k] # None =>
              keys'[d][k] \in heap' /\ ~Entry(keys[d][k])'
      BY <1>1, <1>8, <1>9 DEF Inv, Apart
    <2>4. \A d, e \in Blocks : Entry(d)' /\ Entry(e)' =>
              \A k \in DOMAIN keys'[d], m \in DOMAIN keys'[e] :
                  keys'[d][k] = keys'[e][m] /\ keys'[d][k] # None => d = e /\ k = m
      BY <1>8 DEF Inv, Apart
    <2> QED BY <2>1, <2>2, <2>3, <2>4 DEF Apart
  <1>11. TypeOK'
    BY <1>1 DEF Inv, TypeOK
  <1>12. Loading'
    BY <1>1 DEF Loading
  <1> QED BY <1>3, <1>10, <1>11, <1>12 DEF Inv

LEMMA InitInv == Init => Inv
  <1> SUFFICES ASSUME Init PROVE Inv
    OBVIOUS
  <1>1. TypeOK /\ Loading
    <2>1. 0 \in 0 .. MaxLines
      BY Numbers
    <2> QED BY <2>1 DEF Init, TypeOK, Loading
  <1>2. Stored
    BY DEF Init, Stored
  <1>3. \A b : ~Entry(b)
    <2>1. \A t \in TableIds : Entries(t) = {}
      BY DEF Init, Entries, conf_ini_get_entry, conf_ini_get_size
    <2> QED BY <2>1 DEF Entry
  <1>4. Apart
    BY <1>3 DEF Init, Apart
  <1> QED BY <1>1, <1>2, <1>4 DEF Inv

LEMMA NextKeeps == ASSUME Inv, [Next]_vars PROVE Inv'
  <1> USE DEF Inv, TypeOK, Loading
  <1>1. Load => Inv'
    BY OtherSteps DEF Load
  <1>2. ASSUME Read PROVE Inv'
    <2>1. heap # Blocks
      BY <1>2, RoomLeft DEF Read
    <2>2. lines' \in 0 .. MaxLines
      BY <1>2, Numbers DEF Read
    <2> QED BY <1>2, <2>1, <2>2, OtherSteps DEF Read
  <1>3. ReadEnds => Inv'
    BY OtherSteps DEF ReadEnds, Leave
  <1>4. AddSectionFails \/ AddKeyvalFails => Inv'
    BY OtherSteps DEF AddSectionFails, AddKeyvalFails, Leave, Taken
  <1>5. UnknownSection => Inv'
    BY OtherSteps DEF UnknownSection, Taken
  <1>6. Skip => Inv'
    BY OtherSteps DEF Skip, Taken
  <1>7. ASSUME NEW t \in TableIds, CleanAstray(t) PROVE Inv'
    BY <1>7, OtherSteps DEF CleanAstray
  <1>8. Overrun => Inv'
    BY OtherSteps DEF Overrun
  <1>9. UNCHANGED vars => Inv'
    BY OtherSteps DEF vars
  <1> QED BY <1>1, <1>2, <1>3, <1>4, <1>5, <1>6, <1>7, <1>8, <1>9, AddSectionKeeps,
             AddKeyvalKeeps, CleanKeeps DEF Next

LEMMA Invariant == Spec => []Inv
BY InitInv, NextKeeps, PTL DEF Spec

\* Every variable keeps its type for any file and any number of blocks: keys that follow
\* a section go to an entry of that section's table, which is in its list.
THEOREM TypeCorrect == Spec => []TypeOK
  <1>1. Inv => TypeOK
    BY DEF Inv
  <1> QED BY <1>1, Invariant, PTL

\* Every block that can be reached is allocated and reached in one way, so that a clean
\* frees it once: for any files, tables, failures and cleans.
THEOREM FreedOnce == Spec => []HeldOnce
  <1>1. Inv => HeldOnce
    <2> SUFFICES ASSUME Inv PROVE HeldOnce
      OBVIOUS
    <2>1. \A d \in Blocks : \A v \in Values(d) :
              v # None /\ \E k \in DOMAIN keys[d] : keys[d][k] = v
      BY DEF Values
    <2>2. \A b \in Blocks : Held(b) => b \in heap
      BY <2>1 DEF Inv, Apart, Held
    <2>3. \A b : b \in UNION {Entries(t) : t \in TableIds} <=> Entry(b)
      BY DEF Entry
    <2>4. \A d, e \in Blocks : Entry(d) /\ Entry(e) =>
             /\ d # e => Values(d) \cap Values(e) = {}
             /\ Values(d) \cap UNION {Entries(t) : t \in TableIds} = {}
             /\ \A k, m \in DOMAIN keys[d] :
                    keys[d][k] = keys[d][m] => k = m \/ keys[d][k] = None
      BY <2>1, <2>3 DEF Inv, Apart
    <2> QED BY <2>2, <2>4 DEF Inv, Apart, HeldOnce
  <1> QED BY <1>1, Invariant, PTL

\* What holds a block: it is an entry, or the value of a key of one
LEMMA HeldBy ==
    ASSUME NEW b
    PROVE  Held(b) <=> \/ Entry(b)
                       \/ \E e \in Blocks : Entry(e) /\ b # None
                              /\ \E k \in DOMAIN keys[e] : keys[e][k] = b
BY DEF Held, Values

\* ... in the next state
LEMMA HeldBySoon ==
    ASSUME NEW b
    PROVE  Held(b)' <=> \/ Entry(b)'
                        \/ \E e \in Blocks : Entry(e)' /\ b # None
                               /\ \E k \in DOMAIN keys'[e] : keys'[e][k] = b
BY DEF Held, Values, None, Blocks

\* A block is lost only when its key gets another value: for any files, failures and
\* cleans, neither a load that fails half-way nor a clean forgets one.
THEOREM LostWhenReplaced == Spec => LosesOnlyReplaced
  <1> DEFINE Replaced(b) ==
          \E e \in Blocks : Entry(e)' /\ \E k \in DOMAIN keys[e] :
              keys[e][k] = b /\ keys'[e][k] \notin {b, None}
  <1>1. ASSUME Inv, [Next]_vars, NEW b \in heap', Held(b), ~Held(b)'
        PROVE  Replaced(b)
    <2>1. ASSUME keys' = keys, list' = list PROVE FALSE
      <3>1. \A e : Entry(e)' <=> Entry(e)
        BY <2>1 DEF Entry, Entries, conf_ini_get_entry, conf_ini_get_size
      <3> QED BY <1>1, <2>1, <3>1, HeldBy, HeldBySoon
    <2>2. ASSUME AddSection PROVE FALSE
      <3> DEFINE t == TableOf(SectionName(str_trim(buf, 1)))
      <3>1. /\ pc = "take" /\ list' = [list EXCEPT ![t] = Append(list[t], Fresh)]
            /\ keys' = [keys EXCEPT ![Fresh] = [k \in Tables[t].keys |-> None]]
            /\ t \in TableIds
        BY <2>2, TableFound DEF AddSection, Taken
      <3> HIDE DEF t
      <3>2. Fresh \in Blocks /\ ~Entry(Fresh)
        BY <1>1, <3>1, FreshFree DEF Inv, TypeOK, Loading, Apart
      <3>3. \A u \in TableIds :
                /\ list[u] \in Seq(Blocks) /\ list'[u] \in Seq(Blocks)
                /\ \A i \in 1 .. Len(list[u]) :
                       i \in 1 .. Len(list'[u]) /\ list'[u][i] = list[u][i]
        BY <1>1, <3>1, <3>2 DEF Inv, Stored
      <3>4. \A e : Entry(e) => Entry(e)'
        <4>1. ASSUME NEW u \in TableIds, NEW e \in Entries(u) PROVE e \in Entries(u)'
          <5>1. PICK i \in 1 .. Len(list[u]) : e = list[u][i]
            BY <1>1, <4>1, EntriesListed DEF Inv
          <5>2. Len(list'[u]) \in Nat
            BY <3>3
          <5>3. {list'[u][j + 1] : j \in 0 .. Len(list'[u]) - 1}
                    = {list'[u][j] : j \in 1 .. Len(list'[u])}
            BY <5>2, FromZero
          <5> QED BY <3>3, <5>1, <5>3 DEF Entries, conf_ini_get_entry, conf_ini_get_size
        <4> QED BY <4>1 DEF Entry
      <3>5. \A e \in Blocks : Entry(e) => keys'[e] = keys[e]
        BY <3>1, <3>2, <1>1 DEF Inv, Stored
      <3> QED BY <1>1, <3>4, <3>5, HeldBy, HeldBySoon
    <2>3. ASSUME AddKeyval PROVE Replaced(b)
      <3> SUFFICES ASSUME NEW c, c = Fresh, NEW a, a = addr, NEW q, q = Str(CutOut, 1)
                   PROVE  Replaced(b)
        OBVIOUS
      <3>1. /\ pc = "take" /\ tbl # None /\ q \in Tables[tbl].keys /\ list' = list
            /\ keys' = [keys EXCEPT ![a] = [keys[a] EXCEPT ![q] = c]]
        BY <2>3 DEF AddKeyval, Taken, Known
      <3>2. /\ tbl \in TableIds /\ a \in Entries(tbl) /\ DOMAIN keys[a] = Tables[tbl].keys
            /\ a \in Blocks
        <4>1. tbl \in TableIds /\ a \in Entries(tbl) /\ DOMAIN keys[a] = Tables[tbl].keys
          BY <1>1, <3>1 DEF Inv, TypeOK
        <4> QED BY <1>1, <4>1, EntriesListed DEF Inv, Stored
      <3>3. c \in Blocks /\ c \notin heap
        BY <1>1, <3>1, FreshFree DEF Inv, TypeOK, Loading
      <3>4. \A e : Entry(e)' <=> Entry(e)
        BY <3>1 DEF Entry, Entries, conf_ini_get_entry, conf_ini_get_size
      <3>5. PICK e \in Blocks :
                Entry(e) /\ b # None /\ \E k \in DOMAIN keys[e] : keys[e][k] = b
        BY <1>1, <3>4, HeldBy, HeldBySoon
      <3>6. PICK k \in DOMAIN keys[e] : Entry(e) /\ b # None /\ keys[e][k] = b
        BY <3>5
      <3>7. /\ \A d \in Blocks : d # a => keys'[d] = keys[d]
            /\ DOMAIN keys'[a] = DOMAIN keys[a] /\ q \in DOMAIN keys[a] /\ keys'[a][q] = c
            /\ \A m \in DOMAIN keys[a] : m # q => keys'[a][m] = keys[a][m]
        BY <1>1, <3>1, <3>2 DEF Inv, Stored
      <3>8. e = a /\ k = q
        <4>1. CASE e # a
          BY <1>1, <4>1, <3>4, <3>6, <3>7, HeldBySoon
        <4>2. CASE e = a /\ k # q
          BY <1>1, <4>2, <3>4, <3>6, <3>7, HeldBySoon
        <4> QED BY <4>1, <4>2
      <3>9. b \in heap
        BY <1>1, <3>6 DEF Inv, Apart
      <3> QED BY <3>3, <3>4, <3>6, <3>7, <3>8, <3>9, Numbers
    <2>4. ASSUME NEW t \in TableIds, Clean(t) PROVE FALSE
      <3>1. /\ heap' = heap \ Gone(t) /\ list' = [list EXCEPT ![t] = <<>>]
            /\ keys' = [d \in Blocks |-> IF d \in Gone(t) THEN <<>> ELSE keys[d]]
        BY <2>4 DEF Clean, Gone
      <3>2. \A u \in TableIds : u # t => Entries(u)' = Entries(u)
        BY <1>1, <3>1 DEF Entries, conf_ini_get_entry, conf_ini_get_size, Inv, Stored
      <3>3. \A e : Entry(e) /\ e \notin Entries(t) => Entry(e)'
        BY <3>2 DEF Entry
      <3>4. b \notin Gone(t)
        BY <1>1, <3>1
      <3>5. CASE Entry(b)
        BY <1>1, <3>3, <3>4, <3>5, HeldBySoon DEF Gone
      <3>6. CASE ~Entry(b)
        <4>1. PICK e \in Blocks :
                  Entry(e) /\ b # None /\ \E k \in DOMAIN keys[e] : keys[e][k] = b
          BY <1>1, <3>6, HeldBy
        <4>2. PICK k \in DOMAIN keys[e] : Entry(e) /\ b # None /\ keys[e][k] = b
          BY <4>1
        <4>3. e \notin Entries(t)
          BY <3>4, <4>2 DEF Gone, Values
        <4>4. keys'[e] = keys[e]
          BY <1>1, <3>1, <4>2, <4>3, OthersStay
        <4> QED BY <1>1, <3>3, <4>2, <4>3, <4>4, HeldBySoon
      <3> QED BY <3>5, <3>6
    <2>5. \/ AddSection \/ AddKeyval \/ (\E t \in TableIds : Clean(t))
          \/ keys' = keys /\ list' = list
      BY <1>1 DEF Next, Load, Read, Overrun, ReadEnds, AddSectionFails, UnknownSection,
         AddKeyvalFails, Skip, CleanAstray, vars, memory
    <2> QED BY <2>1, <2>2, <2>3, <2>4, <2>5
  <1>2. Inv /\ [Next]_vars =>
            \A b \in heap' : Held(b) /\ ~Held(b)' => Replaced(b)
    BY <1>1
  <1> QED BY <1>2, Invariant, PTL DEF Spec, LosesOnlyReplaced
=============================================================================
