--------------------------- MODULE ConfFileProofs ---------------------------
(***************************************************************************)
(* Proofs about ConfIni, for any tables, lines and characters: the scan of *)
(* a value stays in the buffer, and a load stores what the file means.     *)
(*                                                                         *)
(* Lined is about the buffer: whatever trimming and cutting do to it, the  *)
(* zeros behind the newline stay.  Reads says which string begins where;   *)
(* trimming and cutting turn what is read at some places into what the     *)
(* file means, and leave the strings before and behind alone.  The scan    *)
(* and the modes of ConfFile are recursive functions: that there are such  *)
(* functions, and what they yield, follows from the least or the greatest  *)
(* of the places where it were otherwise.                                  *)
(***************************************************************************)
EXTENDS ConfIniProofs

-----------------------------------------------------------------------------
(* The scan of a value *)

\* What a place of the buffer makes of the results of the places behind it: the body of
\* the function in ini_value_analyze
Goal(f, b, i) ==
    CASE b[i] = NUL  -> [stop |-> i, cut |-> None]
      [] b[i] = ";"  -> [stop |-> i, cut |-> i]
      [] b[i] = "\\" -> f[i + 2]
      [] OTHER -> IF Pair(b, i) # None THEN f[Pair(b, i) + 1] ELSE f[i + 1]

\* A place is final, and h has its result, or refers to another place
Chained(f, S, final, h, nx) == f = [i \in S |-> IF i \in final THEN h[i] ELSE f[nx[i]]]

\* A function on places each of which is final or refers to a later one exists
LEMMA Backwards ==
    ASSUME NEW o \in Nat, NEW N \in Nat, o <= N, NEW B, NEW h, NEW nx,
           \A i \in o .. N : i \in B \/ nx[i] \in i + 1 .. N
    PROVE  \E f : Chained(f, o .. N, B, h, nx)
  <1> DEFINE M == {m \in o .. N :
                     \E f : f = [i \in m .. N |-> IF i \in B THEN h[i] ELSE f[nx[i]]]}
  <1>1. N \in M
    <2> DEFINE g == [i \in N .. N |-> h[i]]
    <2>1. N \in B
      OBVIOUS
    <2>2. g = [i \in N .. N |-> IF i \in B THEN h[i] ELSE g[nx[i]]]
      <3>1. \A i \in N .. N : i \in B
        BY <2>1
      <3> QED BY <3>1, Zenon
    <2>3. \E f : f = [i \in N .. N |-> IF i \in B THEN h[i] ELSE f[nx[i]]]
      BY <2>2, Zenon
    <2>4. N \in o .. N
      OBVIOUS
    <2> QED BY <2>3, <2>4, Zenon
  <1>2. M \in SUBSET Nat /\ M # {}
    <2>1. \A m \in M : m \in o .. N
      BY Zenon
    <2> HIDE DEF M
    <2> QED BY <1>1, <2>1
  <1>3. PICK m \in M : \A k \in M : m <= k
    BY <1>2, Least
  <1>4. m \in o .. N
    OBVIOUS
  <1>5. PICK f : f = [i \in m .. N |-> IF i \in B THEN h[i] ELSE f[nx[i]]]
    BY Zenon
  <1>6. ASSUME m # o PROVE FALSE
    <2> DEFINE l == m - 1
    <2>1. l \in o .. N /\ l < m /\ l \in Nat
      BY <1>4, <1>6
    <2> DEFINE v == IF l \in B THEN h[l] ELSE f[nx[l]]
    <2> DEFINE g == [i \in l .. N |-> IF i = l THEN v ELSE f[i]]
    <2>2. \A i \in l .. N : i = l \/ i \in m .. N
      BY <1>4, <2>1
    <2>3. \A i \in l .. N : i \in B \/ (nx[i] \in l .. N /\ nx[i] # l /\ nx[i] \in m .. N)
      BY <1>4, <2>1
    <2>4. \A i \in m .. N : f[i] = IF i \in B THEN h[i] ELSE f[nx[i]]
      BY <1>5, Zenon
    <2>5. \A i \in l .. N : i \notin B => g[nx[i]] = f[nx[i]]
      BY <2>3, Zenon
    <2>6. \A i \in l .. N :
              (IF i = l THEN v ELSE f[i]) = IF i \in B THEN h[i] ELSE g[nx[i]]
      <3> HIDE DEF l, g
      <3> TAKE i \in l .. N
      <3>1. CASE i = l
        BY <3>1, <2>5
      <3>2. CASE i # l
        BY <3>2, <2>2, <2>4, <2>5
      <3> QED BY <3>1, <3>2
    <2>7. g = [i \in l .. N |-> IF i \in B THEN h[i] ELSE g[nx[i]]]
      <3> HIDE DEF l, v
      <3> QED BY <2>6, Zenon
    <2>8. l \in M
      <3>1. \E ff : ff = [i \in l .. N |-> IF i \in B THEN h[i] ELSE ff[nx[i]]]
        <4> HIDE DEF g, l
        <4> QED BY <2>7, Zenon
      <3> HIDE DEF l
      <3> QED BY <3>1, <2>1, Zenon
    <2> QED BY <2>1, <2>8, <1>3, <1>4
  <1> QED BY <1>5, <1>6, Zenon DEF Chained

\* A buffer that holds a line of n characters: behind them the newline, or a zero in its
\* place, and nothing but zeros
Lined(b, n) ==
    /\ n \in Nat /\ b = [i \in 1 .. n + 4 |-> b[i]] /\ Len(b) = n + 4
    /\ b[n + 1] \in {"\n", NUL}
    /\ \A i \in n + 2 .. n + 4 : b[i] = NUL

\* Len of a function from 1 .. n
LEMMA LenOf ==
    ASSUME NEW n \in Nat, NEW f, f = [i \in 1 .. n |-> f[i]]
    PROVE  Len(f) = n
  <1> DEFINE S == {f[i] : i \in 1 .. n}
  <1>1. f \in [1 .. n -> S]
    <2>1. \A i \in 1 .. n : f[i] \in S
      OBVIOUS
    <2> HIDE DEF S
    <2> QED BY <2>1
  <1> HIDE DEF S
  <1>2. f \in Seq(S)
    BY <1>1
  <1> QED BY <1>1, <1>2

\* A string ends before the places the model keeps do
LEMMA EndsInTime ==
    ASSUME NEW n, NEW b, Lined(b, n), NEW o \in 1 .. n + 2
    PROVE  End(b, o) \in o .. n + 2 /\ b[End(b, o)] = NUL
  <1> DEFINE S == {i \in o .. Len(b) : b[i] = NUL}
  <1>1. n \in Nat /\ Len(b) = n + 4 /\ \A i \in n + 2 .. n + 4 : b[i] = NUL
    BY Zenon DEF Lined
  <1>2. n \in Nat /\ Len(b) = n + 4 /\ b[n + 2] = NUL
    BY <1>1
  <1>3. S \in SUBSET Nat /\ n + 2 \in S
    BY <1>2
  <1>4. Min(S) \in S /\ Min(S) <= n + 2
    BY <1>3, Least
  <1>5. End(b, o) = Min(S)
    BY Zenon DEF End
  <1> QED BY <1>2, <1>4, <1>5

\* A character is found in the string, before its end
LEMMA FoundBefore ==
    ASSUME NEW n, NEW b, Lined(b, n), NEW o \in 1 .. n + 2, NEW c, strchr(b, o, c) # None
    PROVE  strchr(b, o, c) \in o .. n + 1 /\ b[strchr(b, o, c)] = c
  <1> DEFINE at == {i \in o .. End(b, o) - 1 : b[i] = c}
  <1>1. n \in Nat /\ End(b, o) \in o .. n + 2
    BY EndsInTime DEF Lined
  <1>2. strchr(b, o, c) = IF at = {} THEN None ELSE Min(at)
    BY Zenon DEF strchr
  <1>3. at \in SUBSET Nat /\ \A i \in at : i \in o .. n + 1 /\ b[i] = c
    BY <1>1
  <1> HIDE DEF at
  <1> QED BY <1>2, <1>3, Least

\* Trimming moves the end of a string to the front but nothing behind the newline
LEMMA TrimKeeps ==
    ASSUME NEW n, NEW b, Lined(b, n), NEW o \in 1 .. n + 2
    PROVE  Lined(str_trim(b, o), n)
  <1> DEFINE end   == End(b, o)
             first == {i \in o .. end - 1 : Visible(b[i])} \cup {end}
             head  == Min(first) - o
             moved == [i \in 1 .. Len(b) |->
                          IF i \in o .. end - head THEN b[i + head] ELSE b[i]]
             tail  == Max({i \in o .. end - head - 1 : Visible(moved[i])} \cup {o - 1})
             r     == [moved EXCEPT ![tail + 1] = NUL]
  <1>1. n \in Nat /\ Len(b) = n + 4 /\ \A i \in n + 2 .. n + 4 : b[i] = NUL
    BY Zenon DEF Lined
  <1>2. b[n + 1] \in {"\n", NUL}
    BY Zenon DEF Lined
  <1>3. /\ n \in Nat /\ o \in Nat /\ Len(b) = n + 4 /\ b[n + 1] \in {"\n", NUL}
        /\ \A i \in n + 2 .. n + 4 : b[i] = NUL
    BY <1>1, <1>2
  <1>4. end \in o .. n + 2
    BY EndsInTime
  <1>5. head \in 0 .. end - o
    <2> HIDE DEF end
    <2>1. first \in SUBSET Nat /\ first # {} /\ \A i \in first : i \in o .. end
      BY <1>3, <1>4
    <2> HIDE DEF first
    <2>2. Min(first) \in o .. end
      BY <2>1, Least
    <2> QED BY <1>3, <1>4, <2>2
  <1>6. str_trim(b, o) = r
    BY Zenon DEF str_trim
  <1> HIDE DEF end, head
  <1>7. /\ DOMAIN moved = 1 .. n + 4 /\ moved[n + 1] \in {"\n", NUL}
        /\ \A i \in n + 2 .. n + 4 : moved[i] = NUL
    <2>1. \A i \in 1 .. n + 4 :
              moved[i] = IF i \in o .. end - head THEN b[i + head] ELSE b[i]
      BY <1>3
    <2>2. moved[n + 1] \in {"\n", NUL}
      <3>1. n + 1 \in o .. end - head => head = 0 \/ head = 1
        BY <1>3, <1>4, <1>5
      <3> QED BY <1>3, <2>1, <3>1
    <2>3. \A i \in n + 2 .. n + 4 : moved[i] = NUL
      <3> TAKE i \in n + 2 .. n + 4
      <3>1. i \in o .. end - head => head = 0
        BY <1>3, <1>4, <1>5
      <3> QED BY <1>3, <2>1, <3>1
    <2> QED BY <1>3, <2>2, <2>3
  <1> HIDE DEF moved, tail
  <1>8. /\ DOMAIN r = 1 .. n + 4 /\ r[n + 1] \in {"\n", NUL}
        /\ \A i \in n + 2 .. n + 4 : r[i] = NUL
    BY <1>3, <1>7
  <1>9. r = [i \in 1 .. n + 4 |-> r[i]]
    BY <1>7
  <1>10. Len(r) = n + 4
    <2>1. n + 4 \in Nat
      BY <1>3
    <2> HIDE DEF r
    <2> QED BY <1>9, <2>1, LenOf
  <1> QED BY <1>3, <1>6, <1>8, <1>9, <1>10 DEF Lined

\* A zero anywhere before the last zeros keeps it so
LEMMA CutKeeps ==
    ASSUME NEW n, NEW b, Lined(b, n), NEW p \in 1 .. n + 1
    PROVE  Lined([b EXCEPT ![p] = NUL], n)
  <1> DEFINE r == [b EXCEPT ![p] = NUL]
  <1>1. n \in Nat
    BY DEF Lined
  <1>2. /\ DOMAIN r = 1 .. n + 4 /\ r[n + 1] \in {"\n", NUL}
        /\ \A i \in n + 2 .. n + 4 : r[i] = NUL
    <2>1. DOMAIN r = 1 .. n + 4
      BY DEF Lined
    <2>2. \A i \in 1 .. n + 4 : r[i] = IF i = p THEN NUL ELSE b[i]
      BY DEF Lined
    <2>3. n + 1 \in 1 .. n + 4 /\ \A i \in n + 2 .. n + 4 : i \in 1 .. n + 4
      BY <1>1
    <2> QED BY <2>1, <2>2, <2>3 DEF Lined
  <1>3. r = [i \in 1 .. n + 4 |-> r[i]]
    BY DEF Lined
  <1>4. Len(r) = n + 4
    <2>1. n + 4 \in Nat
      BY <1>1
    <2> HIDE DEF r
    <2> QED BY <1>3, <2>1, LenOf
  <1> QED BY <1>1, <1>2, <1>3, <1>4 DEF Lined

\* From a place of the line the scan goes to a later one, over an escaped character or a
\* string in marks, but not over the zero behind the newline, where it ends
LEMMA ScanRuns ==
    ASSUME NEW n, NEW b, Lined(b, n), NEW o \in 1 .. n + 2
    PROVE  \E g : /\ \A i \in o .. Len(b) : g[i] = Goal(g, b, i)
                  /\ ini_value_analyze(b, o) = g[o]
                  /\ \A i \in o .. n + 2 :
                         g[i].stop = i \/ \E j \in i + 1 .. n + 2 : g[i] = g[j]
  <1> DEFINE N     == Len(b)
             final == {i \in o .. N : b[i] \in {NUL, ";"}}
             last  == [i \in o .. N |->
                         [stop |-> i, cut |-> IF b[i] = ";" THEN i ELSE None]]
             nx    == [i \in o .. N |-> IF b[i] = "\\" THEN i + 2
                                        ELSE IF Pair(b, i) # None THEN Pair(b, i) + 1
                                        ELSE i + 1]
  <1>1. n \in Nat /\ o \in Nat /\ N = n + 4 /\ N \in Nat /\ o <= N
    BY DEF Lined
  <1>2. b[n + 1] \in {"\n", NUL} /\ \A i \in n + 2 .. n + 4 : b[i] = NUL
    BY DEF Lined
  <1>3. /\ \A i \in o .. N : i \in final <=> b[i] \in {NUL, ";"}
        /\ \A i \in o .. N :
               last[i] = [stop |-> i, cut |-> IF b[i] = ";" THEN i ELSE None]
        /\ \A i \in o .. N : nx[i] = IF b[i] = "\\" THEN i + 2
                                     ELSE IF Pair(b, i) # None THEN Pair(b, i) + 1
                                     ELSE i + 1
    <2> HIDE DEF N
    <2> QED OBVIOUS
  <1> HIDE DEF N, final, last, nx
  <1>4. ASSUME NEW i \in o .. n + 1, Pair(b, i) # None
        PROVE  Pair(b, i) \in i + 1 .. n + 1
    <2>1. i + 1 \in 1 .. n + 2
      BY <1>1
    <2>2. Pair(b, i) = strchr(b, i + 1, b[i])
      BY <1>4 DEF Pair
    <2> QED BY <1>4, <2>1, <2>2, FoundBefore
  <1>5. \A i \in o .. N : i \in final \/ i \in o .. n + 1
    <2> TAKE i \in o .. N
    <2>1. i \in o .. n + 1 \/ i \in n + 2 .. n + 4
      BY <1>1
    <2> QED BY <2>1, <1>3, <1>2
  <1>6. "\n" # "\\"
    OBVIOUS
  <1>7. \A i \in o .. N : i \notin final => nx[i] \in i + 1 .. n + 2
    <2> TAKE i \in o .. N
    <2> HAVE i \notin final
    <2>1. i \in o .. n + 1
      BY <1>5
    <2>2. ASSUME b[i] = "\\" PROVE i + 2 \in i + 1 .. n + 2
      <3>1. i # n + 1
        BY <1>6, <1>2, <2>2 DEF NUL
      <3> QED BY <1>1, <2>1, <3>1
    <2>3. Pair(b, i) # None => Pair(b, i) + 1 \in i + 1 .. n + 2
      BY <1>1, <1>4, <2>1
    <2>4. i + 1 \in i + 1 .. n + 2
      BY <1>1, <2>1
    <2> QED BY <2>2, <2>3, <2>4, <1>3
  <1>8. \A i \in o .. N : i \in final \/ nx[i] \in i + 1 .. N
    BY <1>1, <1>7
  <1>9. PICK f : f = [i \in o .. N |-> IF i \in final THEN last[i] ELSE f[nx[i]]]
    <2>1. o \in Nat /\ N \in Nat /\ o <= N
      BY <1>1
    <2>2. \E f : Chained(f, o .. N, final, last, nx)
      BY <1>8, <2>1, Backwards
    <2> QED BY <2>2, Zenon DEF Chained
  <1>10. \A i \in o .. N : (IF i \in final THEN last[i] ELSE f[nx[i]]) = Goal(f, b, i)
    <2> TAKE i \in o .. N
    <2>1. CASE b[i] = NUL
      BY <2>1, <1>3 DEF Goal, NUL
    <2>2. CASE b[i] = ";"
      BY <2>2, <1>3 DEF Goal, NUL
    <2>3. CASE b[i] \notin {NUL, ";"}
      BY <2>3, <1>3 DEF Goal, NUL
    <2> QED BY <2>1, <2>2, <2>3
  <1>11. f = [i \in o .. N |-> Goal(f, b, i)]
    BY <1>9, <1>10, Zenon
  <1>12. \E g : g = [i \in o .. Len(b) |-> Goal(g, b, i)]
    BY <1>11, Zenon DEF N
  <1>13. \E g : /\ g = [i \in o .. Len(b) |-> Goal(g, b, i)]
                /\ ini_value_analyze(b, o) = g[o]
    BY <1>12, Zenon DEF ini_value_analyze, Goal
  <1>14. PICK g : g = [i \in o .. N |-> Goal(g, b, i)] /\ ini_value_analyze(b, o) = g[o]
    BY <1>13, Zenon DEF N
  <1>15. \A i \in o .. N : g[i] = Goal(g, b, i)
    BY <1>14, Zenon
  <1>16. ASSUME NEW i \in o .. n + 2
         PROVE  g[i].stop = i \/ \E j \in i + 1 .. n + 2 : g[i] = g[j]
    <2>1. i \in o .. N
      BY <1>1
    <2>2. CASE i \in final
      <3>1. \/ b[i] = NUL /\ g[i] = [stop |-> i, cut |-> None]
            \/ b[i] = ";" /\ g[i] = [stop |-> i, cut |-> i]
        BY <1>15, <2>1, <2>2, <1>3 DEF Goal, NUL
      <3>2. PICK c : g[i] = [stop |-> i, cut |-> c]
        BY <3>1, Zenon
      <3> QED BY <3>2
    <2>3. CASE i \notin final
      <3>1. g[i] = g[nx[i]]
        BY <1>15, <2>1, <2>3, <1>3 DEF Goal, NUL
      <3> QED BY <1>7, <2>1, <2>3, <3>1
    <2> QED BY <2>2, <2>3
  <1> QED BY <1>14, <1>15, <1>16 DEF N

\* The scan ends at the latest at the zero behind the newline
LEMMA ScanStops ==
    ASSUME NEW n, NEW b, Lined(b, n), NEW o \in 1 .. n + 2
    PROVE  ini_value_analyze(b, o).stop <= n + 2
  <1>1. PICK g : /\ ini_value_analyze(b, o) = g[o]
                 /\ \A i \in o .. n + 2 :
                        g[i].stop = i \/ \E j \in i + 1 .. n + 2 : g[i] = g[j]
    BY ScanRuns
  <1>2. n \in Nat /\ o \in Nat
    BY DEF Lined
  <1> DEFINE late == {i \in o .. n + 2 : ~(g[i].stop <= n + 2)}
  <1>3. ASSUME late # {} PROVE FALSE
    <2>1. late \in SUBSET Nat /\ \A i \in late : i <= n + 2
      BY <1>2
    <2>2. Max(late) \in late /\ \A i \in late : i <= Max(late)
      <3> HIDE DEF late
      <3>1. n + 2 \in Nat
        BY <1>2
      <3> QED BY <1>3, <2>1, <3>1, Greatest
    <2> DEFINE m == Max(late)
    <2>3. m \in o .. n + 2 /\ ~(g[m].stop <= n + 2) /\ \A i \in late : i <= m
      BY <2>2
    <2> HIDE DEF m
    <2>4. PICK j \in m + 1 .. n + 2 : g[m] = g[j]
      BY <1>1, <2>3
    <2>5. j \in late
      BY <1>2, <2>3, <2>4
    <2> QED BY <1>2, <2>3, <2>4, <2>5
  <1>4. o \in o .. n + 2
    BY <1>2
  <1> QED BY <1>1, <1>3, <1>4

\* While a line is due it is in the buffer
Buffered == pc = "take" => Lined(buf, Len(line))

\* What Read puts into the buffer
LEMMA Fills ==
    ASSUME NEW S, NEW l \in Seq(S), "\n" \in S, NUL \in S
    PROVE  Lined(Append(l, "\n") \o [i \in 1 .. 3 |-> NUL], Len(l))
  <1> DEFINE n == Len(l)
             a == Append(l, "\n")
             z == [i \in 1 .. 3 |-> NUL]
             b == a \o z
  <1>1. n \in Nat /\ a \in Seq(S) /\ Len(a) = n + 1 /\ a[n + 1] = "\n"
    OBVIOUS
  <1>2. z \in Seq(S) /\ Len(z) = 3 /\ \A i \in 1 .. 3 : z[i] = NUL
    <2>1. Len(z) = 3
      BY LenOf
    <2> QED BY <2>1
  <1> HIDE DEF n, a, z
  <1>3. a \in Seq(S) /\ z \in Seq(S)
    BY <1>1, <1>2
  <1>4. /\ b \in Seq(S) /\ Len(b) = n + 4 /\ b[n + 1] = a[n + 1]
        /\ \A i \in n + 2 .. n + 4 : b[i] = z[i - (n + 1)]
    <2>1. \A i \in n + 2 .. n + 4 : i \in Len(a) + 1 .. Len(a) + Len(z) /\ Len(a) = n + 1
      BY <1>1, <1>2
    <2>2. \A i \in Len(a) + 1 .. Len(a) + Len(z) : b[i] = z[i - Len(a)]
      BY <1>3
    <2>3. n + 1 \in 1 .. Len(a) /\ \A i \in 1 .. Len(a) : b[i] = a[i]
      BY <1>3, <1>1
    <2>4. b \in Seq(S) /\ Len(b) = Len(a) + Len(z)
      BY <1>3
    <2> HIDE DEF b
    <2>5. Len(b) = n + 4
      BY <1>1, <1>2, <2>4
    <2>6. \A i \in n + 2 .. n + 4 : b[i] = z[i - (n + 1)]
      BY <2>1, <2>2
    <2> QED BY <2>3, <2>4, <2>5, <2>6
  <1> HIDE DEF b
  <1>5. \A i \in n + 2 .. n + 4 : i - (n + 1) \in 1 .. 3
    BY <1>1
  <1>6. b = [i \in 1 .. n + 4 |-> b[i]]
    BY <1>1, <1>4
  <1>7. b[n + 1] = "\n" /\ \A i \in n + 2 .. n + 4 : b[i] = NUL
    BY <1>1, <1>2, <1>4, <1>5
  <1>8. Lined(b, n)
    BY <1>1, <1>4, <1>6, <1>7, Zenon DEF Lined
  <1> QED BY <1>8 DEF n, a, z, b

\* Only Read fills the buffer, and a line that was taken leaves it
LEMMA BufferedInvariant == Spec => []Buffered
  <1>1. Init => Buffered
    BY DEF Init, Buffered
  <1>2. ASSUME Read PROVE Buffered'
    <2>1. PICK l \in Lines : /\ line' = l
                            /\ buf' = Append(l, "\n") \o [i \in 1 .. Room |-> NUL]
      BY <1>2 DEF Read
    <2>2. l \in Seq(STRING)
      BY ConfAssumption
    <2>3. Lined(Append(l, "\n") \o [i \in 1 .. Room |-> NUL], Len(l))
      <3> DEFINE S == STRING \cup {"\n", NUL}
      <3>1. l \in Seq(S)
        BY <2>2
      <3>2. "\n" \in S /\ NUL \in S
        OBVIOUS
      <3> HIDE DEF S
      <3> QED BY <3>1, <3>2, Fills, Zenon DEF Room
    <2> QED BY <2>1, <2>3, Zenon DEF Buffered
  <1>3. Buffered /\ [Next]_vars /\ ~Read => Buffered'
    BY DEF Buffered, Next, vars, Load, Overrun, ReadEnds, Leave, Taken, AddSection,
       AddSectionFails, UnknownSection, AddKeyval, AddKeyvalFails, Skip, Clean, CleanAstray
  <1>4. Buffered /\ [Next]_vars => Buffered'
    BY <1>2, <1>3
  <1> QED BY <1>1, <1>4, PTL DEF Spec

\* For lines of any length and characters the scan of a value ends at the latest at the
\* zero behind the newline, so that a line that fits the buffer with both is safe.
THEOREM ScanInBounds == Spec => []ScanStays
  <1>1. ASSUME Buffered, pc = "take", ini_line_read = "keyval"
        PROVE  ini_value_analyze([str_trim(buf, 1) EXCEPT ![Assign] = NUL], Assign + 1).stop
                   <= Len(line) + 2
    <2> DEFINE n == Len(line)
               b == str_trim(buf, 1)
               p == strchr(b, 1, "=")
    <2>1. n \in Nat /\ Lined(buf, n)
      BY <1>1 DEF Buffered, Lined
    <2>2. 1 \in 1 .. n + 2
      BY <2>1
    <2>3. Lined(b, n)
      <3> HIDE DEF n
      <3> QED BY <2>1, <2>2, TrimKeeps
    <2>4. p # None
      BY <1>1 DEF ini_line_read, ini_line_is_keyval
    <2> HIDE DEF n, b
    <2>5. p \in 1 .. n + 1
      BY <2>2, <2>3, <2>4, FoundBefore
    <2> HIDE DEF p
    <2>6. Lined([b EXCEPT ![p] = NUL], n)
      BY <2>3, <2>5, CutKeeps
    <2>7. p + 1 \in 1 .. n + 2
      BY <2>1, <2>5
    <2>8. ini_value_analyze([b EXCEPT ![p] = NUL], p + 1).stop <= n + 2
      <3> DEFINE c == [b EXCEPT ![p] = NUL]
      <3> HIDE DEF c
      <3>1. ini_value_analyze(c, p + 1).stop <= n + 2
        BY <2>6, <2>7, ScanStops DEF c
      <3> QED BY <3>1 DEF c
    <2> QED BY <2>8 DEF n, b, p, Assign
  <1>2. Buffered => ScanStays
    BY <1>1 DEF ScanStays
  <1> QED BY <1>2, BufferedInvariant, PTL

-----------------------------------------------------------------------------
(* Strings *)

Letters == STRING \cup {"\n", NUL}

\* The string at o in the buffer is s, with its end
Reads(b, o, s) ==
    /\ b \in Seq(Letters) /\ s \in Seq(Letters)
    /\ o \in 1 .. Len(b) /\ o + Len(s) <= Len(b)
    /\ \A i \in 1 .. Len(s) : b[(o - 1) + i] = s[i] /\ s[i] # NUL
    /\ b[o + Len(s)] = NUL

\* The end of a string that is read
LEMMA EndIs ==
    ASSUME NEW b, NEW o, NEW s, Reads(b, o, s)
    PROVE  End(b, o) = o + Len(s) /\ o + Len(s) \in o .. Len(b)
  <1> DEFINE S == {i \in o .. Len(b) : b[i] = NUL}
             n == Len(s)
             N == Len(b)
  <1>1. n \in Nat /\ N \in Nat /\ o \in 1 .. N /\ o + n <= N
    BY DEF Reads
  <1>2. b[o + n] = NUL
    BY DEF Reads
  <1>3. \A i \in 1 .. n : b[(o - 1) + i] # NUL
    BY DEF Reads
  <1> HIDE DEF n, N
  <1>4. ASSUME NEW i \in o .. N, i < o + n PROVE b[i] # NUL
    <2>1. i - (o - 1) \in 1 .. n /\ (o - 1) + (i - (o - 1)) = i
      BY <1>1, <1>4
    <2> QED BY <1>3, <2>1
  <1>5. /\ S \in SUBSET Nat /\ o + n \in S
        /\ \A i \in S : i \in o .. N /\ o + n <= i
    BY <1>1, <1>2, <1>4 DEF N
  <1>6. End(b, o) = Min(S)
    BY Zenon DEF End
  <1> HIDE DEF S
  <1>7. Min(S) \in S /\ Min(S) <= o + n
    BY <1>5, Least
  <1>8. Min(S) = o + n
    <2>1. Min(S) \in o .. N /\ o + n <= Min(S)
      BY <1>5, <1>7
    <2> QED BY <1>1, <1>7, <2>1
  <1>9. o + n \in o .. N
    BY <1>1
  <1> QED BY <1>6, <1>8, <1>9 DEF n, N

\* Sequences of letters that are equal place by place
LEMMA SameLetters ==
    ASSUME NEW s \in Seq(Letters), NEW t \in Seq(Letters), Len(s) = Len(t),
           \A i \in 1 .. Len(s) : s[i] = t[i]
    PROVE  s = t
OBVIOUS

\* A part of a sequence; an empty one if it begins behind its end
LEMMA Part ==
    ASSUME NEW s \in Seq(Letters), NEW m \in 1 .. Len(s) + 1, NEW n \in m - 1 .. Len(s)
    PROVE  /\ SubSeq(s, m, n) \in Seq(Letters) /\ Len(SubSeq(s, m, n)) = (n - m) + 1
           /\ \A i \in 1 .. (n - m) + 1 : SubSeq(s, m, n)[i] = s[(m - 1) + i]
OBVIOUS

\* Str yields the string that is read
LEMMA StrIs ==
    ASSUME NEW b, NEW o, NEW s, Reads(b, o, s)
    PROVE  Str(b, o) = s
  <1> DEFINE n == Len(s)
             r == SubSeq(b, o, (o + n) - 1)
  <1>1. End(b, o) = o + n
    BY EndIs
  <1>2. /\ b \in Seq(Letters) /\ s \in Seq(Letters) /\ n \in Nat
        /\ o \in 1 .. Len(b) /\ o + n <= Len(b) /\ Len(b) \in Nat
        /\ \A i \in 1 .. n : b[(o - 1) + i] = s[i]
    BY DEF Reads
  <1>3. Str(b, o) = r
    BY <1>1, Zenon DEF Str
  <1> HIDE DEF n
  <1>4. o \in 1 .. Len(b) + 1 /\ (o + n) - 1 \in o - 1 .. Len(b)
    BY <1>2
  <1>5. ((o + n) - 1 - o) + 1 = n
    BY <1>2
  <1>6. r \in Seq(Letters) /\ Len(r) = n /\ \A i \in 1 .. n : r[i] = b[(o - 1) + i]
    BY <1>2, <1>4, <1>5, Part
  <1> HIDE DEF r
  <1>7. \A i \in 1 .. n : r[i] = s[i]
    BY <1>2, <1>6
  <1>8. r = s
    BY <1>2, <1>6, <1>7, SameLetters DEF n
  <1> QED BY <1>3, <1>8

\* The first place of some letters
LEMMA FirstIs ==
    ASSUME NEW s \in Seq(Letters), NEW C
    PROVE  /\ Conf!First(s, C) \in 1 .. Len(s) + 1
           /\ Conf!First(s, C) <= Len(s) => s[Conf!First(s, C)] \in C
           /\ \A i \in 1 .. Len(s) : i < Conf!First(s, C) => s[i] \notin C
  <1> DEFINE S == {i \in 1 .. Len(s) : s[i] \in C} \cup {Len(s) + 1}
  <1>1. Len(s) \in Nat
    OBVIOUS
  <1>2. S \in SUBSET Nat /\ S # {}
    BY <1>1
  <1>3. Conf!First(s, C) = Min(S)
    BY Zenon DEF Conf!First, Conf!Min, Min
  <1>4. Min(S) \in S /\ \A i \in S : Min(S) <= i
    <2> HIDE DEF S
    <2> QED BY <1>2, Least
  <1>5. Len(s) + 1 \in S /\ \A i \in S : (i \in 1 .. Len(s) /\ s[i] \in C) \/ i = Len(s) + 1
    BY <1>1
  <1>6. \A i \in 1 .. Len(s) : s[i] \in C => i \in S
    OBVIOUS
  <1> DEFINE F == Conf!First(s, C)
  <1> HIDE DEF S
  <1> SUFFICES ASSUME NEW f, f = Conf!First(s, C)
               PROVE  /\ f \in 1 .. Len(s) + 1 /\ (f <= Len(s) => s[f] \in C)
                      /\ \A i \in 1 .. Len(s) : i < f => s[i] \notin C
    OBVIOUS
  <1>7. f \in S /\ f \in Nat /\ \A i \in S : f <= i
    BY <1>2, <1>3, <1>4
  <1>8. \A i \in 1 .. Len(s) : i < f => s[i] \notin C
    BY <1>1, <1>6, <1>7
  <1> QED BY <1>1, <1>5, <1>7, <1>8

\* strchr finds the first place of a letter in the string
LEMMA StrchrIs ==
    ASSUME NEW b, NEW o, NEW s, Reads(b, o, s), NEW c
    PROVE  strchr(b, o, c) = IF Conf!First(s, {c}) <= Len(s)
                             THEN (o - 1) + Conf!First(s, {c}) ELSE None
  <1> SUFFICES ASSUME NEW f, f = Conf!First(s, {c}), NEW n, n = Len(s)
               PROVE  strchr(b, o, c) = IF f <= n THEN (o - 1) + f ELSE None
    OBVIOUS
  <1> DEFINE at == {i \in o .. End(b, o) - 1 : b[i] = c}
  <1>1. /\ s \in Seq(Letters) /\ n \in Nat /\ o \in Nat /\ o >= 1 /\ End(b, o) = o + n
        /\ \A i \in 1 .. n : b[(o - 1) + i] = s[i]
    <2>1. End(b, o) = o + n
      BY EndIs
    <2> QED BY <2>1 DEF Reads
  <1>2. f \in 1 .. n + 1 /\ (f <= n => s[f] = c) /\ \A i \in 1 .. n : i < f => s[i] # c
    BY <1>1, FirstIs
  <1>3. strchr(b, o, c) = IF at = {} THEN None ELSE Min(at)
    BY Zenon DEF strchr
  <1>4. \A i \in at : i - (o - 1) \in 1 .. n /\ s[i - (o - 1)] = c /\ i \in Nat
    <2> TAKE i \in at
    <2>1. i \in o .. (o + n) - 1 /\ b[i] = c
      BY <1>1
    <2>2. i - (o - 1) \in 1 .. n /\ (o - 1) + (i - (o - 1)) = i /\ i \in Nat
      BY <1>1, <2>1
    <2> QED BY <1>1, <2>1, <2>2
  <1>5. \A i \in at : f <= i - (o - 1) /\ f <= n
    <2> TAKE i \in at
    <2>1. i - (o - 1) \in 1 .. n /\ s[i - (o - 1)] = c
      BY <1>4
    <2> SUFFICES ASSUME NEW j \in 1 .. n, s[j] = c PROVE f <= j /\ f <= n
      BY <2>1
    <2>2. ~(j < f)
      BY <1>2, Zenon
    <2>3. ~(j < f) /\ n \in Nat /\ f \in Nat
      BY <1>1, <1>2, <2>2
    <2> QED BY <2>3
  <1>6. CASE f <= n
    <2>1. (o - 1) + f \in at
      BY <1>1, <1>2, <1>6
    <2>2. at \in SUBSET Nat
      BY <1>4
    <2> HIDE DEF at
    <2>3. Min(at) \in at /\ Min(at) <= (o - 1) + f
      BY <2>1, <2>2, Least
    <2>4. f <= Min(at) - (o - 1) /\ Min(at) \in Nat
      BY <1>5, <2>2, <2>3
    <2>5. Min(at) = (o - 1) + f
      BY <1>1, <1>2, <2>3, <2>4
    <2> QED BY <1>3, <1>6, <2>1, <2>5
  <1>7. CASE ~(f <= n)
    <2>1. at = {}
      <3> HIDE DEF at
      <3> QED BY <1>5, <1>7
    <2> HIDE DEF at
    <2> QED BY <1>3, <1>7, <2>1
  <1> QED BY <1>6, <1>7

\* A member that is not above any other is the least
LEMMA LeastIs ==
    ASSUME NEW S \in SUBSET Nat, NEW x \in S, \A y \in S : x <= y
    PROVE  Min(S) = x
  <1>1. Min(S) \in S /\ \A y \in S : Min(S) <= y
    BY Least
  <1>2. Min(S) \in Nat /\ x \in Nat /\ Min(S) <= x /\ x <= Min(S)
    BY <1>1
  <1> QED BY <1>2

\* A member that is not below any other is the greatest
LEMMA GreatestIs ==
    ASSUME NEW S \in SUBSET Nat, NEW x \in S, \A y \in S : y <= x
    PROVE  Max(S) = x
  <1>1. Max(S) \in S /\ \A y \in S : y <= Max(S)
    <2>1. x \in Nat
      OBVIOUS
    <2> QED BY <2>1, Greatest
  <1>2. Max(S) \in Nat /\ x \in Nat /\ Max(S) <= x /\ x <= Max(S)
    BY <1>1
  <1> QED BY <1>2

\* The characters that stay when h blanks at the front of s go, and those after the
\* l characters behind them
Solid(s, h, l) ==
    /\ h \in 0 .. Len(s) /\ l \in 0 .. Len(s) - h
    /\ \A i \in 1 .. Len(s) : i <= h \/ i > h + l => ~Visible(s[i])
    /\ l = 0 => h = Len(s)
    /\ l # 0 => Visible(s[h + 1]) /\ Visible(s[h + l])

\* Stripped keeps what is between the blanks at the ends
LEMMA StrippedIs ==
    ASSUME NEW s \in Seq(Letters), NEW h, NEW l, Solid(s, h, l)
    PROVE  Conf!Stripped(s) = SubSeq(s, h + 1, h + l)
  <1> DEFINE S == {i \in 1 .. Len(s) : s[i] \notin Conf!Blanks}
  <1>1. Conf!Stripped(s) = IF S = {} THEN <<>> ELSE SubSeq(s, Min(S), Max(S))
    BY Zenon DEF Conf!Stripped, Conf!Min, Conf!Max, Min, Max
  <1>2. S = {i \in 1 .. Len(s) : Visible(s[i])}
    BY DEF Visible, Conf!Blanks
  <1> HIDE DEF S
  <1>3. Len(s) \in Nat
    OBVIOUS
  <1>4. CASE l = 0
    <2>1. S = {}
      BY <1>2, <1>4 DEF Solid
    <2>2. SubSeq(s, h + 1, h + l) = <<>>
      BY <1>3, <1>4 DEF Solid
    <2> QED BY <1>1, <2>1, <2>2
  <1>5. CASE l # 0
    <2>1. /\ h \in Nat /\ l \in Nat /\ h + 1 \in 1 .. Len(s) /\ h + l \in 1 .. Len(s)
          /\ S \in SUBSET Nat
      BY <1>2, <1>3, <1>5 DEF Solid
    <2>2. h + 1 \in S /\ h + l \in S
      BY <1>2, <1>5, <2>1 DEF Solid
    <2>3. \A i \in S : h + 1 <= i /\ i <= h + l
      <3> TAKE i \in S
      <3>1. i \in 1 .. Len(s) /\ ~(i <= h \/ i > h + l)
        BY <1>2 DEF Solid
      <3> QED BY <2>1, <3>1
    <2>4. Min(S) = h + 1
      BY <2>1, <2>2, <2>3, LeastIs
    <2>5. Max(S) = h + l
      BY <2>1, <2>2, <2>3, GreatestIs
    <2> QED BY <1>1, <2>2, <2>4, <2>5
  <1> QED BY <1>4, <1>5

\* What trimming does to the string s at o: it moves by the h blanks in front of it, and
\* of what is behind its l characters one is overwritten
Trimmed(b, o, s, c, h, l) ==
    /\ c \in Seq(Letters) /\ Len(c) = Len(b)
    /\ \A i \in 1 .. Len(s) - h : i # l + 1 => c[(o - 1) + i] = s[h + i]
    /\ c[o + l] = NUL /\ c[o + (Len(s) - h)] = NUL
    /\ \A i \in 1 .. Len(b) : i < o \/ i > o + Len(s) => c[i] = b[i]

\* str_trim moves the string over the blanks in front of it, up to its end, and
\* overwrites the first of those behind its last visible character
LEMMA TrimDoes ==
    ASSUME NEW b, NEW o, NEW s, Reads(b, o, s)
    PROVE  \E h, l : Solid(s, h, l) /\ Trimmed(b, o, s, str_trim(b, o), h, l)
  <1> DEFINE end   == End(b, o)
             first == {i \in o .. end - 1 : Visible(b[i])} \cup {end}
             head  == Min(first) - o
             moved == [i \in 1 .. Len(b) |->
                          IF i \in o .. end - head THEN b[i + head] ELSE b[i]]
             last  == {i \in o .. end - head - 1 : Visible(moved[i])} \cup {o - 1}
             r     == [moved EXCEPT ![Max(last) + 1] = NUL]
  <1>1. str_trim(b, o) = r
    BY Zenon DEF str_trim
  <1> SUFFICES ASSUME NEW n, n = Len(s), NEW N, N = Len(b)
               PROVE  \E h, l : Solid(s, h, l) /\ Trimmed(b, o, s, r, h, l)
    BY <1>1
  <1>2. /\ n \in Nat /\ N \in Nat /\ o \in Nat /\ o >= 1 /\ o + n <= N /\ end = o + n
        /\ b \in Seq(Letters) /\ s \in Seq(Letters)
    <2>1. end = o + n
      BY EndIs
    <2> QED BY <2>1 DEF Reads
  <1>3. \A i \in 1 .. n : b[(o - 1) + i] = s[i]
    BY DEF Reads
  <1>4. b[o + n] = NUL
    BY DEF Reads
  <1>5. ~Visible(" ") /\ ~Visible("\n") /\ NUL \in Letters
    BY DEF Visible, Letters
  <1> HIDE DEF end
  <1>6. first \in SUBSET Nat /\ end \in first
    BY <1>2
  <1>7. \A i \in first : i \in o .. o + n /\ (i # o + n => Visible(b[i]))
    BY <1>2
  <1>8. \A i \in o .. (o + n) - 1 : Visible(b[i]) => i \in first
    BY <1>2
  <1> HIDE DEF first
  <1>9. Min(first) \in first /\ \A i \in first : Min(first) <= i
    BY <1>6, Least
  <1>10. head \in 0 .. n
    BY <1>2, <1>7, <1>9
  <1>11. head # n => Visible(s[head + 1])
    <2> SUFFICES ASSUME head # n PROVE Visible(s[head + 1])
      OBVIOUS
    <2>1. Min(first) # o + n
      BY <1>2, <1>7, <1>9
    <2>2. Visible(b[Min(first)])
      BY <1>7, <1>9, <2>1
    <2>3. head + 1 \in 1 .. n /\ (o - 1) + (head + 1) = Min(first)
      BY <1>2, <1>7, <1>9, <1>10
    <2>4. b[Min(first)] = s[head + 1]
      <3> HIDE DEF head
      <3> QED BY <1>3, <2>3
    <2> QED BY <2>2, <2>4
  <1>12. \A i \in 1 .. n : i <= head => ~Visible(s[i])
    <2> TAKE i \in 1 .. n
    <2> HAVE i <= head
    <2>1. (o - 1) + i \in o .. (o + n) - 1 /\ (o - 1) + i < Min(first)
      BY <1>2, <1>7, <1>9
    <2>2. (o - 1) + i \notin first
      BY <1>2, <1>7, <1>9, <2>1
    <2> QED BY <1>3, <1>8, <2>1, <2>2
  <1> HIDE DEF head
  <1> SUFFICES ASSUME NEW h, h = head
               PROVE  \E l : Solid(s, h, l) /\ Trimmed(b, o, s, r, h, l)
    OBVIOUS
  <1>13. h \in Nat /\ h \in 0 .. n
    BY <1>10
  <1>14. /\ \A i \in 1 .. N : i \in o .. (o + n) - h => moved[i] = b[i + h]
         /\ \A i \in 1 .. N : i \notin o .. (o + n) - h => moved[i] = b[i]
         /\ DOMAIN moved = 1 .. N
    BY <1>2
  <1>15. moved \in [1 .. N -> Letters]
    <2>1. \A i \in 1 .. N : b[i] \in Letters
      BY <1>2
    <2>2. \A i \in 1 .. N : i \in o .. (o + n) - h => i + h \in 1 .. N
      BY <1>2, <1>13
    <2>3. \A i \in 1 .. N : moved[i] \in Letters
      <3> HIDE DEF moved
      <3> QED BY <1>14, <2>1, <2>2
    <2>4. moved = [i \in 1 .. N |-> moved[i]]
      BY <1>2
    <2> HIDE DEF moved
    <2> QED BY <2>3, <2>4
  <1> HIDE DEF moved
  <1>16. \A i \in 1 .. n - h : moved[(o - 1) + i] = s[h + i]
    <2> TAKE i \in 1 .. n - h
    <2>1. /\ (o - 1) + i \in 1 .. N /\ (o - 1) + i \in o .. (o + n) - h
          /\ h + i \in 1 .. n /\ ((o - 1) + i) + h = (o - 1) + (h + i)
      BY <1>2, <1>13
    <2>2. moved[(o - 1) + i] = b[((o - 1) + i) + h]
      BY <1>14, <2>1
    <2> QED BY <1>3, <2>1, <2>2
  <1>17. moved[o + (n - h)] = NUL
    <2>1. /\ o + (n - h) \in 1 .. N /\ o + (n - h) \in o .. (o + n) - h
          /\ (o + (n - h)) + h = o + n
      BY <1>2, <1>13
    <2> QED BY <1>4, <1>14, <2>1
  <1>18. /\ \A i \in last : (i \in o .. ((o + n) - h) - 1 /\ Visible(moved[i])) \/ i = o - 1
         /\ \A i \in o .. ((o + n) - h) - 1 : Visible(moved[i]) => i \in last
         /\ o - 1 \in last
    BY <1>2
  <1> HIDE DEF last
  <1>19. last \in SUBSET Nat /\ \A i \in last : i <= o + n
    BY <1>2, <1>13, <1>18
  <1>20. Max(last) \in last /\ \A i \in last : i <= Max(last)
    <2>1. o + n \in Nat /\ last # {}
      BY <1>2, <1>18
    <2> QED BY <1>19, <2>1, Greatest
  <1> DEFINE l == Max(last) - (o - 1)
  <1>21. l \in 0 .. n - h /\ Max(last) = (o - 1) + l
    <2>1. Max(last) \in Nat /\ o - 1 <= Max(last)
      BY <1>18, <1>19, <1>20
    <2>2. Max(last) \in o .. ((o + n) - h) - 1 \/ Max(last) = o - 1
      BY <1>18, <1>20
    <2> QED BY <1>2, <1>13, <2>1, <2>2
  <1>22. l # 0 => Visible(s[h + l])
    <2> SUFFICES ASSUME l # 0 PROVE Visible(s[h + l])
      OBVIOUS
    <2>1. Max(last) # o - 1
      BY <1>2, <1>21
    <2>2. Visible(moved[Max(last)])
      BY <1>18, <1>20, <2>1
    <2> HIDE DEF l
    <2>3. l \in 1 .. n - h
      BY <1>13, <1>21, <1>2
    <2> QED BY <1>16, <1>21, <2>2, <2>3
  <1>23. \A i \in 1 .. n - h : i > l => ~Visible(s[h + i])
    <2> TAKE i \in 1 .. n - h
    <2> HAVE i > l
    <2>1. (o - 1) + i \in o .. ((o + n) - h) - 1
      BY <1>2, <1>13
    <2>2. Max(last) \in Nat /\ ~((o - 1) + i <= Max(last))
      BY <1>2, <1>13, <1>19, <1>20, <1>21
    <2>3. (o - 1) + i \notin last
      BY <1>20, <2>2
    <2> QED BY <1>16, <1>18, <2>1, <2>3
  <1> HIDE DEF l
  <1>24. Solid(s, h, l)
    <2>1. \A i \in 1 .. n : i > h + l => ~Visible(s[i])
      <3> TAKE i \in 1 .. n
      <3> HAVE i > h + l
      <3>1. i - h \in 1 .. n - h /\ i - h > l /\ h + (i - h) = i
        BY <1>2, <1>13, <1>21
      <3> QED BY <1>23, <3>1
    <2>2. l = 0 => h = n
      <3> SUFFICES ASSUME l = 0, h # n PROVE FALSE
        OBVIOUS
      <3>1. 1 \in 1 .. n - h /\ 1 > l
        BY <1>2, <1>13
      <3>2. ~Visible(s[h + 1])
        BY <1>23, <3>1
      <3> QED BY <1>11, <3>2
    <2>3. l # 0 => h # n
      BY <1>2, <1>13, <1>21
    <2> QED BY <1>11, <1>12, <1>13, <1>21, <1>22, <2>1, <2>2, <2>3 DEF Solid
  <1>25. Trimmed(b, o, s, r, h, l)
    <2>1. o + l \in 1 .. N /\ Max(last) + 1 = o + l
      BY <1>2, <1>13, <1>21
    <2>2. r = [moved EXCEPT ![o + l] = NUL]
      BY <2>1
    <2> HIDE DEF r
    <2>3. r \in [1 .. N -> Letters]
      BY <1>5, <1>15, <2>2
    <2>4. r \in Seq(Letters) /\ Len(r) = N
      BY <1>2, <2>3
    <2>5. /\ r[o + l] = NUL
          /\ \A i \in 1 .. N : i # o + l => r[i] = moved[i]
      BY <1>15, <2>1, <2>2
    <2>6. \A i \in 1 .. n - h : i # l + 1 => r[(o - 1) + i] = s[h + i]
      <3> TAKE i \in 1 .. n - h
      <3> HAVE i # l + 1
      <3>1. (o - 1) + i \in 1 .. N /\ (o - 1) + i # o + l
        BY <1>2, <1>13, <1>21
      <3> QED BY <1>16, <2>5, <3>1
    <2>7. r[o + (n - h)] = NUL
      <3>1. o + (n - h) \in 1 .. N
        BY <1>2, <1>13
      <3> QED BY <1>17, <2>5, <3>1
    <2>8. \A i \in 1 .. N : i < o \/ i > o + n => r[i] = b[i]
      <3> TAKE i \in 1 .. N
      <3> HAVE i < o \/ i > o + n
      <3>1. i # o + l /\ i \notin o .. (o + n) - h
        BY <1>2, <1>13, <1>21
      <3> QED BY <1>14, <2>5, <3>1
    <2> QED BY <2>4, <2>5, <2>6, <2>7, <2>8 DEF Trimmed
  <1> QED BY <1>24, <1>25

\* After trimming, the stripped string is read, and what is around the old one stays
LEMMA TrimReads ==
    ASSUME NEW b, NEW o, NEW s, Reads(b, o, s)
    PROVE  /\ Reads(str_trim(b, o), o, Conf!Stripped(s))
           /\ Conf!Stripped(s) \in Seq(Letters) /\ Len(Conf!Stripped(s)) <= Len(s)
           /\ Len(str_trim(b, o)) = Len(b)
           /\ \A i \in 1 .. Len(b) : i < o \/ i > o + Len(s) => str_trim(b, o)[i] = b[i]
  <1> SUFFICES ASSUME NEW c, c = str_trim(b, o), NEW t, t = Conf!Stripped(s),
                      NEW n, n = Len(s), NEW N, N = Len(b)
               PROVE  /\ Reads(c, o, t) /\ t \in Seq(Letters) /\ Len(t) <= n /\ Len(c) = N
                      /\ \A i \in 1 .. N : i < o \/ i > o + n => c[i] = b[i]
    OBVIOUS
  <1>1. PICK h, l : Solid(s, h, l) /\ Trimmed(b, o, s, c, h, l)
    BY TrimDoes
  <1>2. /\ s \in Seq(Letters) /\ n \in Nat /\ N \in Nat /\ o \in Nat /\ o >= 1 /\ o + n <= N
        /\ h \in Nat /\ l \in Nat /\ h + l <= n
    BY <1>1 DEF Reads, Solid
  <1>3. \A i \in 1 .. n : s[i] # NUL
    BY DEF Reads
  <1>4. t = SubSeq(s, h + 1, h + l)
    BY <1>1, <1>2, StrippedIs
  <1>5. t \in Seq(Letters) /\ Len(t) = l /\ \A i \in 1 .. l : t[i] = s[h + i]
    <2>1. h + 1 \in 1 .. Len(s) + 1 /\ h + l \in (h + 1) - 1 .. Len(s)
      BY <1>2
    <2>2. ((h + l) - (h + 1)) + 1 = l /\ (h + 1) - 1 = h
      BY <1>2
    <2> QED BY <1>2, <1>4, <2>1, <2>2, Part
  <1>6. \A i \in 1 .. l : c[(o - 1) + i] = t[i] /\ t[i] # NUL
    <2> TAKE i \in 1 .. l
    <2>1. i \in 1 .. n - h /\ i # l + 1 /\ h + i \in 1 .. n
      BY <1>2
    <2>2. c[(o - 1) + i] = s[h + i]
      BY <1>1, <2>1 DEF Trimmed
    <2> QED BY <1>3, <1>5, <2>1, <2>2
  <1>7. c \in Seq(Letters) /\ Len(c) = N /\ c[o + l] = NUL
    BY <1>1 DEF Trimmed
  <1>8. o \in 1 .. N /\ o + l <= N
    BY <1>2
  <1>9. Reads(c, o, t)
    BY <1>5, <1>6, <1>7, <1>8 DEF Reads
  <1>10. \A i \in 1 .. N : i < o \/ i > o + n => c[i] = b[i]
    BY <1>1 DEF Trimmed
  <1> QED BY <1>2, <1>5, <1>7, <1>9, <1>10

\* From i on there are blanks up to a zero
Vacant(b, i) ==
    \E e \in i .. Len(b) : b[e] = NUL /\ \A j \in i .. e - 1 : ~Visible(b[j])

\* When a blank at the end of a string goes, what is left behind the new end is vacant
LEMMA TrimLeaves ==
    ASSUME NEW b, NEW o, NEW s, Reads(b, o, s), s # <<>>, ~Visible(s[Len(s)]),
           Conf!Stripped(s) # <<>>
    PROVE  Vacant(str_trim(b, o), o + Len(Conf!Stripped(s)) + 1)
  <1> SUFFICES ASSUME NEW c, c = str_trim(b, o), NEW t, t = Conf!Stripped(s),
                      NEW n, n = Len(s), NEW N, N = Len(b)
               PROVE  Vacant(c, o + Len(t) + 1)
    OBVIOUS
  <1>1. PICK h, l : Solid(s, h, l) /\ Trimmed(b, o, s, c, h, l)
    BY TrimDoes
  <1>2. /\ s \in Seq(Letters) /\ n \in Nat /\ N \in Nat /\ o \in Nat /\ o >= 1 /\ o + n <= N
        /\ h \in Nat /\ l \in Nat /\ h + l <= n
    BY <1>1 DEF Reads, Solid
  <1>3. t = SubSeq(s, h + 1, h + l)
    BY <1>1, <1>2, StrippedIs
  <1>4. t \in Seq(Letters) /\ Len(t) = l
    <2>1. h + 1 \in 1 .. Len(s) + 1 /\ h + l \in (h + 1) - 1 .. Len(s)
      BY <1>2
    <2>2. ((h + l) - (h + 1)) + 1 = l
      BY <1>2
    <2> QED BY <1>2, <1>3, <2>1, <2>2, Part
  <1>5. l # 0
    BY <1>4
  <1>6. h + l # n
    BY <1>1, <1>2, <1>5 DEF Solid
  <1> DEFINE e == o + (n - h)
  <1>7. e \in o + l + 1 .. Len(c) /\ c[e] = NUL
    <2>1. Len(c) = N /\ c[e] = NUL
      BY <1>1 DEF Trimmed
    <2> QED BY <1>2, <1>6, <2>1
  <1>8. ASSUME NEW j \in o + l + 1 .. e - 1 PROVE ~Visible(c[j])
    <2> DEFINE i == j - (o - 1)
    <2>1. i \in 1 .. n - h /\ i # l + 1 /\ (o - 1) + i = j /\ h + i \in 1 .. n /\ h + i > h + l
      BY <1>2
    <2> HIDE DEF i
    <2>2. c[(o - 1) + i] = s[h + i]
      BY <1>1, <2>1 DEF Trimmed
    <2>3. ~Visible(s[h + i])
      BY <1>1, <2>1 DEF Solid
    <2> QED BY <2>1, <2>2, <2>3
  <1> HIDE DEF e
  <1> QED BY <1>4, <1>7, <1>8 DEF Vacant

\* A string stays if nothing of it changes
LEMMA StillReads ==
    ASSUME NEW b, NEW o, NEW s, Reads(b, o, s), NEW c \in Seq(Letters), Len(c) = Len(b),
           \A i \in 1 .. Len(b) : i >= o /\ i <= o + Len(s) => c[i] = b[i]
    PROVE  Reads(c, o, s)
  <1>1. /\ Len(s) \in Nat /\ Len(b) \in Nat /\ o \in Nat /\ o >= 1 /\ o + Len(s) <= Len(b)
        /\ s \in Seq(Letters)
    BY DEF Reads
  <1>2. ASSUME NEW i \in 1 .. Len(s) PROVE c[(o - 1) + i] = s[i] /\ s[i] # NUL
    <2>1. (o - 1) + i \in 1 .. Len(b) /\ (o - 1) + i >= o /\ (o - 1) + i <= o + Len(s)
      BY <1>1
    <2>2. b[(o - 1) + i] = s[i] /\ s[i] # NUL
      BY DEF Reads
    <2> QED BY <2>1, <2>2
  <1>3. c[o + Len(s)] = NUL
    <2>1. o + Len(s) \in 1 .. Len(b) /\ o + Len(s) >= o
      BY <1>1
    <2> QED BY <2>1 DEF Reads
  <1>4. o \in 1 .. Len(c)
    BY <1>1
  <1> QED BY <1>1, <1>2, <1>3, <1>4 DEF Reads

\* A zero in place of a character makes two strings of one
LEMMA Cuts ==
    ASSUME NEW b, NEW o, NEW s, Reads(b, o, s), NEW k \in 1 .. Len(s),
           NEW p, p = (o - 1) + k
    PROVE  /\ [b EXCEPT ![p] = NUL] \in Seq(Letters) /\ Len([b EXCEPT ![p] = NUL]) = Len(b)
           /\ p \in 1 .. Len(b)
           /\ \A i \in 1 .. Len(b) : i # p => [b EXCEPT ![p] = NUL][i] = b[i]
           /\ Reads([b EXCEPT ![p] = NUL], o, SubSeq(s, 1, k - 1))
           /\ Reads([b EXCEPT ![p] = NUL], p + 1, SubSeq(s, k + 1, Len(s)))
  <1> DEFINE c == [b EXCEPT ![p] = NUL]
             t == SubSeq(s, 1, k - 1)
             u == SubSeq(s, k + 1, Len(s))
  <1> SUFFICES ASSUME NEW n, n = Len(s), NEW N, N = Len(b)
               PROVE  /\ c \in Seq(Letters) /\ Len(c) = N /\ p \in 1 .. N
                      /\ \A i \in 1 .. N : i # p => c[i] = b[i]
                      /\ Reads(c, o, t) /\ Reads(c, p + 1, u)
    OBVIOUS
  <1>1. /\ s \in Seq(Letters) /\ b \in Seq(Letters) /\ n \in Nat /\ N \in Nat
        /\ o \in Nat /\ o >= 1 /\ o + n <= N /\ k \in 1 .. n
    BY DEF Reads
  <1>2. p \in 1 .. N /\ p \in Nat
    BY <1>1
  <1>3. NUL \in Letters
    BY DEF Letters
  <1>4. c \in Seq(Letters) /\ Len(c) = N
    BY <1>1, <1>2, <1>3
  <1>5. c[p] = NUL /\ \A i \in 1 .. N : i # p => c[i] = b[i]
    BY <1>1, <1>2
  <1> HIDE DEF c
  <1>6. t \in Seq(Letters) /\ Len(t) = k - 1 /\ \A i \in 1 .. k - 1 : t[i] = s[i]
    <2>1. 1 \in 1 .. Len(s) + 1 /\ k - 1 \in 1 - 1 .. Len(s) /\ ((k - 1) - 1) + 1 = k - 1
      BY <1>1
    <2>2. \A i \in 1 .. k - 1 : (1 - 1) + i = i
      BY <1>1
    <2> QED BY <1>1, <2>1, <2>2, Part
  <1>7. u \in Seq(Letters) /\ Len(u) = n - k /\ \A i \in 1 .. n - k : u[i] = s[k + i]
    <2>1. /\ k + 1 \in 1 .. Len(s) + 1 /\ Len(s) \in (k + 1) - 1 .. Len(s)
          /\ (Len(s) - (k + 1)) + 1 = n - k /\ (k + 1) - 1 = k
      BY <1>1
    <2> QED BY <1>1, <2>1, Part
  <1> HIDE DEF t, u
  <1>8. \A i \in 1 .. n : b[(o - 1) + i] = s[i] /\ s[i] # NUL
    BY DEF Reads
  <1>9. Reads(c, o, t)
    <2>1. \A i \in 1 .. k - 1 : c[(o - 1) + i] = t[i] /\ t[i] # NUL
      <3> TAKE i \in 1 .. k - 1
      <3>1. (o - 1) + i \in 1 .. N /\ (o - 1) + i # p /\ i \in 1 .. n
        BY <1>1
      <3> QED BY <1>5, <1>6, <1>8, <3>1
    <2>2. o \in 1 .. N /\ o + (k - 1) <= N /\ o + (k - 1) = p
      BY <1>1
    <2> QED BY <1>4, <1>5, <1>6, <2>1, <2>2 DEF Reads
  <1>10. Reads(c, p + 1, u)
    <2>1. \A i \in 1 .. n - k : c[((p + 1) - 1) + i] = u[i] /\ u[i] # NUL
      <3> TAKE i \in 1 .. n - k
      <3>1. /\ ((p + 1) - 1) + i \in 1 .. N /\ ((p + 1) - 1) + i # p /\ k + i \in 1 .. n
            /\ ((p + 1) - 1) + i = (o - 1) + (k + i)
        BY <1>1
      <3> QED BY <1>5, <1>7, <1>8, <3>1
    <2>2. /\ p + 1 \in 1 .. N /\ (p + 1) + (n - k) <= N /\ (p + 1) + (n - k) # p
          /\ (p + 1) + (n - k) = o + n /\ o + n \in 1 .. N
      BY <1>1
    <2>3. c[o + n] = NUL
      BY <1>5, <2>2 DEF Reads
    <2> QED BY <1>4, <1>7, <2>1, <2>2, <2>3 DEF Reads
  <1> QED BY <1>2, <1>4, <1>5, <1>9, <1>10

-----------------------------------------------------------------------------
(* What the characters of a value mean *)

\* The modes of a value follow one from the other
LEMMA ModesFollow ==
    ASSUME NEW v \in Seq(Letters)
    PROVE  /\ Conf!Modes(v)[0] = "plain"
           /\ \A i \in 1 .. Len(v) : Conf!Modes(v)[i] = Conf!Mode(v, Conf!Modes(v)[i - 1], i)
  <1> SUFFICES ASSUME NEW n, n = Len(v)
               PROVE  /\ Conf!Modes(v)[0] = "plain"
                      /\ \A i \in 1 .. n :
                             Conf!Modes(v)[i] = Conf!Mode(v, Conf!Modes(v)[i - 1], i)
    OBVIOUS
  <1> DEFINE M == {m \in 0 .. n : \E f : f =
                     [i \in 0 .. m |-> IF i = 0 THEN "plain" ELSE Conf!Mode(v, f[i - 1], i)]}
  <1>1. n \in Nat
    OBVIOUS
  <1>2. 0 \in M
    <2> DEFINE f == [i \in 0 .. 0 |-> "plain"]
    <2>1. \A i \in 0 .. 0 : i = 0
      OBVIOUS
    <2>2. f = [i \in 0 .. 0 |-> IF i = 0 THEN "plain" ELSE Conf!Mode(v, f[i - 1], i)]
      BY <2>1, Zenon
    <2>3. \E h : h = [i \in 0 .. 0 |-> IF i = 0 THEN "plain" ELSE Conf!Mode(v, h[i - 1], i)]
      BY <2>2, Zenon
    <2>4. 0 \in 0 .. n
      BY <1>1
    <2> QED BY <2>3, <2>4, Zenon
  <1>3. \A m \in M : m \in 0 .. n
    BY Zenon
  <1>4. PICK m \in M : \A k \in M : k <= m
    <2> HIDE DEF M
    <2>1. M \in SUBSET Nat /\ M # {} /\ \A k \in M : k <= n
      BY <1>1, <1>2, <1>3
    <2> QED BY <1>1, <2>1, Greatest
  <1>5. m \in 0 .. n
    BY <1>3
  <1>6. PICK f : f = [i \in 0 .. m |-> IF i = 0 THEN "plain" ELSE Conf!Mode(v, f[i - 1], i)]
    BY Zenon
  <1>7. m = n
    <2> SUFFICES ASSUME m # n PROVE FALSE
      OBVIOUS
    <2> DEFINE l == m + 1
    <2>1. l \in 0 .. n /\ l \in Nat /\ ~(l <= m)
      BY <1>1, <1>5
    <2> DEFINE g == [i \in 0 .. l |-> IF i = l THEN Conf!Mode(v, f[m], l) ELSE f[i]]
    <2>2. \A i \in 0 .. m : f[i] = IF i = 0 THEN "plain" ELSE Conf!Mode(v, f[i - 1], i)
      BY <1>6, Zenon
    <2>3. \A i \in 0 .. l : i = l \/ (i \in 0 .. m /\ i # l)
      BY <1>5
    <2>4. \A i \in 0 .. l : i # 0 => i - 1 \in 0 .. l /\ i - 1 # l /\ (i = l => i - 1 = m)
      BY <1>5
    <2>5. \A i \in 0 .. l : i # 0 => g[i - 1] = f[i - 1]
      BY <2>4, Zenon
    <2>6. l # 0
      BY <1>5
    <2>7. \A i \in 0 .. l :
              (IF i = l THEN Conf!Mode(v, f[m], l) ELSE f[i])
                  = IF i = 0 THEN "plain" ELSE Conf!Mode(v, g[i - 1], i)
      <3> HIDE DEF l, g
      <3> TAKE i \in 0 .. l
      <3>1. CASE i = l
        <4>1. g[i - 1] = f[m]
          BY <2>4, <2>5, <2>6, <3>1
        <4> QED BY <2>6, <3>1, <4>1, Zenon
      <3>2. CASE i # l
        <4>1. i \in 0 .. m
          BY <2>3, <3>2
        <4>2. f[i] = IF i = 0 THEN "plain" ELSE Conf!Mode(v, f[i - 1], i)
          BY <2>2, <4>1, Zenon
        <4>3. i # 0 => g[i - 1] = f[i - 1]
          BY <2>5
        <4> QED BY <3>2, <4>2, <4>3, Zenon
      <3> QED BY <3>1, <3>2
    <2>8. g = [i \in 0 .. l |-> IF i = 0 THEN "plain" ELSE Conf!Mode(v, g[i - 1], i)]
      <3> HIDE DEF l
      <3> QED BY <2>7, Zenon
    <2>9. l \in M
      <3>1. \E h : h = [i \in 0 .. l |-> IF i = 0 THEN "plain" ELSE Conf!Mode(v, h[i - 1], i)]
        <4> HIDE DEF g, l
        <4> QED BY <2>8, Zenon
      <3> HIDE DEF l
      <3> QED BY <3>1, <2>1, Zenon
    <2> QED BY <1>4, <2>1, <2>9
  <1>8. \E h : h = [i \in 0 .. Len(v) |->
                      IF i = 0 THEN "plain" ELSE Conf!Mode(v, h[i - 1], i)]
    BY <1>6, <1>7, Zenon
  <1>9. Conf!Modes(v) = [i \in 0 .. Len(v) |->
             IF i = 0 THEN "plain" ELSE Conf!Mode(v, Conf!Modes(v)[i - 1], i)]
    BY <1>8, Zenon DEF Conf!Modes
  <1>10. \A i \in 0 .. n :
            Conf!Modes(v)[i] = IF i = 0 THEN "plain" ELSE Conf!Mode(v, Conf!Modes(v)[i - 1], i)
    BY <1>9, Zenon
  <1>11. 0 \in 0 .. n /\ \A i \in 1 .. n : i \in 0 .. n /\ i # 0
    BY <1>1
  <1> QED BY <1>10, <1>11

\* Where the first comment of a value begins, or the place after its end
Comment(v) == Min({i \in 1 .. Len(v) : Conf!Modes(v)[i] = "comment"} \cup {Len(v) + 1})

\* A value without its comment
LEMMA UncommentedIs ==
    ASSUME NEW v
    PROVE  Conf!Uncommented(v) = SubSeq(v, 1, Comment(v) - 1)
BY Zenon DEF Conf!Uncommented, Conf!Min, Min, Comment

\* What is in a comment stays so: where a character is plain, there was none before
LEMMA PlainBefore ==
    ASSUME NEW v \in Seq(Letters), NEW k \in 1 .. Len(v) + 1,
           Conf!Modes(v)[k - 1] # "comment"
    PROVE  \A i \in 1 .. k - 1 : Conf!Modes(v)[i] # "comment"
  <1> DEFINE S == {i \in 1 .. k - 1 : Conf!Modes(v)[i] = "comment"}
  <1>1. Len(v) \in Nat
    OBVIOUS
  <1> SUFFICES ASSUME S # {} PROVE FALSE
    OBVIOUS
  <1>2. S \in SUBSET Nat /\ k \in Nat /\ \A i \in S : i <= k
    BY <1>1
  <1>3. PICK m \in S : \A i \in S : i <= m
    <2> HIDE DEF S
    <2> QED BY <1>2, Greatest
  <1>4. m \in 1 .. k - 1 /\ Conf!Modes(v)[m] = "comment"
    OBVIOUS
  <1>5. m # k - 1
    BY <1>4
  <1>6. m + 1 \in 1 .. k - 1 /\ m + 1 \in 1 .. Len(v) /\ (m + 1) - 1 = m /\ ~(m + 1 <= m)
    BY <1>1, <1>4, <1>5
  <1>7. Conf!Modes(v)[m + 1] = "comment"
    <2>1. Conf!Modes(v)[m + 1] = Conf!Mode(v, Conf!Modes(v)[m], m + 1)
      BY <1>6, ModesFollow
    <2> QED BY <1>4, <2>1 DEF Conf!Mode, Conf!Quotes
  <1>8. m + 1 \in S
    BY <1>6, <1>7
  <1> QED BY <1>3, <1>6, <1>8

\* The first comment is where the modes first say so
LEMMA CommentIs ==
    ASSUME NEW v \in Seq(Letters), NEW k \in 1 .. Len(v) + 1,
           Conf!Modes(v)[k - 1] # "comment",
           k <= Len(v) => Conf!Modes(v)[k] = "comment"
    PROVE  Comment(v) = k
  <1> DEFINE S == {i \in 1 .. Len(v) : Conf!Modes(v)[i] = "comment"} \cup {Len(v) + 1}
  <1>1. Len(v) \in Nat
    OBVIOUS
  <1>2. S \in SUBSET Nat /\ k \in S
    BY <1>1
  <1>3. \A i \in S : k <= i
    <2> TAKE i \in S
    <2>1. i \in Nat /\ k \in Nat /\ (i \in 1 .. k - 1 => i <= Len(v))
      BY <1>1, <1>2
    <2>2. i \notin 1 .. k - 1
      BY <2>1, PlainBefore
    <2>3. i >= 1
      BY <1>1
    <2> QED BY <2>1, <2>2, <2>3
  <1>4. Comment(v) = Min(S)
    BY Zenon DEF Comment
  <1> HIDE DEF S
  <1> QED BY <1>2, <1>3, <1>4, LeastIs

\* The first comment is in the value or right behind it
LEMMA CommentPlace ==
    ASSUME NEW v \in Seq(Letters)
    PROVE  Comment(v) \in 1 .. Len(v) + 1
  <1> DEFINE S == {i \in 1 .. Len(v) : Conf!Modes(v)[i] = "comment"} \cup {Len(v) + 1}
  <1>1. S \in SUBSET Nat /\ S # {} /\ \A i \in S : i \in 1 .. Len(v) + 1
    OBVIOUS
  <1>2. Comment(v) = Min(S)
    BY Zenon DEF Comment
  <1> HIDE DEF S
  <1> QED BY <1>1, <1>2, Least

\* A string in marks has the mode of its mark up to the mark that closes it
LEMMA Quoted ==
    ASSUME NEW v \in Seq(Letters), NEW i \in 1 .. Len(v), NEW j \in i + 1 .. Len(v),
           Conf!Modes(v)[i - 1] = "plain", v[i] \in Conf!Quotes, v[j] = v[i],
           \A k \in i + 1 .. j - 1 : v[k] # v[i]
    PROVE  Conf!Modes(v)[j] = "plain"
  <1> DEFINE M == Conf!Modes(v)
             S == {k \in i .. j - 1 : M[k] # v[i]}
  <1>1. Len(v) \in Nat /\ i \in Nat /\ j \in Nat /\ i < j
    OBVIOUS
  <1>2. \A k \in 1 .. Len(v) : M[k] = Conf!Mode(v, M[k - 1], k)
    BY ModesFollow
  <1> HIDE DEF M
  <1>3. M[i - 1] = "plain"
    BY DEF M
  <1>4. M[i] = v[i]
    <2>1. M[i] = Conf!Plainly(v, i)
      BY <1>2, <1>3 DEF Conf!Mode, Conf!Quotes
    <2>2. v[i] # "\\" /\ v[i] # ";"
      BY DEF Conf!Quotes
    <2>3. \E k \in i + 1 .. Len(v) : v[k] = v[i]
      OBVIOUS
    <2> QED BY <2>1, <2>2, <2>3 DEF Conf!Plainly
  <1>5. ASSUME NEW k \in i + 1 .. j, M[k - 1] = v[i]
        PROVE  M[k] = IF v[k] = v[i] THEN "plain" ELSE v[i]
    <2>1. M[k] = Conf!Mode(v, v[i], k)
      <3>1. k \in 1 .. Len(v)
        BY <1>1
      <3> QED BY <1>2, <1>5, <3>1
    <2> QED BY <2>1 DEF Conf!Mode, Conf!Quotes
  <1>6. S = {}
    <2> SUFFICES ASSUME S # {} PROVE FALSE
      OBVIOUS
    <2>1. S \in SUBSET Nat
      BY <1>1
    <2>2. PICK m \in S : \A k \in S : m <= k
      <3> HIDE DEF S
      <3> QED BY <2>1, Least
    <2>3. m \in i .. j - 1 /\ M[m] # v[i]
      OBVIOUS
    <2>4. m # i
      BY <1>4, <2>3
    <2>5. m - 1 \in i .. j - 1 /\ m \in i + 1 .. j /\ ~(m <= m - 1) /\ m \in i + 1 .. j - 1
      BY <1>1, <2>3, <2>4
    <2>6. M[m - 1] = v[i]
      BY <2>2, <2>5
    <2> QED BY <1>5, <2>3, <2>5, <2>6
  <1>7. j - 1 \in i .. j - 1 /\ j \in i + 1 .. j
    BY <1>1
  <1>8. M[j - 1] = v[i]
    BY <1>6, <1>7
  <1>9. M[j] = "plain"
    BY <1>5, <1>7, <1>8
  <1> QED BY <1>9 DEF M

\* The end of a string is a string
LEMMA TailReads ==
    ASSUME NEW b, NEW o, NEW s, Reads(b, o, s), NEW k \in 0 .. Len(s)
    PROVE  Reads(b, o + k, SubSeq(s, k + 1, Len(s)))
  <1> DEFINE u == SubSeq(s, k + 1, Len(s))
  <1> SUFFICES ASSUME NEW n, n = Len(s), NEW N, N = Len(b) PROVE Reads(b, o + k, u)
    OBVIOUS
  <1>1. /\ s \in Seq(Letters) /\ b \in Seq(Letters) /\ n \in Nat /\ N \in Nat
        /\ o \in Nat /\ o >= 1 /\ o + n <= N /\ k \in 0 .. n
    BY DEF Reads
  <1>2. u \in Seq(Letters) /\ Len(u) = n - k /\ \A i \in 1 .. n - k : u[i] = s[k + i]
    <2>1. /\ k + 1 \in 1 .. Len(s) + 1 /\ Len(s) \in (k + 1) - 1 .. Len(s)
          /\ (Len(s) - (k + 1)) + 1 = n - k /\ (k + 1) - 1 = k
      BY <1>1
    <2> QED BY <1>1, <2>1, Part
  <1> HIDE DEF u
  <1>3. \A i \in 1 .. n - k : b[((o + k) - 1) + i] = u[i] /\ u[i] # NUL
    <2> TAKE i \in 1 .. n - k
    <2>1. k + i \in 1 .. n /\ ((o + k) - 1) + i = (o - 1) + (k + i)
      BY <1>1
    <2>2. b[(o - 1) + (k + i)] = s[k + i] /\ s[k + i] # NUL
      BY <2>1 DEF Reads
    <2> QED BY <1>2, <2>1, <2>2
  <1>4. o + k \in 1 .. N /\ (o + k) + (n - k) <= N /\ (o + k) + (n - k) = o + n
    BY <1>1
  <1>5. b[o + n] = NUL
    BY DEF Reads
  <1> QED BY <1>1, <1>2, <1>3, <1>4, <1>5 DEF Reads

\* In blanks up to a zero the scan finds nothing
LEMMA VacantScan ==
    ASSUME NEW b, NEW o \in Nat, Len(b) \in Nat, NEW g,
           \A i \in o .. Len(b) : g[i] = Goal(g, b, i),
           NEW i \in o .. Len(b), Vacant(b, i)
    PROVE  g[i].cut = None
  <1>1. PICK e \in i .. Len(b) : b[e] = NUL /\ \A j \in i .. e - 1 : ~Visible(b[j])
    BY DEF Vacant
  <1> DEFINE S == {j \in i .. e : g[j].cut # None}
  <1>2. i \in Nat /\ e \in Nat /\ i <= e /\ \A j \in i .. e : j \in o .. Len(b)
    OBVIOUS
  <1> SUFFICES ASSUME S # {} PROVE FALSE
    BY <1>2
  <1>3. S \in SUBSET Nat /\ \A j \in S : j <= e
    BY <1>2
  <1>4. PICK m \in S : \A j \in S : j <= m
    <2> HIDE DEF S
    <2> QED BY <1>2, <1>3, Greatest
  <1>5. m \in i .. e /\ m \in o .. Len(b) /\ g[m].cut # None
    BY <1>2
  <1>6. g[m] = Goal(g, b, m)
    BY <1>5
  <1>7. CASE b[m] = NUL
    <2>1. g[m] = [stop |-> m, cut |-> None]
      BY <1>6, <1>7 DEF Goal, NUL
    <2> QED BY <1>5, <2>1
  <1>8. CASE b[m] # NUL
    <2>1. m # e
      BY <1>1, <1>8
    <2>2. m \in i .. e - 1 /\ m + 1 \in i .. e /\ ~(m + 1 <= m)
      BY <1>2, <1>5, <2>1
    <2>3. b[m] \in {" ", "\n"}
      BY <1>1, <2>2 DEF Visible
    <2>4. Pair(b, m) = None
      BY <2>3 DEF Pair
    <2>5. g[m] = g[m + 1]
      BY <1>6, <2>3, <2>4 DEF Goal, NUL
    <2>6. m + 1 \in S
      BY <1>5, <2>2, <2>5
    <2> QED BY <1>4, <2>2, <2>6
  <1> QED BY <1>7, <1>8

\* The mark that closes a string in the buffer is the next one in the value
Paired(b, o, v, i) ==
    \/ /\ v[i] \notin Conf!Quotes \/ \A j \in i + 1 .. Len(v) : v[j] # v[i]
       /\ Pair(b, (o - 1) + i) = None
    \/ /\ v[i] \in Conf!Quotes
       /\ \E j \in i + 1 .. Len(v) :
              /\ v[j] = v[i] /\ (\A k \in i + 1 .. j - 1 : v[k] # v[i])
              /\ Pair(b, (o - 1) + i) = (o - 1) + j

\* Pair finds that mark in the buffer, or that there is none
LEMMA PairIs ==
    ASSUME NEW b, NEW o, NEW v, Reads(b, o, v), NEW i \in 1 .. Len(v)
    PROVE  Paired(b, o, v, i)
  <1> DEFINE u == SubSeq(v, i + 1, Len(v))
  <1> SUFFICES ASSUME NEW n, n = Len(v), NEW p, p = (o - 1) + i, NEW c, c = v[i]
               PROVE  \/ /\ c \notin Conf!Quotes \/ \A j \in i + 1 .. n : v[j] # c
                         /\ Pair(b, p) = None
                      \/ /\ c \in Conf!Quotes
                         /\ \E j \in i + 1 .. n :
                                /\ v[j] = c /\ (\A k \in i + 1 .. j - 1 : v[k] # c)
                                /\ Pair(b, p) = (o - 1) + j
    BY DEF Paired
  <1>1. v \in Seq(Letters) /\ n \in Nat /\ o \in Nat /\ o >= 1 /\ i \in 1 .. n /\ i \in Nat
    BY DEF Reads
  <1>2. b[p] = c
    BY DEF Reads
  <1>3. Pair(b, p) = IF c \in Conf!Quotes THEN strchr(b, p + 1, c) ELSE None
    BY <1>2 DEF Pair, Conf!Quotes
  <1>4. u \in Seq(Letters) /\ Len(u) = n - i /\ \A j \in 1 .. n - i : u[j] = v[i + j]
    <2>1. /\ i + 1 \in 1 .. Len(v) + 1 /\ Len(v) \in (i + 1) - 1 .. Len(v)
          /\ (Len(v) - (i + 1)) + 1 = n - i /\ (i + 1) - 1 = i
      BY <1>1
    <2> QED BY <1>1, <2>1, Part
  <1>5. Reads(b, o + i, u)
    BY <1>1, TailReads
  <1> HIDE DEF u
  <1>6. PICK q : q = Conf!First(u, {c})
    OBVIOUS
  <1>7. /\ q \in 1 .. (n - i) + 1 /\ (q <= n - i => u[q] = c)
        /\ \A j \in 1 .. n - i : j < q => u[j] # c
    BY <1>4, <1>6, FirstIs
  <1>8. strchr(b, o + i, c) = IF q <= n - i THEN ((o + i) - 1) + q ELSE None
    BY <1>4, <1>5, <1>6, StrchrIs
  <1>9. p + 1 = o + i
    BY <1>1
  <1>10. \A j \in i + 1 .. n : j - i \in 1 .. n - i /\ i + (j - i) = j
    BY <1>1
  <1>11. CASE c \notin Conf!Quotes
    BY <1>3, <1>11
  <1>12. CASE c \in Conf!Quotes /\ q <= n - i
    <2>1. i + q \in i + 1 .. n /\ ((o + i) - 1) + q = (o - 1) + (i + q)
      BY <1>1, <1>7, <1>12
    <2>2. v[i + q] = c
      BY <1>1, <1>4, <1>7, <1>12
    <2>3. ASSUME NEW k \in i + 1 .. (i + q) - 1 PROVE v[k] # c
      <3>1. k \in i + 1 .. n /\ k - i < q
        BY <1>1, <1>7, <1>12
      <3> QED BY <1>4, <1>7, <1>10, <3>1
    <2>4. Pair(b, p) = (o - 1) + (i + q)
      BY <1>3, <1>8, <1>9, <1>12, <2>1
    <2> QED BY <1>12, <2>1, <2>2, <2>3, <2>4
  <1>13. CASE c \in Conf!Quotes /\ ~(q <= n - i)
    <2>1. Pair(b, p) = None
      BY <1>3, <1>8, <1>9, <1>13
    <2>2. ASSUME NEW j \in i + 1 .. n PROVE v[j] # c
      <3>1. j - i < q
        BY <1>1, <1>7, <1>13
      <3> QED BY <1>4, <1>7, <1>10, <3>1
    <2> QED BY <2>1, <2>2
  <1> QED BY <1>11, <1>12, <1>13

\* The scan cuts a value where its first comment begins
LEMMA ScanCuts ==
    ASSUME NEW n, NEW b, Lined(b, n), NEW o \in 1 .. n + 2, NEW v, Reads(b, o, v),
           v # <<>> => Vacant(b, o + Len(v) + 1)
    PROVE  ini_value_analyze(b, o).cut
               = IF Comment(v) <= Len(v) THEN (o - 1) + Comment(v) ELSE None
  <1> DEFINE M == Conf!Modes(v)
  <1> SUFFICES ASSUME NEW l, l = Len(v),
                      NEW r, r = IF Comment(v) <= l THEN (o - 1) + Comment(v) ELSE None
               PROVE  ini_value_analyze(b, o).cut = r
    OBVIOUS
  <1>1. PICK g : /\ \A i \in o .. Len(b) : g[i] = Goal(g, b, i)
                 /\ ini_value_analyze(b, o) = g[o]
    BY ScanRuns
  <1>2. /\ v \in Seq(Letters) /\ l \in Nat /\ Len(b) \in Nat /\ o \in Nat /\ o >= 1
        /\ o + l <= Len(b)
    BY DEF Reads
  <1>3. \A i \in 1 .. l : b[(o - 1) + i] = v[i] /\ v[i] # NUL
    BY DEF Reads
  <1>4. b[o + l] = NUL
    BY DEF Reads
  <1>5. M[0] = "plain" /\ \A i \in 1 .. l : M[i] = Conf!Mode(v, M[i - 1], i)
    BY <1>2, ModesFollow
  <1>6. ASSUME NEW i \in 1 .. l + 1, M[i - 1] # "comment", i <= l => M[i] = "comment"
        PROVE  Comment(v) = i
    BY <1>2, <1>6, CommentIs
  <1> HIDE DEF M
  <1> DEFINE S == {i \in 1 .. l + 1 : M[i - 1] = "plain" /\ g[(o - 1) + i].cut # r}
  <1>7. S = {}
    <2> SUFFICES ASSUME S # {} PROVE FALSE
      OBVIOUS
    <2>1. S \in SUBSET Nat /\ l + 1 \in Nat /\ \A i \in S : i <= l + 1
      BY <1>2
    <2>2. PICK m \in S : \A i \in S : i <= m
      <3> HIDE DEF S
      <3> QED BY <2>1, Greatest
    <2>3. m \in 1 .. l + 1 /\ M[m - 1] = "plain" /\ g[(o - 1) + m].cut # r
      OBVIOUS
    <2>4. ASSUME NEW j \in m + 1 .. l + 1, M[j - 1] = "plain"
          PROVE  g[(o - 1) + j].cut = r
      <3>1. j \in 1 .. l + 1 /\ ~(j <= m)
        BY <1>2, <2>3
      <3>2. j \notin S
        BY <2>2, <3>1
      <3> QED BY <2>4, <3>1, <3>2
    <2> HIDE DEF S
    <2>5. (o - 1) + m \in o .. Len(b)
      BY <1>2, <2>3
    <2> DEFINE p == (o - 1) + m
    <2>6. g[p] = Goal(g, b, p)
      BY <1>1, <2>5
    <2>7. CASE m = l + 1
      <3>1. b[p] = NUL
        <4>1. p = o + l
          BY <1>2, <2>7
        <4> QED BY <1>4, <4>1
      <3> HIDE DEF p
      <3>2. g[p] = [stop |-> p, cut |-> None]
        BY <2>6, <3>1 DEF Goal, NUL
      <3>3. Comment(v) = l + 1
        <4>1. ~(l + 1 <= l) /\ l + 1 \in 1 .. l + 1
          BY <1>2
        <4> QED BY <1>6, <2>3, <2>7, <4>1
      <3>4. r = None
        BY <1>2, <3>3
      <3> QED BY <2>3, <3>2, <3>4 DEF p
    <2>8. CASE m # l + 1
      <3>1. m \in 1 .. l /\ m <= l
        BY <1>2, <2>3, <2>8
      <3>2. b[p] = v[m] /\ v[m] # NUL
        BY <1>3, <3>1
      <3>3. M[m] = Conf!Plainly(v, m)
        BY <1>5, <2>3, <3>1 DEF Conf!Mode, Conf!Quotes
      <3>4. CASE v[m] = ";"
        <4>1. M[m] = "comment"
          BY <3>3, <3>4 DEF Conf!Plainly, Conf!Quotes
        <4>2. Comment(v) = m
          BY <1>6, <2>3, <4>1
        <4> HIDE DEF p
        <4>3. g[p] = [stop |-> p, cut |-> p]
          BY <2>6, <3>2, <3>4 DEF Goal, NUL
        <4>4. r = p
          BY <3>1, <4>2 DEF p
        <4> QED BY <2>3, <4>3, <4>4 DEF p
      <3>5. CASE v[m] = "\\"
        <4>1. M[m] = "escape"
          BY <3>3, <3>5 DEF Conf!Plainly, Conf!Quotes
        <4>2. g[p] = g[p + 2]
          <5> HIDE DEF p
          <5> QED BY <2>6, <3>2, <3>5 DEF Goal, NUL
        <4>3. CASE m = l
          <5>1. Comment(v) = l + 1
            <6>1. ~(l + 1 <= l) /\ l + 1 \in 1 .. l + 1 /\ (l + 1) - 1 = l
              BY <1>2
            <6> QED BY <1>6, <4>1, <4>3, <6>1
          <5>2. r = None
            BY <1>2, <5>1
          <5>3. Vacant(b, o + l + 1)
            BY <3>1
          <5>4. p + 2 = o + l + 1
            BY <1>2, <4>3
          <5>5. o + l + 1 \in o .. Len(b)
            <6>1. PICK e \in o + l + 1 .. Len(b) : TRUE
              BY <5>3 DEF Vacant
            <6> QED BY <1>2, <6>1
          <5>6. g[o + l + 1].cut = None
            BY <1>1, <1>2, <5>3, <5>5, VacantScan
          <5> QED BY <2>3, <4>2, <5>2, <5>4, <5>6
        <4>4. CASE m # l
          <5>1. /\ m + 1 \in 1 .. l /\ (m + 1) - 1 = m /\ m + 2 \in m + 1 .. l + 1
                /\ (m + 2) - 1 = m + 1 /\ p + 2 = (o - 1) + (m + 2)
            BY <1>2, <3>1, <4>4
          <5>2. M[m + 1] = Conf!Mode(v, "escape", m + 1)
            BY <1>5, <4>1, <5>1
          <5>3. M[m + 1] = "plain"
            BY <5>2 DEF Conf!Mode, Conf!Quotes
          <5>4. g[(o - 1) + (m + 2)].cut = r
            BY <2>4, <5>1, <5>3
          <5> QED BY <2>3, <4>2, <5>1, <5>4
        <4> QED BY <4>3, <4>4
      <3>6. CASE v[m] \notin {";", "\\"}
        <4>1. g[p] = IF Pair(b, p) # None THEN g[Pair(b, p) + 1] ELSE g[p + 1]
          <5> HIDE DEF p
          <5> QED BY <2>6, <3>2, <3>6 DEF Goal, NUL
        <4>2. CASE /\ v[m] \notin Conf!Quotes \/ \A j \in m + 1 .. l : v[j] # v[m]
                   /\ Pair(b, p) = None
          <5>1. M[m] = "plain"
            BY <3>3, <3>6, <4>2 DEF Conf!Plainly
          <5>2. m + 1 \in m + 1 .. l + 1 /\ (m + 1) - 1 = m /\ p + 1 = (o - 1) + (m + 1)
            BY <1>2, <3>1
          <5> QED BY <2>3, <2>4, <4>1, <4>2, <5>1, <5>2
        <4>3. ASSUME v[m] \in Conf!Quotes, NEW j \in m + 1 .. l, v[j] = v[m],
                     \A k \in m + 1 .. j - 1 : v[k] # v[m],
                     Pair(b, p) = (o - 1) + j
              PROVE  FALSE
          <5>1. M[j] = "plain"
            BY <1>2, <2>3, <3>1, <4>3, Quoted DEF M
          <5>2. /\ j + 1 \in m + 1 .. l + 1 /\ (j + 1) - 1 = j
                /\ ((o - 1) + j) + 1 = (o - 1) + (j + 1) /\ (o - 1) + j # None
            BY <1>2, <3>1 DEF None
          <5>3. g[p] = g[(o - 1) + (j + 1)]
            BY <4>1, <4>3, <5>2
          <5>4. g[(o - 1) + (j + 1)].cut = r
            BY <2>4, <5>1, <5>2
          <5> QED BY <2>3, <5>3, <5>4
        <4>4. \/ /\ v[m] \notin Conf!Quotes \/ \A j \in m + 1 .. l : v[j] # v[m]
                 /\ Pair(b, p) = None
              \/ /\ v[m] \in Conf!Quotes
                 /\ \E j \in m + 1 .. l :
                        /\ v[j] = v[m] /\ (\A k \in m + 1 .. j - 1 : v[k] # v[m])
                        /\ Pair(b, p) = (o - 1) + j
          <5>1. m \in 1 .. Len(v)
            BY <3>1
          <5>2. Paired(b, o, v, m)
            BY <5>1, PairIs
          <5> QED BY <5>2 DEF Paired
        <4> HIDE DEF p
        <4> QED BY <4>2, <4>3, <4>4
      <3> QED BY <3>4, <3>5, <3>6
    <2> QED BY <2>7, <2>8
  <1>8. 1 \in 1 .. l + 1 /\ 1 - 1 = 0 /\ (o - 1) + 1 = o
    BY <1>2
  <1>9. g[o].cut = r
    BY <1>5, <1>7, <1>8
  <1> QED BY <1>1, <1>9

-----------------------------------------------------------------------------
(* Lines *)

\* A newline at the end of a line is trimmed
LEMMA NewlineGoes ==
    ASSUME NEW l \in Seq(Letters)
    PROVE  /\ Append(l, "\n") \in Seq(Letters) /\ Len(Append(l, "\n")) = Len(l) + 1
           /\ Conf!Stripped(Append(l, "\n")) = Conf!Stripped(l)
  <1> SUFFICES ASSUME NEW a, a = Append(l, "\n"), NEW n, n = Len(l)
               PROVE  /\ a \in Seq(Letters) /\ Len(a) = n + 1
                      /\ Conf!Stripped(a) = Conf!Stripped(l)
    OBVIOUS
  <1> DEFINE S == {i \in 1 .. Len(l) : l[i] \notin Conf!Blanks}
             T == {i \in 1 .. Len(a) : a[i] \notin Conf!Blanks}
  <1>1. "\n" \in Letters
    BY DEF Letters
  <1>2. /\ a \in Seq(Letters) /\ n \in Nat /\ Len(a) = n + 1 /\ a[n + 1] = "\n"
        /\ \A i \in 1 .. n : a[i] = l[i]
    BY <1>1
  <1>3. S = T
    <2>1. "\n" \in Conf!Blanks
      BY DEF Conf!Blanks
    <2>2. \A i \in 1 .. n + 1 : i \in 1 .. n \/ i = n + 1
      BY <1>2
    <2>3. \A i \in 1 .. n : i \in 1 .. n + 1
      BY <1>2
    <2> QED BY <1>2, <2>1, <2>2, <2>3
  <1>4. /\ Conf!Stripped(l) = IF S = {} THEN <<>> ELSE SubSeq(l, Min(S), Max(S))
        /\ Conf!Stripped(a) = IF T = {} THEN <<>> ELSE SubSeq(a, Min(T), Max(T))
    BY Zenon DEF Conf!Stripped, Conf!Min, Conf!Max, Min, Max
  <1>5. S \in SUBSET Nat /\ \A i \in S : i \in 1 .. n
    BY <1>2
  <1> HIDE DEF S, T
  <1>6. ASSUME S # {} PROVE SubSeq(a, Min(S), Max(S)) = SubSeq(l, Min(S), Max(S))
    <2>1. Min(S) \in 1 .. n /\ \A i \in S : Min(S) <= i
      BY <1>5, <1>6, Least
    <2>2. Max(S) \in S /\ \A i \in S : i <= Max(S)
      <3>1. \A i \in S : i <= n
        BY <1>5
      <3> QED BY <1>2, <1>5, <1>6, <3>1, Greatest
    <2>3. Max(S) \in 1 .. n /\ Min(S) <= Max(S)
      BY <1>5, <2>1, <2>2
    <2> SUFFICES ASSUME NEW x \in 1 .. n, NEW y \in 1 .. n, x <= y
                 PROVE  SubSeq(a, x, y) = SubSeq(l, x, y)
      BY <2>1, <2>3
    <2>4. /\ x \in 1 .. Len(l) + 1 /\ y \in x - 1 .. Len(l)
          /\ x \in 1 .. Len(a) + 1 /\ y \in x - 1 .. Len(a)
          /\ \A i \in 1 .. (y - x) + 1 : (x - 1) + i \in 1 .. n
      BY <1>2
    <2>5. /\ SubSeq(l, x, y) \in Seq(Letters) /\ Len(SubSeq(l, x, y)) = (y - x) + 1
          /\ \A i \in 1 .. (y - x) + 1 : SubSeq(l, x, y)[i] = l[(x - 1) + i]
      BY <2>4, Part
    <2>6. /\ SubSeq(a, x, y) \in Seq(Letters) /\ Len(SubSeq(a, x, y)) = (y - x) + 1
          /\ \A i \in 1 .. (y - x) + 1 : SubSeq(a, x, y)[i] = a[(x - 1) + i]
      BY <1>2, <2>4, Part
    <2>7. \A i \in 1 .. (y - x) + 1 : SubSeq(a, x, y)[i] = SubSeq(l, x, y)[i]
      BY <1>2, <2>4, <2>5, <2>6
    <2> QED BY <2>5, <2>6, <2>7, SameLetters
  <1> QED BY <1>2, <1>3, <1>4, <1>6

\* A setting, and what else may be one that is no header
Assigns(s) ==
    /\ Conf!First(s, {"="}) \in 2 .. Len(s)
    /\ Conf!First(s, {"="}) < Conf!First(s, {";"})

\* The first place of a letter in a line
LEMMA InLine ==
    ASSUME NEW c, NEW s, Reads(c, 1, s), NEW x
    PROVE  /\ s \in Seq(Letters) /\ Len(s) \in Nat
           /\ Conf!First(s, {x}) \in 1 .. Len(s) + 1
           /\ Conf!First(s, {x}) <= Len(s) => s[Conf!First(s, {x})] = x
           /\ strchr(c, 1, x) = IF Conf!First(s, {x}) <= Len(s) THEN Conf!First(s, {x})
                                ELSE None
  <1>1. s \in Seq(Letters) /\ Len(s) \in Nat
    <2>1. s \in Seq(Letters)
      BY Zenon DEF Reads
    <2> QED BY <2>1
  <1> SUFFICES ASSUME NEW f, f = Conf!First(s, {x}), NEW n, n = Len(s)
               PROVE  /\ f \in 1 .. n + 1 /\ (f <= n => s[f] = x)
                      /\ strchr(c, 1, x) = IF f <= n THEN f ELSE None
    BY <1>1
  <1>2. f \in 1 .. Len(s) + 1 /\ (f <= Len(s) => s[f] \in {x})
    BY <1>1, FirstIs
  <1>3. strchr(c, 1, x) = IF f <= Len(s) THEN (1 - 1) + f ELSE None
    BY StrchrIs
  <1>4. (1 - 1) + f = f
    BY <1>1, <1>2
  <1> QED BY <1>2, <1>3, <1>4

\* The places x and y in a line of n letters, or None, where a and m are the first of two
Ranked(n, a, m, x, y) ==
    /\ x # None <=> a <= n
    /\ x # None /\ ~Before(y, x) <=> a <= n /\ a < m
    /\ a <= n => x = a
    /\ a \in 2 .. n <=> a <= n /\ a # 1

\* Comparing the places that strchr returns compares the places in the line
LEMMA Foremost ==
    ASSUME NEW n \in Nat, NEW a \in 1 .. n + 1, NEW m \in 1 .. n + 1, a <= n => a # m,
           NEW x, x = IF a <= n THEN a ELSE None, NEW y, y = IF m <= n THEN m ELSE None
    PROVE  Ranked(n, a, m, x, y)
BY DEF Ranked, Before, None

\* So it is for two letters of a line in the buffer
LEMMA FirstRanked ==
    ASSUME NEW c, NEW s, Reads(c, 1, s), NEW l, NEW k, l # k
    PROVE  Ranked(Len(s), Conf!First(s, {l}), Conf!First(s, {k}),
                  strchr(c, 1, l), strchr(c, 1, k))
  <1> SUFFICES ASSUME NEW n, n = Len(s), NEW a, a = Conf!First(s, {l}),
                      NEW m, m = Conf!First(s, {k}),
                      NEW x, x = strchr(c, 1, l), NEW y, y = strchr(c, 1, k)
               PROVE  Ranked(n, a, m, x, y)
    OBVIOUS
  <1>1. /\ n \in Nat /\ a \in 1 .. n + 1 /\ (a <= n => s[a] = l)
        /\ x = IF a <= n THEN a ELSE None
    BY InLine
  <1>2. m \in 1 .. n + 1 /\ (m <= n => s[m] = k) /\ y = IF m <= n THEN m ELSE None
    BY InLine
  <1>3. a <= n => a # m
    <2> SUFFICES ASSUME a <= n, a = m PROVE FALSE
      OBVIOUS
    <2>1. s[a] = l /\ s[a] = k
      BY <1>1, <1>2
    <2> QED BY <2>1
  <1> QED BY <1>1, <1>2, <1>3, Foremost

\* The load and the file agree on which lines have a key
LEMMA Assigned ==
    ASSUME NEW c, NEW s, Reads(c, 1, s)
    PROVE  /\ ini_line_is_keyval(c) <=> Assigns(s)
           /\ Assigns(s) => strchr(c, 1, "=") = Conf!First(s, {"="})
  <1> DEFINE a == Conf!First(s, {"="})
             x == strchr(c, 1, "=")
             y == strchr(c, 1, ";")
  <1>1. Ranked(Len(s), a, Conf!First(s, {";"}), x, y)
    <2>1. "=" # ";"
      OBVIOUS
    <2> QED BY <2>1, FirstRanked
  <1>2. ini_line_is_keyval(c) <=> x # None /\ x # 1 /\ ~Before(y, x)
    BY Zenon DEF ini_line_is_keyval
  <1>3. Assigns(s) <=> a \in 2 .. Len(s) /\ a < Conf!First(s, {";"})
    BY Zenon DEF Assigns
  <1> HIDE DEF a, x, y
  <1>4. ini_line_is_keyval(c) <=> Assigns(s)
    BY <1>1, <1>2, <1>3, Zenon DEF Ranked
  <1>5. Assigns(s) => x = a
    BY <1>1, <1>3, Zenon DEF Ranked
  <1> QED BY <1>4, <1>5 DEF a, x

\* They agree on which lines are headers, and where the name ends
LEMMA Headed ==
    ASSUME NEW c, NEW s, Reads(c, 1, s)
    PROVE  /\ ini_line_is_section(c) <=> Conf!IsHeader(s)
           /\ Conf!IsHeader(s) => /\ strchr(c, 1, "]") = Conf!First(s, {"]"})
                                  /\ Conf!First(s, {"]"}) \in 2 .. Len(s)
  <1> DEFINE a == Conf!First(s, {"]"})
             x == strchr(c, 1, "]")
             y == strchr(c, 1, ";")
  <1>1. Ranked(Len(s), a, Conf!First(s, {";"}), x, y)
    <2>1. "]" # ";"
      OBVIOUS
    <2> QED BY <2>1, FirstRanked
  <1>2. ini_line_is_section(c) <=> c[1] = "[" /\ x # None /\ ~Before(y, x)
    BY Zenon DEF ini_line_is_section
  <1>3. Conf!IsHeader(s)
            <=> s # <<>> /\ s[1] = "[" /\ a <= Len(s) /\ a < Conf!First(s, {";"})
    BY Zenon DEF Conf!IsHeader
  <1>4. c[1] = "[" <=> s # <<>> /\ s[1] = "["
    <2>1. /\ \A i \in 1 .. Len(s) : c[(1 - 1) + i] = s[i]
          /\ c[1 + Len(s)] = NUL /\ s \in Seq(Letters)
      BY Zenon DEF Reads
    <2>2. CASE s = <<>>
      <3>1. 1 + Len(s) = 1
        BY <2>2
      <3> QED BY <2>1, <2>2, <3>1 DEF NUL
    <2>3. CASE s # <<>>
      <3>1. 1 \in 1 .. Len(s) /\ (1 - 1) + 1 = 1
        BY <2>1, <2>3
      <3>2. c[(1 - 1) + 1] = s[1]
        BY <2>1, <3>1
      <3> QED BY <2>3, <3>1, <3>2
    <2> QED BY <2>2, <2>3
  <1>5. a <= Len(s) => s[a] = "]"
    BY InLine
  <1> HIDE DEF a, x, y
  <1>6. a <= Len(s) /\ s[1] = "[" => a # 1
    <2> SUFFICES ASSUME a <= Len(s), s[1] = "[", a = 1 PROVE FALSE
      OBVIOUS
    <2>1. s[1] = "]"
      BY <1>5
    <2> QED BY <2>1
  <1>7. ini_line_is_section(c) <=> Conf!IsHeader(s)
    BY <1>1, <1>2, <1>3, <1>4, Zenon DEF Ranked
  <1>8. Conf!IsHeader(s) => x = a /\ a \in 2 .. Len(s)
    BY <1>1, <1>3, <1>6, Zenon DEF Ranked
  <1> QED BY <1>7, <1>8 DEF a, x

\* The name between the marks of a header
LEMMA Named ==
    ASSUME NEW c, NEW s, Reads(c, 1, s), Conf!IsHeader(s)
    PROVE  SectionName(c) = Conf!Name(s)
  <1> DEFINE k == Conf!First(s, {"]"})
             d == [c EXCEPT ![k] = NUL]
             u == SubSeq(s, 1, k - 1)
             w == SubSeq(s, 2, k - 1)
  <1>1. s \in Seq(Letters) /\ Len(s) \in Nat
    BY DEF Reads
  <1>2. strchr(c, 1, "]") = k /\ k \in 2 .. Len(s)
    BY Headed
  <1>3. SectionName(c) = Str(str_trim(d, 2), 2)
    BY <1>2, Zenon DEF SectionName
  <1>4. Conf!Name(s) = Conf!Stripped(w)
    BY Zenon DEF Conf!Name
  <1> HIDE DEF k
  <1>5. k \in 1 .. Len(s) /\ k = (1 - 1) + k
    BY <1>2
  <1>6. Reads(d, 1, u)
    BY <1>5, Cuts
  <1>7. u \in Seq(Letters) /\ Len(u) = k - 1 /\ \A i \in 1 .. k - 1 : u[i] = s[i]
    <2>1. 1 \in 1 .. Len(s) + 1 /\ k - 1 \in 1 - 1 .. Len(s) /\ ((k - 1) - 1) + 1 = k - 1
      BY <1>1, <1>5
    <2>2. \A i \in 1 .. k - 1 : (1 - 1) + i = i
      BY <1>5
    <2> QED BY <1>1, <2>1, <2>2, Part
  <1>8. w \in Seq(Letters) /\ Len(w) = k - 2 /\ \A i \in 1 .. k - 2 : w[i] = s[1 + i]
    <2>1. /\ 2 \in 1 .. Len(s) + 1 /\ k - 1 \in 2 - 1 .. Len(s) /\ ((k - 1) - 2) + 1 = k - 2
          /\ 2 - 1 = 1
      BY <1>1, <1>2
    <2> QED BY <1>1, <2>1, Part
  <1> DEFINE x == SubSeq(u, 1 + 1, Len(u))
  <1>9. x \in Seq(Letters) /\ Len(x) = k - 2 /\ \A i \in 1 .. k - 2 : x[i] = u[1 + i]
    <2>1. /\ 1 + 1 \in 1 .. Len(u) + 1 /\ Len(u) \in (1 + 1) - 1 .. Len(u)
          /\ (Len(u) - (1 + 1)) + 1 = k - 2 /\ (1 + 1) - 1 = 1
      BY <1>2, <1>7
    <2> HIDE DEF u
    <2> QED BY <1>7, <2>1, Part
  <1> HIDE DEF u, w
  <1>10. Reads(d, 2, x)
    <2>1. 1 \in 0 .. Len(u) /\ 1 + 1 = 2
      BY <1>2, <1>7
    <2> HIDE DEF d
    <2>2. Reads(d, 1 + 1, x)
      BY <1>6, <2>1, TailReads
    <2> QED BY <2>1, <2>2
  <1> HIDE DEF x, d
  <1>11. x = w
    <2>1. \A i \in 1 .. k - 2 : 1 + i \in 1 .. k - 1
      BY <1>2
    <2>2. \A i \in 1 .. k - 2 : x[i] = w[i]
      BY <1>7, <1>8, <1>9, <2>1
    <2> QED BY <1>8, <1>9, <2>2, SameLetters
  <1>12. Reads(str_trim(d, 2), 2, Conf!Stripped(w))
    BY <1>10, <1>11, TrimReads
  <1> QED BY <1>3, <1>4, <1>12, StrIs

\* Two strings next to each other can be trimmed one after the other
LEMMA TrimBoth ==
    ASSUME NEW d, NEW u, NEW w, NEW k, k = Len(u) + 1, Reads(d, 1, u), Reads(d, k + 1, w)
    PROVE  /\ Str(str_trim(str_trim(d, k + 1), 1), 1) = Conf!Stripped(u)
           /\ Str(str_trim(str_trim(d, k + 1), 1), k + 1) = Conf!Stripped(w)
  <1> SUFFICES ASSUME NEW e, e = str_trim(d, k + 1), NEW f, f = str_trim(e, 1)
               PROVE  Str(f, 1) = Conf!Stripped(u) /\ Str(f, k + 1) = Conf!Stripped(w)
    OBVIOUS
  <1>1. Len(u) \in Nat /\ k \in Nat
    <2>1. u \in Seq(Letters)
      BY Zenon DEF Reads
    <2> QED BY <2>1
  <1>2. Reads(e, k + 1, Conf!Stripped(w)) /\ Len(e) = Len(d)
    BY TrimReads
  <1>3. \A i \in 1 .. Len(d) : i < k + 1 => e[i] = d[i]
    BY TrimReads
  <1>4. e \in Seq(Letters)
    BY <1>2, Zenon DEF Reads
  <1>5. Reads(e, 1, u)
    <2>1. \A i \in 1 .. Len(d) : i >= 1 /\ i <= 1 + Len(u) => e[i] = d[i]
      BY <1>1, <1>3
    <2> QED BY <1>2, <1>4, <2>1, StillReads
  <1>6. Reads(f, 1, Conf!Stripped(u)) /\ Len(f) = Len(e)
    BY <1>5, TrimReads
  <1>7. \A i \in 1 .. Len(e) : i > 1 + Len(u) => f[i] = e[i]
    BY <1>5, TrimReads
  <1>8. f \in Seq(Letters)
    BY <1>6, Zenon DEF Reads
  <1>9. Reads(f, k + 1, Conf!Stripped(w))
    <2>1. \A i \in 1 .. Len(e) : i >= k + 1 /\ i <= (k + 1) + Len(Conf!Stripped(w))
              => f[i] = e[i]
      BY <1>1, <1>7
    <2> QED BY <1>2, <1>6, <1>8, <2>1, StillReads
  <1> QED BY <1>6, <1>9, StrIs

\* The comment is cut off a value, and the string in front of it stays
LEMMA CommentGoes ==
    ASSUME NEW b, NEW k, NEW u, k = Len(u) + 1, Reads(b, 1, u), NEW v, Reads(b, k + 1, v),
           NEW q, q = (IF Comment(v) <= Len(v) THEN ((k + 1) - 1) + Comment(v) ELSE None),
           NEW d, d = IF q = None THEN b ELSE [b EXCEPT ![q] = NUL]
    PROVE  Reads(d, 1, u) /\ Reads(d, k + 1, Conf!Uncommented(v))
  <1>1. v \in Seq(Letters) /\ Len(v) \in Nat /\ u \in Seq(Letters) /\ Len(u) \in Nat
    <2>1. v \in Seq(Letters) /\ u \in Seq(Letters)
      BY Zenon DEF Reads
    <2> QED BY <2>1
  <1>2. PICK m : m = Comment(v)
    OBVIOUS
  <1>3. m \in 1 .. Len(v) + 1
    BY <1>1, <1>2, CommentPlace
  <1>4. Conf!Uncommented(v) = SubSeq(v, 1, m - 1)
    BY <1>2, UncommentedIs
  <1>5. CASE m <= Len(v)
    <2>1. q = ((k + 1) - 1) + m /\ m \in 1 .. Len(v) /\ q # None /\ q > k
      BY <1>1, <1>2, <1>3, <1>5 DEF None
    <2>2. d = [b EXCEPT ![q] = NUL]
      BY <2>1
    <2>3. /\ d \in Seq(Letters) /\ Len(d) = Len(b)
          /\ \A i \in 1 .. Len(b) : i # q => d[i] = b[i]
          /\ Reads(d, k + 1, SubSeq(v, 1, m - 1))
      <3>1. m \in 1 .. Len(v) /\ q = ((k + 1) - 1) + m
        BY <2>1
      <3> DEFINE e == [b EXCEPT ![q] = NUL]
      <3>2. Reads(e, k + 1, SubSeq(v, 1, m - 1))
        BY <3>1, Cuts, ZenonT(60)
      <3>3. Len(e) = Len(b)
        <4>1. b \in Seq(Letters)
          BY Zenon DEF Reads
        <4>2. NUL \in Letters
          BY DEF Letters
        <4> QED BY <4>1, <4>2
      <3>4. e \in Seq(Letters)
        BY <3>2, Zenon DEF Reads
      <3>5. \A i \in 1 .. Len(b) : i # q => e[i] = b[i]
        BY <3>1, Cuts
      <3> QED BY <2>2, <3>2, <3>5, <3>3, <3>4, Zenon
    <2>4. \A i \in 1 .. Len(b) : i >= 1 /\ i <= 1 + Len(u) => d[i] = b[i]
      BY <1>1, <2>1, <2>3
    <2>5. Reads(d, 1, u)
      BY <2>3, <2>4, StillReads
    <2> QED BY <1>4, <2>3, <2>5
  <1>6. CASE ~(m <= Len(v))
    <2>1. q = None /\ d = b
      BY <1>2, <1>6
    <2>2. m - 1 = Len(v)
      BY <1>1, <1>3, <1>6
    <2>3. SubSeq(v, 1, Len(v)) = v
      BY <1>1
    <2> QED BY <1>4, <2>1, <2>2, <2>3
  <1> QED BY <1>5, <1>6

\* What ini_add_keyval cuts out of the buffer is the key and the value of the line
LEMMA KeyValue ==
    ASSUME NEW n, NEW s, Lined(str_trim(buf, 1), n), Reads(str_trim(buf, 1), 1, s),
           Vacant(str_trim(buf, 1), 1 + Len(s) + 1), Assigns(s)
    PROVE  Str(CutOut, 1) = Conf!Key(s) /\ Str(CutOut, Assign + 1) = Conf!Value(s)
  <1> DEFINE c == str_trim(buf, 1)
             k == Conf!First(s, {"="})
             b == [c EXCEPT ![k] = NUL]
             u == SubSeq(s, 1, k - 1)
             v == SubSeq(s, k + 1, Len(s))
             q == ini_value_analyze(b, k + 1).cut
             d == IF q = None THEN b ELSE [b EXCEPT ![q] = NUL]
  <1>1. Assign = k
    BY Assigned, Zenon DEF Assign
  <1>2. CutOut = str_trim(str_trim(d, k + 1), 1)
    BY <1>1, Zenon DEF CutOut
  <1>3. Conf!Key(s) = Conf!Stripped(u) /\ Conf!Value(s) = Conf!Stripped(Conf!Uncommented(v))
    BY Zenon DEF Conf!Key, Conf!Value
  <1>4. Lined(c, n) /\ Reads(c, 1, s) /\ Vacant(c, 1 + Len(s) + 1)
    OBVIOUS
  <1>5. /\ s \in Seq(Letters) /\ Len(s) \in Nat /\ n \in Nat /\ k \in 1 .. Len(s)
        /\ Len(s) <= n + 1
    <2>1. s \in Seq(Letters)
      BY <1>4, Zenon DEF Reads
    <2>2. n \in Nat
      BY <1>4, Zenon DEF Lined
    <2>3. Len(s) \in Nat
      BY <2>1
    <2>4. k \in 2 .. Len(s)
      BY Zenon DEF Assigns
    <2> HIDE DEF c, k
    <2>5. End(c, 1) \in 1 .. n + 2
      <3>1. 1 \in 1 .. n + 2
        BY <2>2
      <3> QED BY <1>4, <3>1, EndsInTime
    <2>6. End(c, 1) = 1 + Len(s)
      BY <1>4, EndIs
    <2> QED BY <2>1, <2>2, <2>3, <2>4, <2>5, <2>6
  <1> HIDE DEF c, k
  <1>6. /\ \A i \in 1 .. Len(c) : i # k => b[i] = c[i]
        /\ Len(b) = Len(c) /\ Reads(b, 1, u) /\ Reads(b, k + 1, v)
    <2>1. k = (1 - 1) + k
      BY <1>5
    <2> QED BY <1>4, <1>5, <2>1, Cuts
  <1>7. Lined(b, n)
    <2>1. k \in 1 .. n + 1
      BY <1>5
    <2> QED BY <1>4, <2>1, CutKeeps
  <1>8. Len(u) = k - 1 /\ Len(v) = Len(s) - k
    BY <1>5
  <1> HIDE DEF b, u, v
  <1>9. Vacant(b, (k + 1) + Len(v) + 1)
    <2>1. (k + 1) + Len(v) + 1 = 1 + Len(s) + 1
      BY <1>5, <1>8
    <2>2. PICK x \in 1 + Len(s) + 1 .. Len(c) :
              c[x] = NUL /\ \A j \in 1 + Len(s) + 1 .. x - 1 : ~Visible(c[j])
      BY <1>4 DEF Vacant
    <2>3. \A j \in 1 + Len(s) + 1 .. x : j \in 1 .. Len(c) /\ j # k
      BY <1>5
    <2>4. b[x] = NUL /\ x \in 1 + Len(s) + 1 .. Len(b)
      BY <1>5, <1>6, <2>2, <2>3
    <2>5. \A j \in 1 + Len(s) + 1 .. x - 1 : ~Visible(b[j])
      BY <1>5, <1>6, <2>2, <2>3
    <2> QED BY <2>1, <2>4, <2>5 DEF Vacant
  <1>10. q = IF Comment(v) <= Len(v) THEN ((k + 1) - 1) + Comment(v) ELSE None
    <2>1. k + 1 \in 1 .. n + 2
      BY <1>5
    <2> QED BY <1>6, <1>7, <1>9, <2>1, ScanCuts
  <1>11. k = Len(u) + 1
    BY <1>5, <1>8
  <1> HIDE DEF q
  <1>12. Reads(d, 1, u) /\ Reads(d, k + 1, Conf!Uncommented(v))
    BY <1>6, <1>10, <1>11, CommentGoes
  <1> HIDE DEF d
  <1>13. /\ Str(str_trim(str_trim(d, k + 1), 1), 1) = Conf!Stripped(u)
         /\ Str(str_trim(str_trim(d, k + 1), 1), k + 1)
                = Conf!Stripped(Conf!Uncommented(v))
    BY <1>11, <1>12, TrimBoth
  <1> QED BY <1>1, <1>2, <1>3, <1>13

\* A line that is due is in the buffer, with its newline; otherwise there is none
Filled ==
    /\ pc = "take" => /\ line \in Seq(Letters) /\ Lined(buf, Len(line))
                      /\ Reads(buf, 1, Append(line, "\n"))
    /\ pc # "take" => line = <<>>

\* What Read puts into the buffer is the line with its newline
LEMMA FillReads ==
    ASSUME NEW l \in Seq(Letters), \A i \in 1 .. Len(l) : l[i] # NUL
    PROVE  Reads(Append(l, "\n") \o [i \in 1 .. 3 |-> NUL], 1, Append(l, "\n"))
  <1> DEFINE n == Len(l)
             a == Append(l, "\n")
             z == [i \in 1 .. 3 |-> NUL]
             b == a \o z
  <1>1. "\n" \in Letters /\ NUL \in Letters /\ "\n" # NUL
    BY DEF Letters, NUL
  <1>2. /\ n \in Nat /\ a \in Seq(Letters) /\ Len(a) = n + 1 /\ a[n + 1] = "\n"
        /\ \A i \in 1 .. n : a[i] = l[i]
    BY <1>1
  <1>3. z \in Seq(Letters) /\ Len(z) = 3 /\ z[1] = NUL
    <2>1. Len(z) = 3
      BY LenOf
    <2> QED BY <1>1, <2>1
  <1>4. \A i \in 1 .. n + 1 : a[i] # NUL
    <2>1. \A i \in 1 .. n + 1 : i \in 1 .. n \/ i = n + 1
      BY <1>2
    <2> HIDE DEF a, n
    <2>2. \A i \in 1 .. n : l[i] # NUL
      BY DEF n
    <2> QED BY <1>1, <1>2, <2>1, <2>2
  <1> HIDE DEF n, a, z
  <1>5. /\ b \in Seq(Letters) /\ Len(b) = (n + 1) + 3
        /\ \A i \in 1 .. n + 1 : b[i] = a[i]
        /\ b[n + 2] = NUL
    <2>1. a \in Seq(Letters) /\ z \in Seq(Letters)
      BY <1>2, <1>3
    <2>2. b \in Seq(Letters) /\ Len(b) = Len(a) + Len(z)
      BY <2>1
    <2>3. \A i \in 1 .. Len(a) : b[i] = a[i]
      BY <2>1
    <2>4. \A i \in Len(a) + 1 .. Len(a) + Len(z) : b[i] = z[i - Len(a)]
      BY <2>1
    <2> HIDE DEF b
    <2>5. n + 2 \in Len(a) + 1 .. Len(a) + Len(z) /\ (n + 2) - Len(a) = 1
      BY <1>2, <1>3
    <2> QED BY <1>2, <1>3, <2>2, <2>3, <2>4, <2>5
  <1> HIDE DEF b
  <1>6. \A i \in 1 .. Len(a) : b[(1 - 1) + i] = a[i] /\ a[i] # NUL
    <2>1. \A i \in 1 .. n + 1 : (1 - 1) + i = i
      BY <1>2
    <2> QED BY <1>2, <1>4, <1>5, <2>1
  <1>7. 1 \in 1 .. Len(b) /\ 1 + Len(a) <= Len(b) /\ 1 + Len(a) = n + 2
    BY <1>2, <1>5
  <1>8. Reads(b, 1, a)
    BY <1>2, <1>5, <1>6, <1>7, Zenon DEF Reads
  <1> QED BY <1>8 DEF b, a, z

\* Only Read makes a line due, and it fills the buffer with it
LEMMA FilledInvariant == Spec => []Filled
  <1>1. Init => Filled
    BY DEF Init, Filled
  <1>2. ASSUME Read PROVE Filled'
    <2>1. PICK l \in Lines : /\ line' = l /\ pc' = "take"
                            /\ buf' = Append(l, "\n") \o [i \in 1 .. Room |-> NUL]
      BY <1>2 DEF Read
    <2>2. l \in Seq(Letters) /\ \A i \in 1 .. Len(l) : l[i] # NUL
      <3>1. l \in Seq(STRING)
        BY ConfAssumption
      <3>2. \A i \in 1 .. Len(l) : l[i] # NUL
        BY TextAssumption DEF NUL
      <3> QED BY <3>1, <3>2 DEF Letters
    <2>3. "\n" \in Letters /\ NUL \in Letters
      BY DEF Letters
    <2>4. Lined(Append(l, "\n") \o [i \in 1 .. Room |-> NUL], Len(l))
      BY <2>2, <2>3, Fills, Zenon DEF Room
    <2>5. Reads(Append(l, "\n") \o [i \in 1 .. Room |-> NUL], 1, Append(l, "\n"))
      BY <2>2, FillReads, Zenon DEF Room
    <2> QED BY <2>1, <2>2, <2>4, <2>5, Zenon DEF Filled
  <1>3. Filled /\ [Next]_vars /\ ~Read => Filled'
    BY DEF Filled, Next, vars, Load, Overrun, ReadEnds, Leave, Taken, AddSection,
       AddSectionFails, UnknownSection, AddKeyval, AddKeyvalFails, Skip, Clean, CleanAstray
  <1>4. Filled /\ [Next]_vars => Filled'
    BY <1>2, <1>3
  <1> QED BY <1>1, <1>4, PTL DEF Spec

\* The load finds the table of a header
LEMMA TableIs == \A name : TableOf(name) = Conf!Table(name)
BY Zenon DEF TableOf, TableIds, strstr, None, Min, Conf!Table, Conf!Within, Conf!Min

\* The load and the file agree on what a line is, and what it says
LEMMA LineIs ==
    ASSUME Filled, pc = "take", NEW s, s = Conf!Stripped(line)
    PROVE  /\ ini_line_read = "section" <=> Conf!IsHeader(s) /\ Conf!Name(s) # <<>>
           /\ ini_line_read = "keyval" <=> Conf!IsSetting(s)
           /\ ini_line_read \in {"section", "keyval", "empty"}
           /\ Conf!IsHeader(s) => SectionName(str_trim(buf, 1)) = Conf!Name(s)
           /\ Conf!IsSetting(s) => /\ Str(CutOut, 1) = Conf!Key(s)
                                   /\ Str(CutOut, Assign + 1) = Conf!Value(s)
  <1> DEFINE a == Append(line, "\n")
             c == str_trim(buf, 1)
  <1>1. line \in Seq(Letters) /\ Lined(buf, Len(line)) /\ Reads(buf, 1, a)
    BY Zenon DEF Filled
  <1>2. a \in Seq(Letters) /\ Conf!Stripped(a) = s /\ a # <<>> /\ ~Visible(a[Len(a)])
    <2>1. a \in Seq(Letters) /\ Len(a) = Len(line) + 1 /\ Conf!Stripped(a) = s
      BY <1>1, NewlineGoes
    <2>2. a[Len(line) + 1] = "\n" /\ a # <<>>
      BY <1>1
    <2> QED BY <2>1, <2>2 DEF Visible
  <1> HIDE DEF a
  <1>3. Reads(c, 1, s)
    BY <1>1, <1>2, TrimReads
  <1>4. Lined(c, Len(line))
    <2>1. 1 \in 1 .. Len(line) + 2
      <3>1. Len(line) \in Nat
        BY <1>1
      <3> QED BY <3>1
    <2> QED BY <1>1, <2>1, TrimKeeps
  <1> HIDE DEF c
  <1>5. ini_line_is_section(c) <=> Conf!IsHeader(s)
    BY <1>3, Headed
  <1>6. ini_line_is_keyval(c) <=> Assigns(s)
    BY <1>3, Assigned
  <1>7. Conf!IsHeader(s) => SectionName(c) = Conf!Name(s)
    BY <1>3, Named
  <1>8. Conf!IsSetting(s) <=> ~Conf!IsHeader(s) /\ Assigns(s)
    BY Zenon DEF Conf!IsSetting, Assigns
  <1>9. ini_line_read = CASE ini_line_is_section(c) ->
                                IF SectionName(c) = <<>> THEN "empty" ELSE "section"
                          [] ~ini_line_is_section(c) /\ ini_line_is_keyval(c) -> "keyval"
                          [] OTHER -> "empty"
    BY Zenon DEF ini_line_read, c
  <1>10. ASSUME Assigns(s) PROVE Vacant(c, 1 + Len(s) + 1)
    <2>1. s # <<>>
      <3>1. Conf!First(s, {"="}) \in 2 .. Len(s)
        BY <1>10, Zenon DEF Assigns
      <3>2. 2 <= Len(s)
        <4>1. PICK f : f = Conf!First(s, {"="})
          OBVIOUS
        <4>2. s \in Seq(Letters)
          BY <1>3, Zenon DEF Reads
        <4> QED BY <3>1, <4>1, <4>2
      <3> QED BY <3>2
    <2> QED BY <1>1, <1>2, <2>1, TrimLeaves DEF c
  <1>11. ASSUME Assigns(s)
         PROVE  Str(CutOut, 1) = Conf!Key(s) /\ Str(CutOut, Assign + 1) = Conf!Value(s)
    BY <1>3, <1>4, <1>10, <1>11, KeyValue DEF c
  <1>12. /\ ini_line_read = "section" <=> Conf!IsHeader(s) /\ Conf!Name(s) # <<>>
         /\ ini_line_read = "keyval" <=> Conf!IsSetting(s)
         /\ ini_line_read \in {"section", "keyval", "empty"}
    <2>1. CASE Conf!IsHeader(s)
      BY <1>5, <1>7, <1>8, <1>9, <2>1
    <2>2. CASE ~Conf!IsHeader(s) /\ Assigns(s)
      BY <1>5, <1>6, <1>8, <1>9, <2>2
    <2>3. CASE ~Conf!IsHeader(s) /\ ~Assigns(s)
      BY <1>5, <1>6, <1>8, <1>9, <2>3
    <2> QED BY <2>1, <2>2, <2>3
  <1> QED BY <1>7, <1>8, <1>11, <1>12 DEF c

-----------------------------------------------------------------------------
(* Contents *)

\* An entry has the keys of its table, and the entry that gets keys is the latest
Shaped ==
    /\ \A t \in TableIds : \A i \in 1 .. Len(list[t]) :
           DOMAIN keys[list[t][i]] = Tables[t].keys
    /\ tbl # None => list[tbl] # <<>> /\ addr = list[tbl][Len(list[tbl])]

\* The members of lists are entries
LEMMA Listed ==
    ASSUME Inv, NEW t \in TableIds, NEW i \in 1 .. Len(list[t])
    PROVE  list[t][i] \in Blocks /\ Entry(list[t][i]) /\ list[t][i] \in Entries(t)
  <1>1. list[t][i] \in Blocks
    BY DEF Inv, Stored
  <1>2. list[t][i] \in Entries(t)
    BY EntriesListed DEF Inv
  <1> QED BY <1>1, <1>2 DEF Entry

\* What AddSection does to memory
SectionAdded(u, c) ==
    /\ u \in TableIds /\ c \in Blocks /\ tbl' = u /\ addr' = c
    /\ list'[u] = Append(list[u], c) /\ list[u] \in Seq(Blocks)
    /\ \A v \in TableIds : v # u => list'[v] = list[v]
    /\ keys'[c] = [k \in Tables[u].keys |-> None]
    /\ \A b \in Blocks : b # c => keys'[b] = keys[b]
    /\ text' = text
    /\ \A v \in TableIds : \A i \in 1 .. Len(list[v]) :
           list[v][i] \in Blocks /\ list[v][i] # c

\* The new block was free: no entry is there
LEMMA SectionStep ==
    ASSUME Inv, AddSection
    PROVE  SectionAdded(TableOf(SectionName(str_trim(buf, 1))), Fresh)
  <1> DEFINE t == TableOf(SectionName(str_trim(buf, 1)))
             f == Fresh
  <1>1. /\ pc = "take" /\ t # None
        /\ keys' = [keys EXCEPT ![f] = [k \in Tables[t].keys |-> None]]
        /\ list' = [list EXCEPT ![t] = Append(list[t], f)] /\ text' = text
        /\ tbl' = t /\ addr' = f
    BY DEF AddSection, Taken
  <1>2. t \in TableIds
    BY <1>1, TableFound
  <1>3. f \in Blocks /\ f \notin heap
    BY <1>1, FreshFree DEF Inv, TypeOK, Loading
  <1> SUFFICES ASSUME NEW u, u = t, NEW c, c = f PROVE SectionAdded(u, c)
    OBVIOUS
  <1> HIDE DEF t, f
  <1>4. /\ \A v \in TableIds : v # u => list'[v] = list[v]
        /\ list'[u] = Append(list[u], c) /\ list[u] \in Seq(Blocks)
        /\ \A b \in Blocks : b # c => keys'[b] = keys[b]
        /\ keys'[c] = [k \in Tables[u].keys |-> None]
    BY <1>1, <1>2, <1>3 DEF Inv, Stored
  <1>5. ASSUME NEW v \in TableIds, NEW i \in 1 .. Len(list[v])
        PROVE  list[v][i] \in Blocks /\ list[v][i] # c
    BY <1>3, Listed DEF Inv, Apart
  <1> QED BY <1>1, <1>2, <1>3, <1>4, <1>5 DEF SectionAdded

\* What AddKeyval does to memory
KeyvalAdded(c, q, x) ==
    /\ tbl \in TableIds /\ q \in Tables[tbl].keys /\ tbl' = tbl /\ addr' = addr
    /\ list' = list /\ c \in Blocks /\ c # None
    /\ DOMAIN keys'[addr] = DOMAIN keys[addr] /\ keys'[addr][q] = c
    /\ \A k \in DOMAIN keys[addr] : k # q => keys'[addr][k] = keys[addr][k]
    /\ \A b \in Blocks : b # addr => keys'[b] = keys[b]
    /\ text'[c] = x /\ \A b \in Blocks : b # c => text'[b] = text[b]
    /\ \A v \in TableIds : \A i \in 1 .. Len(list[v]) : \A k \in DOMAIN keys[list[v][i]] :
           keys[list[v][i]][k] # c

\* The new block was free: no key has it
LEMMA KeyvalStep ==
    ASSUME Inv, AddKeyval
    PROVE  KeyvalAdded(Fresh, Str(CutOut, 1), Str(CutOut, Assign + 1))
  <1> SUFFICES ASSUME NEW c, c = Fresh, NEW q, q = Str(CutOut, 1),
                      NEW x, x = Str(CutOut, Assign + 1)
               PROVE  KeyvalAdded(c, q, x)
    OBVIOUS
  <1>1. /\ pc = "take" /\ tbl # None /\ q \in Tables[tbl].keys
        /\ list' = list /\ tbl' = tbl /\ addr' = addr
        /\ text' = [text EXCEPT ![c] = x]
        /\ keys' = [keys EXCEPT ![addr] = [keys[addr] EXCEPT ![q] = c]]
    BY DEF AddKeyval, Taken, Known
  <1>2. tbl \in TableIds /\ addr \in Entries(tbl) /\ DOMAIN keys[addr] = Tables[tbl].keys
    BY <1>1 DEF Inv, TypeOK
  <1>3. addr \in Blocks
    BY <1>2, EntriesListed DEF Inv, Stored
  <1>4. c \in Blocks /\ c \notin heap /\ c # None
    BY <1>1, FreshFree, Numbers DEF Inv, TypeOK, Loading
  <1>5. /\ \A b \in Blocks : b # addr => keys'[b] = keys[b]
        /\ DOMAIN keys'[addr] = DOMAIN keys[addr] /\ keys'[addr][q] = c
        /\ \A k \in DOMAIN keys[addr] : k # q => keys'[addr][k] = keys[addr][k]
    BY <1>1, <1>2, <1>3 DEF Inv, Stored
  <1>6. text'[c] = x /\ \A b \in Blocks : b # c => text'[b] = text[b]
    BY <1>1, <1>4 DEF Inv, Stored
  <1>7. ASSUME NEW v \in TableIds, NEW i \in 1 .. Len(list[v]),
               NEW k \in DOMAIN keys[list[v][i]]
        PROVE  keys[list[v][i]][k] # c
    BY <1>4, Listed DEF Inv, Apart
  <1> QED BY <1>1, <1>2, <1>4, <1>5, <1>6, <1>7 DEF KeyvalAdded

\* What Clean does to memory
Cleaned(t) ==
    /\ tbl' = tbl /\ addr' = addr /\ tbl = None /\ list'[t] = <<>>
    /\ \A u \in TableIds : u # t => list'[u] = list[u]
    /\ \A u \in TableIds : u # t => \A i \in 1 .. Len(list[u]) :
           /\ keys'[list[u][i]] = keys[list[u][i]]
           /\ \A k \in DOMAIN keys[list[u][i]] : keys[list[u][i]][k] # None =>
                  text'[keys[list[u][i]][k]] = text[keys[list[u][i]][k]]

\* The other tables lose no entry and no value
LEMMA CleanStep ==
    ASSUME Inv, NEW t \in TableIds, Clean(t)
    PROVE  Cleaned(t)
  <1>1. /\ pc = "out" /\ list' = [list EXCEPT ![t] = <<>>]
        /\ keys' = [b \in Blocks |-> IF b \in Gone(t) THEN <<>> ELSE keys[b]]
        /\ text' = [b \in Blocks |-> IF b \in Gone(t) THEN <<>> ELSE text[b]]
        /\ tbl' = tbl /\ addr' = addr /\ tbl = None
    BY DEF Clean, Gone, Inv, Loading
  <1>2. /\ list'[t] = <<>> /\ \A u \in TableIds : u # t => list'[u] = list[u]
        /\ \A b \in Blocks : b \notin Gone(t) => keys'[b] = keys[b] /\ text'[b] = text[b]
    BY <1>1 DEF Inv, Stored
  <1>3. ASSUME NEW u \in TableIds, u # t, NEW i \in 1 .. Len(list[u])
        PROVE  /\ keys'[list[u][i]] = keys[list[u][i]]
               /\ \A k \in DOMAIN keys[list[u][i]] : keys[list[u][i]][k] # None =>
                      text'[keys[list[u][i]][k]] = text[keys[list[u][i]][k]]
    <2>1. list[u][i] \in Blocks /\ Entry(list[u][i])
      BY Listed
    <2>2. list[u][i] \notin Entries(t)
      <3>1. Entries(t) = {list[t][j] : j \in 1 .. Len(list[t])}
        BY EntriesListed DEF Inv
      <3> QED BY <1>3, <3>1 DEF Inv, Apart
    <2> SUFFICES ASSUME NEW d \in Blocks, d = list[u][i]
                 PROVE  /\ keys'[d] = keys[d]
                        /\ \A k \in DOMAIN keys[d] : keys[d][k] # None =>
                               text'[keys[d][k]] = text[keys[d][k]]
      BY <2>1
    <2>3. /\ d \notin Gone(t)
          /\ \A k \in DOMAIN keys[d] : keys[d][k] # None => keys[d][k] \notin Gone(t)
      BY <2>1, <2>2, OthersStay
    <2>4. \A k \in DOMAIN keys[d] : keys[d][k] \in Blocks \cup {None}
      BY DEF Inv, Stored
    <2> QED BY <1>2, <2>3, <2>4
  <1> QED BY <1>1, <1>2, <1>3 DEF Cleaned

\* A load keeps to the entry it made last, and a clean is not during a load
LEMMA ShapedInvariant == Spec => []Shaped
  <1>1. Init => Shaped
    BY DEF Init, Shaped
  <1>2. ASSUME Inv, Shaped, AddSection PROVE Shaped'
    <2>1. PICK u, c : SectionAdded(u, c)
      BY <1>2, SectionStep
    <2>2. /\ Len(list'[u]) = Len(list[u]) + 1 /\ Len(list[u]) \in Nat /\ list'[u] # <<>>
          /\ list'[u][Len(list[u]) + 1] = c
          /\ \A i \in 1 .. Len(list[u]) : list'[u][i] = list[u][i]
          /\ \A i \in 1 .. Len(list'[u]) : i \in 1 .. Len(list[u]) \/ i = Len(list[u]) + 1
      BY <2>1 DEF SectionAdded
    <2>3. DOMAIN keys'[c] = Tables[u].keys
      BY <2>1 DEF SectionAdded
    <2>4. ASSUME NEW t \in TableIds, NEW i \in 1 .. Len(list'[t])
          PROVE  DOMAIN keys'[list'[t][i]] = Tables[t].keys
      <3>1. CASE t = u /\ i = Len(list[u]) + 1
        BY <2>2, <2>3, <3>1
      <3>2. CASE i \in 1 .. Len(list[t]) /\ list'[t][i] = list[t][i]
        <4>1. keys'[list[t][i]] = keys[list[t][i]]
          BY <2>1, <3>2 DEF SectionAdded
        <4> QED BY <1>2, <3>2, <4>1 DEF Shaped
      <3>3. t # u => list'[t] = list[t]
        BY <2>1 DEF SectionAdded
      <3> QED BY <2>2, <3>1, <3>2, <3>3
    <2>5. tbl' = u /\ addr' = c
      BY <2>1 DEF SectionAdded
    <2> QED BY <2>2, <2>4, <2>5 DEF Shaped
  <1>3. ASSUME Inv, Shaped, AddKeyval PROVE Shaped'
    <2>1. PICK c, q, x : KeyvalAdded(c, q, x)
      BY <1>3, KeyvalStep
    <2>2. ASSUME NEW t \in TableIds, NEW i \in 1 .. Len(list[t])
          PROVE  DOMAIN keys'[list[t][i]] = DOMAIN keys[list[t][i]]
      <3>1. list[t][i] \in Blocks
        BY <1>3, Listed
      <3> QED BY <2>1, <3>1 DEF KeyvalAdded
    <2> QED BY <1>3, <2>1, <2>2 DEF Shaped, KeyvalAdded
  <1>4. ASSUME Inv, Shaped, NEW t \in TableIds, Clean(t) PROVE Shaped'
    <2>1. Cleaned(t)
      BY <1>4, CleanStep
    <2>2. ASSUME NEW u \in TableIds, NEW i \in 1 .. Len(list'[u])
          PROVE  DOMAIN keys'[list'[u][i]] = Tables[u].keys
      <3>1. u # t
        BY <2>1 DEF Cleaned
      <3>2. list'[u] = list[u]
        BY <2>1, <3>1 DEF Cleaned
      <3>3. keys'[list[u][i]] = keys[list[u][i]]
        BY <2>1, <3>1, <3>2 DEF Cleaned
      <3> QED BY <1>4, <3>2, <3>3 DEF Shaped
    <2>3. tbl' = None
      BY <2>1 DEF Cleaned
    <2> QED BY <2>2, <2>3 DEF Shaped
  <1>5. ASSUME Shaped, UNCHANGED memory, (tbl' = tbl /\ addr' = addr) \/ tbl' = None
        PROVE  Shaped'
    BY <1>5 DEF memory, Shaped
  <1>6. ASSUME Inv, Shaped, [Next]_vars PROVE Shaped'
    <2>1. CASE Load \/ Read \/ Overrun \/ UNCHANGED vars
      BY <1>5, <1>6, <2>1 DEF Load, Read, Overrun, vars
    <2>2. CASE ReadEnds \/ AddSectionFails \/ AddKeyvalFails
      BY <1>5, <1>6, <2>2 DEF ReadEnds, AddSectionFails, AddKeyvalFails, Leave
    <2>3. CASE UnknownSection \/ Skip
      BY <1>5, <1>6, <2>3 DEF UnknownSection, Skip
    <2>4. ASSUME NEW t \in TableIds, CleanAstray(t) PROVE Shaped'
      BY <1>5, <1>6, <2>4 DEF CleanAstray
    <2> QED BY <1>2, <1>3, <1>4, <1>6, <2>1, <2>2, <2>3, <2>4 DEF Next
  <1> QED BY <1>1, <1>6, Invariant, PTL DEF Spec

\* What an entry shows that has the keys e: for each the value it has in x, or that it
\* has none; what the entries of a list show, and those of a table
Shows(names, e, x) == [k \in names |-> IF e[k] = None THEN <<NUL>> ELSE x[e[k]]]
ListShows(l, names, es, x) == [i \in 1 .. Len(l) |-> Shows(names, es[l[i]], x)]
Rows(t) == ListShows(list[t], Tables[t].keys, keys, text)

\* The contents, table by table, before and after a step
LEMMA ContentsAre ==
    /\ Contents = [t \in TableIds |-> Rows(t)]
    /\ Contents' = [t \in TableIds |-> Rows(t)']
BY Zenon DEF Contents, Shows, ListShows, Rows

\* Contents are a matter of memory only
LEMMA SameContents ==
    ASSUME UNCHANGED <<keys, text, list>>
    PROVE  Contents' = Contents
BY DEF Contents

\* The contents after a step that changes the entries of one table
LEMMA OneTable ==
    ASSUME NEW u \in TableIds, \A t \in TableIds : t # u => Rows(t)' = Rows(t)
    PROVE  Contents' = [t \in TableIds |-> IF t = u THEN Rows(u)' ELSE Contents[t]]
  <1>1. \A t \in TableIds : Contents[t] = Rows(t)
    BY ContentsAre, Zenon
  <1>2. \A t \in TableIds : Rows(t)' = IF t = u THEN Rows(u)' ELSE Contents[t]
    BY <1>1, Zenon
  <1> QED BY <1>2, ContentsAre, Zenon

\* A sequence of length n, given place by place
Listing(f, n) == f = [i \in 1 .. n |-> f[i]]

\* Appending to a sequence that is given place by place
LEMMA Longer ==
    ASSUME NEW n \in Nat, NEW f, Listing(f, n), NEW e, NEW g, Listing(g, n + 1),
           g[n + 1] = e, \A i \in 1 .. n : g[i] = f[i]
    PROVE  g = Append(f, e)
  <1> DEFINE S == {f[i] : i \in 1 .. n} \cup {e}
  <1>1. f \in [1 .. n -> S] /\ e \in S
    <2>1. \A i \in 1 .. n : f[i] \in S
      OBVIOUS
    <2>2. e \in S
      OBVIOUS
    <2> HIDE DEF S
    <2> QED BY <2>1, <2>2 DEF Listing
  <1>2. g \in [1 .. n + 1 -> S]
    <2>1. \A i \in 1 .. n + 1 : i \in 1 .. n \/ i = n + 1
      OBVIOUS
    <2>2. \A i \in 1 .. n : f[i] \in S
      OBVIOUS
    <2> HIDE DEF S
    <2>3. \A i \in 1 .. n + 1 : g[i] \in S
      BY <1>1, <2>1, <2>2
    <2> QED BY <2>3 DEF Listing
  <1> HIDE DEF S
  <1>3. f \in Seq(S) /\ Len(f) = n /\ g \in Seq(S) /\ Len(g) = n + 1
    BY <1>1, <1>2
  <1>4. /\ Append(f, e) \in Seq(S) /\ Len(Append(f, e)) = n + 1
        /\ Append(f, e)[n + 1] = e /\ \A i \in 1 .. n : Append(f, e)[i] = f[i]
    BY <1>1, <1>3
  <1>5. \A i \in 1 .. n + 1 : i \in 1 .. n \/ i = n + 1
    OBVIOUS
  <1>6. \A i \in 1 .. n + 1 : Append(f, e)[i] = g[i]
    BY <1>4, <1>5
  <1> QED BY <1>3, <1>4, <1>6

\* What the entries of a table show, one by one
LEMMA RowsAre ==
    ASSUME NEW t, list[t] \in Seq(Blocks)
    PROVE  /\ Len(list[t]) \in Nat /\ Len(Rows(t)) = Len(list[t])
           /\ Listing(Rows(t), Len(list[t]))
           /\ \A i \in 1 .. Len(list[t]) :
                  Rows(t)[i] = Shows(Tables[t].keys, keys[list[t][i]], text)
  <1>1. Len(list[t]) \in Nat
    OBVIOUS
  <1>2. \A i \in 1 .. Len(list[t]) :
            Rows(t)[i] = Shows(Tables[t].keys, keys[list[t][i]], text)
    BY Zenon DEF Rows, ListShows
  <1>3. Rows(t) = [i \in 1 .. Len(list[t]) |-> Rows(t)[i]]
    BY Zenon DEF Rows, ListShows
  <1> QED BY <1>1, <1>2, <1>3, LenOf, Zenon DEF Listing

\* A list shows the same if its entries do
LEMMA ListStays ==
    ASSUME NEW l, NEW names, NEW d, NEW e, NEW x, NEW y,
           \A i \in 1 .. Len(l) : Shows(names, d[l[i]], x) = Shows(names, e[l[i]], y)
    PROVE  ListShows(l, names, d, x) = ListShows(l, names, e, y)
BY Zenon DEF ListShows

\* A new entry is the last of its table and shows no values
LEMMA SectionShown ==
    ASSUME Inv, NEW u, NEW c, SectionAdded(u, c)
    PROVE  Contents' = [t \in TableIds |->
               IF t = u THEN Append(Contents[t], [k \in Tables[t].keys |-> <<NUL>>])
                        ELSE Contents[t]]
  <1> DEFINE n == Len(list[u])
             e == [k \in Tables[u].keys |-> <<NUL>>]
             f == Rows(u)
  <1>1. /\ u \in TableIds /\ c \in Blocks /\ list[u] \in Seq(Blocks)
        /\ list'[u] = Append(list[u], c)
        /\ \A t \in TableIds : t # u => list'[t] = list[t]
        /\ keys'[c] = [k \in Tables[u].keys |-> None]
        /\ text' = text
    BY DEF SectionAdded
  <1>2. \A t \in TableIds : \A i \in 1 .. Len(list[t]) :
            keys'[list[t][i]] = keys[list[t][i]]
    BY DEF SectionAdded
  <1>3. ASSUME NEW t \in TableIds, t # u PROVE Rows(t)' = Rows(t)
    <2>1. ListShows(list[t], Tables[t].keys, keys', text')
              = ListShows(list[t], Tables[t].keys, keys, text)
      BY <1>1, <1>2, ListStays
    <2>2. list'[t] = list[t]
      BY <1>1, <1>3
    <2> QED BY <2>1, <2>2, Zenon DEF Rows
  <1>4. Shows(Tables[u].keys, keys'[c], text') = e
    <2>1. \A k \in Tables[u].keys : keys'[c][k] = None
      BY <1>1, Zenon
    <2> QED BY <2>1, Zenon DEF Shows
  <1>5. Rows(u)' = Append(f, e)
    <2> SUFFICES ASSUME NEW h, h = Rows(u)' PROVE h = Append(f, e)
      OBVIOUS
    <2>1. /\ n \in Nat /\ list'[u][n + 1] = c /\ Len(list'[u]) = n + 1
          /\ \A i \in 1 .. n : list'[u][i] = list[u][i]
      BY <1>1
    <2>2. /\ Listing(f, n)
          /\ \A i \in 1 .. n : f[i] = Shows(Tables[u].keys, keys[list[u][i]], text)
      BY <1>1, RowsAre, Zenon
    <2> HIDE DEF f
    <2>3. h = [i \in 1 .. Len(list'[u]) |->
                  Shows(Tables[u].keys, keys'[list'[u][i]], text')]
      BY Zenon DEF Rows, ListShows
    <2>4. /\ Listing(h, n + 1)
          /\ \A i \in 1 .. n + 1 :
                 h[i] = Shows(Tables[u].keys, keys'[list'[u][i]], text')
      BY <2>1, <2>3, Zenon DEF Listing
    <2>5. n + 1 \in 1 .. n + 1 /\ \A i \in 1 .. n : i \in 1 .. n + 1
      BY <2>1
    <2>6. h[n + 1] = e
      BY <1>4, <2>1, <2>4, <2>5, Zenon
    <2>7. ASSUME NEW i \in 1 .. n PROVE h[i] = f[i]
      <3>1. h[i] = Shows(Tables[u].keys, keys'[list[u][i]], text')
        BY <2>1, <2>4, <2>5, Zenon
      <3>2. keys'[list[u][i]] = keys[list[u][i]]
        BY <1>1, <1>2
      <3> QED BY <1>1, <2>2, <3>1, <3>2, Zenon
    <2> HIDE DEF n, e
    <2>8. n \in Nat
      BY <2>1
    <2> QED BY <2>2, <2>4, <2>6, <2>7, <2>8, Longer
  <1>6. Contents' = [t \in TableIds |-> IF t = u THEN Rows(u)' ELSE Contents[t]]
    BY <1>1, <1>3, OneTable
  <1>7. Contents[u] = Rows(u)
    BY <1>1, ContentsAre, Zenon
  <1> QED BY <1>5, <1>6, <1>7, Zenon

\* A value is shown under its key in the last entry of the table
ValueShown(q, x) == Contents' = [Contents EXCEPT ![tbl][Len(Contents[tbl])][q] = x]

LEMMA KeyvalShown ==
    ASSUME Inv, Shaped, NEW c, NEW q, NEW x, KeyvalAdded(c, q, x)
    PROVE  ValueShown(q, x)
  <1> SUFFICES ASSUME NEW u, u = tbl, NEW a, a = addr
               PROVE  Contents' = [Contents EXCEPT ![u][Len(Contents[u])][q] = x]
    BY DEF ValueShown
  <1> DEFINE n == Len(list[u])
             f == Rows(u)
             r == Shows(Tables[u].keys, keys[a], text)
  <1>1. /\ u \in TableIds /\ q \in Tables[u].keys /\ list' = list
        /\ c \in Blocks /\ c # None /\ u # None
        /\ \A b \in Blocks : b # a => keys'[b] = keys[b]
        /\ text'[c] = x /\ \A b \in Blocks : b # c => text'[b] = text[b]
    BY Numbers DEF KeyvalAdded
  <1>2. list[u] \in Seq(Blocks) /\ n \in Nat /\ n \in 1 .. n /\ a = list[u][n]
    <2>1. list[u] \in Seq(Blocks) /\ list[u] # <<>>
      BY <1>1 DEF Inv, Stored, Shaped
    <2>2. n \in Nat /\ n # 0
      BY <2>1
    <2> QED BY <1>1, <2>1, <2>2 DEF Shaped
  <1>3. /\ \A k \in Tables[u].keys : k # q => keys'[a][k] = keys[a][k]
        /\ keys'[a][q] = c
    BY <1>1, <1>2 DEF Shaped, KeyvalAdded
  <1>4. ASSUME NEW t \in TableIds, NEW i \in 1 .. Len(list[t]), NEW k \in Tables[t].keys
        PROVE  keys[list[t][i]][k] # None =>
                   text'[keys[list[t][i]][k]] = text[keys[list[t][i]][k]]
    <2>1. list[t][i] \in Blocks /\ k \in DOMAIN keys[list[t][i]]
      BY Listed DEF Shaped
    <2>2. keys[list[t][i]][k] # c /\ keys[list[t][i]][k] \in Blocks \cup {None}
      BY <2>1 DEF KeyvalAdded, Inv, Stored
    <2> QED BY <1>1, <2>1, <2>2
  <1>5. ASSUME NEW t \in TableIds, NEW i \in 1 .. Len(list[t]), t # u \/ i # n
        PROVE  Shows(Tables[t].keys, keys'[list[t][i]], text')
                   = Shows(Tables[t].keys, keys[list[t][i]], text)
    <2>1. list[t][i] \in Blocks
      BY Listed
    <2>2. list[t][i] # a
      BY <1>1, <1>2, <1>5 DEF Inv, Apart
    <2>3. keys'[list[t][i]] = keys[list[t][i]]
      BY <1>1, <2>1, <2>2
    <2> QED BY <1>4, <2>3, Zenon DEF Shows
  <1>6. Shows(Tables[u].keys, keys'[a], text') = [r EXCEPT ![q] = x]
    <2>1. ASSUME NEW k \in Tables[u].keys, k # q
          PROVE  (IF keys'[a][k] = None THEN <<NUL>> ELSE text'[keys'[a][k]])
                     = IF keys[a][k] = None THEN <<NUL>> ELSE text[keys[a][k]]
      <3>1. keys'[a][k] = keys[a][k]
        BY <1>3, <2>1
      <3>2. keys[a][k] # None => text'[keys[a][k]] = text[keys[a][k]]
        BY <1>1, <1>2, <1>4
      <3> QED BY <3>1, <3>2
    <2>2. (IF keys'[a][q] = None THEN <<NUL>> ELSE text'[keys'[a][q]]) = x
      BY <1>1, <1>3, Zenon
    <2>3. /\ DOMAIN r = Tables[u].keys
          /\ \A k \in Tables[u].keys :
                 r[k] = IF keys[a][k] = None THEN <<NUL>> ELSE text[keys[a][k]]
      BY Zenon DEF Shows
    <2> HIDE DEF r
    <2>4. \A k \in Tables[u].keys :
              (IF keys'[a][k] = None THEN <<NUL>> ELSE text'[keys'[a][k]])
                  = IF k = q THEN x ELSE r[k]
      BY <2>1, <2>2, <2>3
    <2>5. Shows(Tables[u].keys, keys'[a], text')
              = [k \in Tables[u].keys |-> IF k = q THEN x ELSE r[k]]
      BY <2>4, Zenon DEF Shows
    <2> QED BY <2>3, <2>5
  <1>7. ASSUME NEW t \in TableIds, t # u PROVE Rows(t)' = Rows(t)
    <2>1. ListShows(list[t], Tables[t].keys, keys', text')
              = ListShows(list[t], Tables[t].keys, keys, text)
      BY <1>5, <1>7, ListStays
    <2> QED BY <1>1, <2>1, Zenon DEF Rows
  <1>8. Contents' = [t \in TableIds |-> IF t = u THEN Rows(u)' ELSE Contents[t]]
    BY <1>1, <1>7, OneTable
  <1>9. Listing(f, n) /\ Len(f) = n /\ f[n] = r
    BY <1>2, RowsAre
  <1>10. Contents[u] = f
    BY <1>1, ContentsAre, Zenon
  <1>11. Rows(u)' = [f EXCEPT ![n] = [r EXCEPT ![q] = x]]
    <2> DEFINE w == [r EXCEPT ![q] = x]
    <2>1. Rows(u)' = [i \in 1 .. n |-> Shows(Tables[u].keys, keys'[list[u][i]], text')]
      BY <1>1, Zenon DEF Rows, ListShows
    <2>2. \A i \in 1 .. n : f[i] = Shows(Tables[u].keys, keys[list[u][i]], text)
      BY <1>2, RowsAre
    <2>3. \A i \in 1 .. n : Shows(Tables[u].keys, keys'[list[u][i]], text')
                                = IF i = n THEN w ELSE f[i]
      BY <1>1, <1>2, <1>5, <1>6, <2>2, Zenon
    <2>4. DOMAIN f = 1 .. n
      BY <1>9, Zenon DEF Listing
    <2> HIDE DEF w, n, f
    <2>5. Rows(u)' = [i \in 1 .. n |-> IF i = n THEN w ELSE f[i]]
      BY <2>1, <2>3, Zenon
    <2>6. [f EXCEPT ![n] = w] = [i \in 1 .. n |-> IF i = n THEN w ELSE f[i]]
      BY <2>4
    <2> QED BY <2>5, <2>6 DEF w
  <1> HIDE DEF f, n, r
  <1>12. Contents' = [Contents EXCEPT ![u] = [f EXCEPT ![n] = [r EXCEPT ![q] = x]]]
    <2> DEFINE w == [f EXCEPT ![n] = [r EXCEPT ![q] = x]]
    <2> HIDE DEF w
    <2>1. Contents' = [t \in TableIds |-> IF t = u THEN w ELSE Contents[t]]
      BY <1>8, <1>11, Zenon DEF w
    <2>2. DOMAIN Contents = TableIds
      BY ContentsAre, Zenon
    <2>3. [Contents EXCEPT ![u] = w] = [t \in TableIds |-> IF t = u THEN w ELSE Contents[t]]
      BY <2>2
    <2> QED BY <2>1, <2>3 DEF w
  <1> QED BY <1>9, <1>10, <1>12

\* A table that was cleaned shows nothing
LEMMA CleanShown ==
    ASSUME Inv, Shaped, NEW u \in TableIds, Cleaned(u)
    PROVE  Contents' = [Contents EXCEPT ![u] = <<>>]
  <1>1. ASSUME NEW t \in TableIds, t # u PROVE Rows(t)' = Rows(t)
    <2>1. ASSUME NEW i \in 1 .. Len(list[t])
          PROVE  Shows(Tables[t].keys, keys'[list[t][i]], text')
                     = Shows(Tables[t].keys, keys[list[t][i]], text)
      <3>1. /\ keys'[list[t][i]] = keys[list[t][i]]
            /\ \A k \in DOMAIN keys[list[t][i]] : keys[list[t][i]][k] # None =>
                   text'[keys[list[t][i]][k]] = text[keys[list[t][i]][k]]
        BY <1>1 DEF Cleaned
      <3>2. DOMAIN keys[list[t][i]] = Tables[t].keys
        BY DEF Shaped
      <3> QED BY <3>1, <3>2, Zenon DEF Shows
    <2>2. ListShows(list[t], Tables[t].keys, keys', text')
              = ListShows(list[t], Tables[t].keys, keys, text)
      BY <2>1, ListStays
    <2>3. list'[t] = list[t]
      BY <1>1 DEF Cleaned
    <2> QED BY <2>2, <2>3, Zenon DEF Rows
  <1>2. Rows(u)' = <<>>
    <2>1. list'[u] = <<>>
      BY DEF Cleaned
    <2>2. Rows(u)' = ListShows(<<>>, Tables[u].keys, keys', text')
      BY <2>1, Zenon DEF Rows
    <2> QED BY <2>2 DEF ListShows
  <1>3. Contents' = [t \in TableIds |-> IF t = u THEN <<>> ELSE Contents[t]]
    BY <1>1, <1>2, OneTable
  <1>4. DOMAIN Contents = TableIds
    BY ContentsAre, Zenon
  <1> QED BY <1>3, <1>4

-----------------------------------------------------------------------------
(* The file *)

\* A step of ConfFile
FileStep == Conf!Read \/ Conf!Take \/ Conf!Stop \/ Conf!Clean

\* At first no table has an entry
LEMMA InitFile == Init => Conf!Init
  <1> SUFFICES ASSUME Init PROVE Conf!Init
    OBVIOUS
  <1>1. \A t \in TableIds : Rows(t) = <<>>
    BY DEF Init, Rows, ListShows
  <1>2. Contents = [t \in 1 .. Len(Tables) |-> <<>>]
    BY <1>1, ContentsAre, Zenon DEF TableIds
  <1> QED BY <1>2 DEF Init, Conf!Init, None

\* A section that a load takes is a header, and its table that of the header
LEMMA HeaderTaken ==
    ASSUME Filled, Taken("section"), pc' = "read",
           tbl' = TableOf(SectionName(str_trim(buf, 1))),
           Contents' = [t \in DOMAIN Contents |->
               IF t = tbl' THEN Append(Contents[t], [k \in Tables[t].keys |-> <<NUL>>])
                           ELSE Contents[t]]
    PROVE  Conf!Take
  <1> DEFINE s == Conf!Stripped(line)
  <1>1. pc = "take" /\ ini_line_read = "section" /\ line' = <<>>
    BY DEF Taken
  <1>2. Conf!IsHeader(s) /\ Conf!Name(s) # <<>>
    BY <1>1, LineIs
  <1>3. tbl' = Conf!Table(Conf!Name(s))
    <2>1. SectionName(str_trim(buf, 1)) = Conf!Name(s)
      BY <1>1, <1>2, LineIs
    <2> QED BY <2>1, TableIs, Zenon
  <1> HIDE DEF s
  <1>4. Conf!TakeHeader
    BY <1>2, <1>3, Zenon DEF Conf!TakeHeader, Conf!Unset, NUL, s
  <1> QED BY <1>1, <1>4 DEF Conf!Take

\* A key that a load takes is a setting of the current table
LEMMA SettingTaken ==
    ASSUME Filled, Taken("keyval"), Known, pc' = "read", tbl' = tbl,
           ValueShown(Str(CutOut, 1), Str(CutOut, Assign + 1))
    PROVE  Conf!Take
  <1> DEFINE s == Conf!Stripped(line)
  <1>1. pc = "take" /\ ini_line_read = "keyval" /\ line' = <<>>
    BY DEF Taken
  <1>2. Conf!IsSetting(s)
    BY <1>1, LineIs
  <1>3. Str(CutOut, 1) = Conf!Key(s) /\ Str(CutOut, Assign + 1) = Conf!Value(s)
    BY <1>1, <1>2, LineIs
  <1>4. tbl # 0 /\ Conf!Key(s) \in Tables[tbl].keys
    BY <1>3 DEF Known, None
  <1> HIDE DEF s
  <1>5. Conf!TakeSetting
    BY <1>2, <1>3, <1>4, Zenon DEF Conf!TakeSetting, ValueShown, s
  <1> QED BY <1>1, <1>5 DEF Conf!Take

\* A line that a load skips is neither
LEMMA LineSkipped ==
    ASSUME Filled, Taken("empty") \/ (Taken("keyval") /\ ~Known), pc' = "read",
           tbl' = tbl, Contents' = Contents
    PROVE  Conf!Take
  <1> DEFINE s == Conf!Stripped(line)
  <1>1. pc = "take" /\ ini_line_read \in {"empty", "keyval"} /\ line' = <<>>
    BY DEF Taken
  <1>2. ~(Conf!IsHeader(s) /\ Conf!Name(s) # <<>>)
    BY <1>1, LineIs
  <1>3. ~(Conf!IsSetting(s) /\ tbl # 0 /\ Conf!Key(s) \in Tables[tbl].keys)
    <2> SUFFICES ASSUME Conf!IsSetting(s) PROVE ~(tbl # 0 /\ Conf!Key(s) \in Tables[tbl].keys)
      OBVIOUS
    <2>1. ini_line_read = "keyval" /\ Str(CutOut, 1) = Conf!Key(s)
      BY <1>1, LineIs
    <2>2. ~Known
      BY <2>1 DEF Taken
    <2> QED BY <2>1, <2>2 DEF Known, None
  <1> HIDE DEF s
  <1>4. Conf!Skip
    BY <1>2, <1>3, Zenon DEF Conf!Skip, s
  <1> QED BY <1>1, <1>4 DEF Conf!Take

\* Every step is one of ConfFile, or changes nothing that it sees
LEMMA NextFile ==
    ASSUME Inv, Filled, Shaped, [Next]_vars
    PROVE  FileStep \/ UNCHANGED Conf!vars
  <1>1. CASE Load \/ Overrun \/ UNCHANGED vars
    <2>1. /\ line' = line /\ tbl' = tbl /\ UNCHANGED <<keys, text, list>>
          /\ pc' = "take" <=> pc = "take"
      BY <1>1 DEF Load, Overrun, vars, memory
    <2>2. Contents' = Contents
      BY <2>1, SameContents
    <2> QED BY <2>1, <2>2 DEF Conf!vars
  <1>2. CASE Read
    <2>1. Contents' = Contents
      BY <1>2, SameContents DEF Read, memory
    <2>2. (\E l \in Lines : line' = l) /\ pc' = "take" /\ tbl' = tbl
      BY <1>2 DEF Read
    <2> QED BY <2>1, <2>2 DEF FileStep, Conf!Read
  <1>3. CASE ReadEnds \/ AddSectionFails \/ AddKeyvalFails
    <2>1. UNCHANGED memory /\ line' = <<>> /\ tbl' = None /\ pc' = "out"
      BY <1>3 DEF ReadEnds, AddSectionFails, AddKeyvalFails, Leave, Taken, Filled
    <2>2. Contents' = Contents
      BY <2>1, SameContents DEF memory
    <2> QED BY <2>1, <2>2 DEF FileStep, Conf!Stop, None
  <1>4. CASE AddSection
    <2>1. PICK u, c : SectionAdded(u, c) /\ u = TableOf(SectionName(str_trim(buf, 1)))
      BY <1>4, SectionStep
    <2>2. Contents' = [t \in TableIds |->
               IF t = u THEN Append(Contents[t], [k \in Tables[t].keys |-> <<NUL>>])
                        ELSE Contents[t]]
      BY <2>1, SectionShown
    <2>3. tbl' = u /\ DOMAIN Contents = TableIds
      BY <2>1, ContentsAre, Zenon DEF SectionAdded
    <2>4. Contents' = [t \in DOMAIN Contents |->
               IF t = tbl' THEN Append(Contents[t], [k \in Tables[t].keys |-> <<NUL>>])
                           ELSE Contents[t]]
      BY <2>2, <2>3, Zenon
    <2>5. Taken("section") /\ pc' = "read"
      BY <1>4 DEF AddSection
    <2>6. tbl' = TableOf(SectionName(str_trim(buf, 1)))
      BY <2>1, <2>3
    <2> QED BY <2>4, <2>5, <2>6, HeaderTaken, Zenon DEF FileStep
  <1>5. CASE UnknownSection
    <2>1. /\ Taken("section") /\ pc' = "read" /\ tbl' = None /\ UNCHANGED memory
          /\ tbl' = TableOf(SectionName(str_trim(buf, 1)))
      BY <1>5 DEF UnknownSection
    <2>2. Contents' = Contents
      BY <2>1, SameContents DEF memory
    <2>3. DOMAIN Contents = TableIds /\ Contents = [t \in TableIds |-> Contents[t]]
      BY ContentsAre, Zenon
    <2>4. \A t \in TableIds : t # tbl'
      BY <2>1, Numbers
    <2>5. Contents' = [t \in DOMAIN Contents |->
               IF t = tbl' THEN Append(Contents[t], [k \in Tables[t].keys |-> <<NUL>>])
                           ELSE Contents[t]]
      BY <2>2, <2>3, <2>4, Zenon
    <2> QED BY <2>1, <2>5, HeaderTaken, Zenon DEF FileStep
  <1>6. CASE AddKeyval
    <2>1. KeyvalAdded(Fresh, Str(CutOut, 1), Str(CutOut, Assign + 1))
      BY <1>6, KeyvalStep
    <2>2. ValueShown(Str(CutOut, 1), Str(CutOut, Assign + 1))
      BY <2>1, KeyvalShown
    <2>3. Taken("keyval") /\ Known /\ pc' = "read" /\ tbl' = tbl
      BY <1>6 DEF AddKeyval
    <2> QED BY <2>2, <2>3, SettingTaken DEF FileStep
  <1>7. CASE Skip
    <2>1. /\ Taken("empty") \/ (Taken("keyval") /\ ~Known)
          /\ pc' = "read" /\ tbl' = tbl /\ UNCHANGED memory
      BY <1>7 DEF Skip
    <2>2. Contents' = Contents
      BY <2>1, SameContents DEF memory
    <2> QED BY <2>1, <2>2, LineSkipped DEF FileStep
  <1>8. ASSUME NEW t \in TableIds, Clean(t) PROVE FileStep
    <2>1. Contents' = [Contents EXCEPT ![t] = <<>>]
      BY <1>8, CleanStep, CleanShown
    <2>2. t \in DOMAIN Contents
      BY ContentsAre, Zenon
    <2>3. line' = line /\ pc' = pc /\ tbl' = tbl
      BY <1>8 DEF Clean
    <2>4. Conf!Clean
      BY <2>1, <2>2, <2>3, Zenon DEF Conf!Clean
    <2> QED BY <2>4 DEF FileStep
  <1>9. ASSUME NEW t \in TableIds, CleanAstray(t) PROVE UNCHANGED Conf!vars
    <2>1. /\ line' = line /\ tbl' = tbl /\ UNCHANGED <<keys, text, list>> /\ pc' = pc
      BY <1>9 DEF CleanAstray, memory
    <2>2. Contents' = Contents
      BY <2>1, SameContents
    <2> QED BY <2>1, <2>2 DEF Conf!vars
  <1> QED BY <1>1, <1>2, <1>3, <1>4, <1>5, <1>6, <1>7, <1>8, <1>9 DEF Next

\* Whatever the lines and the tables are, as long as it stays in its memory a load stores
\* what the file means: the tables after each step of conf_ini_load and conf_ini_clean
\* (conf_ini.c:213-279) are those that ConfFile allows, which has the rules of conf_ini.h
\* for values and knows nothing of buffers, positions and memory.
THEOREM Implementation == Spec => ImplementsConfFile
  <1>1. Inv /\ Filled /\ Shaped /\ [Next]_vars
            => [Conf!Read \/ Conf!Take \/ Conf!Stop \/ Conf!Clean]_Conf!vars
    BY NextFile DEF FileStep
  <1> QED BY <1>1, InitFile, Invariant, FilledInvariant, ShapedInvariant, PTL
          DEF Spec, ImplementsConfFile, Conf!Spec
=============================================================================
