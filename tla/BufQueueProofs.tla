--------------------------- MODULE BufQueueProofs ---------------------------
(***************************************************************************)
(* Proofs about BufQueue, for every size of the ring, all callers and all  *)
(* lengths: its types, the exclusion by the semaphore, that the test for   *)
(* free space accepts exactly what fits, and that the ring implements      *)
(* ByteQueue.                                                              *)
(***************************************************************************)
EXTENDS BufQueue, FiniteSetTheorems, SequenceTheorems, TLAPS

-----------------------------------------------------------------------------
(* Arithmetic on the ring *)

\* Remainders of what is less than twice the modulus
LEMMA ModSmall == ASSUME NEW s \in Nat \ {0}, NEW a \in 0 .. s - 1 PROVE a % s = a
  BY SMT
LEMMA ModLarge == ASSUME NEW s \in Nat \ {0}, NEW a \in s .. s + s - 1 PROVE a % s = a - s
  BY SMT

\* The cell that comes d cells after c, for d up to Size
LEMMA CellAfter ==
    ASSUME NEW c \in Cells, NEW d \in 0 .. Size - 1
    PROVE  /\ (c + d) % Size = IF c + d < Size THEN c + d ELSE c + d - Size
           /\ (c + d) % Size \in Cells
  <1>1. Size \in Nat \ {0} BY SizeAssumption
  <1>2. CASE c + d < Size
    <2>1. c + d \in 0 .. Size - 1 BY <1>1, <1>2 DEF Cells
    <2>2. (c + d) % Size = c + d BY <1>1, <2>1, SMT
    <2> QED BY <1>1, <1>2, <2>1, <2>2 DEF Cells
  <1>3. CASE ~(c + d < Size)
    <2>1. c + d \in Size .. Size + Size - 1 BY <1>1, <1>3 DEF Cells
    <2> PICK a \in Size .. Size + Size - 1 : a = c + d BY <2>1
    <2>2. a % Size = a - Size BY <1>1, ModLarge
    <2>3. (c + d) % Size = a % Size OBVIOUS
    <2>4. (c + d) % Size = c + d - Size BY <1>1, <2>2, <2>3 DEF Cells
    <2> QED BY <1>1, <1>3, <2>1, <2>4 DEF Cells
  <1> QED BY <1>2, <1>3

\* The number of unread bytes for given pointers
Distance(w, r) == (w + Size - r) % Size

LEMMA DistanceIs ==
    ASSUME NEW w \in Cells, NEW r \in Cells
    PROVE  /\ Distance(w, r) = IF r <= w THEN w - r ELSE w + Size - r
           /\ Distance(w, r) \in Cells
  <1>1. Size \in Nat \ {0} BY SizeAssumption
  <1>2. CASE r <= w
    <2>1. w + Size - r \in Size .. Size + Size - 1 BY <1>1, <1>2 DEF Cells
    <2> PICK a \in Size .. Size + Size - 1 : a = w + Size - r BY <2>1
    <2>2. a % Size = a - Size BY <1>1, ModLarge
    <2>3. (w + Size - r) % Size = a % Size OBVIOUS
    <2>4. (w + Size - r) % Size = w + Size - r - Size BY <1>1, <2>2, <2>3 DEF Cells
    <2> QED BY <1>1, <1>2, <2>4 DEF Distance, Cells
  <1>3. CASE ~(r <= w)
    <2>1. w + Size - r \in 0 .. Size - 1 BY <1>1, <1>3 DEF Cells
    <2>2. (w + Size - r) % Size = w + Size - r BY <1>1, <2>1, SMT
    <2> QED BY <1>1, <1>3, <2>2 DEF Distance, Cells
  <1> QED BY <1>2, <1>3

\* buf_queue_append's two tests (buf_queue.c:84, 90) accept a message of n bytes
\* exactly when the unread bytes and the message leave one cell free, wherever in
\* the ring the pointers stand; they never accept an empty message.
THEOREM FreeSpaceExact ==
    ASSUME ptr_w \in Cells, ptr_r \in Cells, NEW n \in 0 .. Size - 1
    PROVE  LET a == (ptr_w + n) % Size IN
           (Contiguous(a) \/ Wrapped(a)) <=> (n > 0 /\ Distance(ptr_w, ptr_r) + n <= Size - 1)
  <1>1. Size \in Nat \ {0} BY SizeAssumption
  <1>2. (ptr_w + n) % Size = IF ptr_w + n < Size THEN ptr_w + n ELSE ptr_w + n - Size
    BY CellAfter
  <1>3. Distance(ptr_w, ptr_r) = IF ptr_r <= ptr_w THEN ptr_w - ptr_r ELSE ptr_w + Size - ptr_r
    BY DistanceIs
  <1> QED BY <1>1, <1>2, <1>3 DEF Cells, Contiguous, Wrapped

-----------------------------------------------------------------------------
(* The inductive invariant *)

Bytes == (Nat \X Nat) \cup {<<>>}

Types ==
    /\ hdl \in BOOLEAN /\ sem \in {0, 1} /\ calls \in Nat
    /\ ptr_w \in Cells /\ ptr_r \in Cells /\ addr \in [Cells -> Bytes]
    /\ pc \in [Callers -> CriticalPCs \cup WaitPCs \cup {"idle", "sleep"}]
    /\ msg \in [Callers -> Seq(Bytes)] /\ buf \in [Callers -> Seq(Bytes)]
    /\ waittime \in [Callers -> Nat \cup {-1}] /\ length \in [Callers -> Nat]

\* What a call has been given, or has read, fits into the ring
Short == \A p \in Callers :
    Len(msg[p]) < Size /\ Len(buf[p]) <= length[p] /\ length[p] < Size

\* The semaphore is a lock: whoever is behind Wait has it, and nobody else
Exclusive ==
    /\ \A p \in Callers : pc[p] \in CriticalPCs => sem = 0
    /\ \A p, q \in Callers : pc[p] \in CriticalPCs /\ pc[q] \in CriticalPCs => p = q
    /\ sem = 0 => \E p \in Callers : pc[p] \in CriticalPCs

\* A call has only its own parameters, and a read nothing before it looks
Params == \A p \in Callers :
    /\ pc[p] \notin AppendPCs \cup {"append_wait", "sleep"} => msg[p] = <<>>
    /\ pc[p] \notin {"read_wait", "read", "read_done"} => length[p] = 0
    /\ pc[p] \notin {"read", "read_done"} => buf[p] = <<>>

\* Between the copy and the new ptr_w the message is in the free cells behind ptr_w
Filled == \A p \in Callers : pc[p] = "advance" =>
    /\ msg[p] # <<>> /\ Distance(ptr_w, ptr_r) + Len(msg[p]) <= Size - 1
    /\ \A j \in 1 .. Len(msg[p]) : addr[(ptr_w + (j - 1)) % Size] = msg[p][j]

Inv == Types /\ Short /\ Exclusive /\ Params /\ Filled

-----------------------------------------------------------------------------
(* Steps that leave the ring alone *)

\* A caller that moves without passing the semaphore, on one side of it
LEMMA SameSide ==
    ASSUME Types, Exclusive, NEW p \in Callers, NEW l, Goto(p, l), UNCHANGED sem,
           l \in CriticalPCs <=> pc[p] \in CriticalPCs
    PROVE  Exclusive'
  BY DEF Types, Exclusive, Goto

\* Nobody comes to "advance", and what Filled says of those there stays
LEMMA FilledStays ==
    ASSUME Types, Filled, NEW p \in Callers, NEW l, Goto(p, l), l # "advance",
           UNCHANGED ring, \A q \in Callers : q # p => msg'[q] = msg[q]
    PROVE  Filled'
  BY DEF Types, Filled, Goto, ring, Distance

LEMMA MessageIs ==
    ASSUME NEW k \in Nat, NEW n \in Nat
    PROVE  Message(k, n) \in Seq(Bytes) /\ Len(Message(k, n)) = n
  BY DEF Message, Bytes

LEMMA AppendCallKeeps ==
    ASSUME Inv, NEW p \in Writers, AppendCall(p) PROVE Inv'
  <1>1. p \in Callers BY DEF Callers
  <1>2. PICK n \in AppendLengths, w \in Waittimes \cup {Forever} :
           /\ n \in Nat /\ n < Size - 1 /\ w \in Nat \cup {-1}
           /\ msg' = [msg EXCEPT ![p] = Message(calls + 1, n)]
           /\ waittime' = [waittime EXCEPT ![p] = w]
    BY CallsAssumption DEF AppendCall, GoodLength, Forever
  <1>3. Message(calls + 1, n) \in Seq(Bytes) /\ Len(Message(calls + 1, n)) = n
    BY <1>2, MessageIs DEF Inv, Types
  <1>4. Types'
    BY <1>1, <1>2, <1>3 DEF Inv, Types, AppendCall, Goto, ring, WaitPCs
  <1>5. Short'
    BY <1>1, <1>2, <1>3, SizeAssumption DEF Inv, Types, Short, AppendCall
  <1>6. Exclusive'
    BY <1>1, SameSide DEF Inv, AppendCall, CriticalPCs, AppendPCs, ReadPCs
  <1>7. Params'
    BY <1>1, <1>2 DEF Inv, Types, Params, AppendCall, Goto
  <1>8. Filled'
    BY <1>1, <1>2, FilledStays DEF Inv, Types, AppendCall
  <1> QED BY <1>4, <1>5, <1>6, <1>7, <1>8 DEF Inv

LEMMA ReadCallKeeps ==
    ASSUME Inv, NEW p \in Readers, ReadCall(p) PROVE Inv'
  <1>1. p \in Callers BY DEF Callers
  <1>2. PICK n \in Nat : n < Size - 1 /\ length' = [length EXCEPT ![p] = n]
    BY CallsAssumption DEF ReadCall, GoodLength
  <1>3. Types'
    BY <1>1, <1>2 DEF Inv, Types, ReadCall, Goto, ring, WaitPCs
  <1>4. Short'
    <2>1. Len(buf[p]) = 0 BY <1>1 DEF Inv, Params, ReadCall
    <2> QED BY <1>1, <1>2, <2>1, SizeAssumption DEF Inv, Types, Short, ReadCall
  <1>5. Exclusive'
    BY <1>1, SameSide DEF Inv, ReadCall, CriticalPCs, AppendPCs, ReadPCs
  <1>6. Params'
    BY <1>1, <1>2 DEF Inv, Types, Params, ReadCall, Goto, AppendPCs
  <1>7. Filled'
    BY <1>1, FilledStays DEF Inv, ReadCall
  <1> QED BY <1>3, <1>4, <1>5, <1>6, <1>7 DEF Inv

LEMMA SizeCallKeeps ==
    ASSUME Inv, NEW p \in Callers, SizeCall(p) PROVE Inv'
  <1>1. Types' BY DEF Inv, Types, SizeCall, Goto, ring, params, WaitPCs
  <1>2. Short' BY DEF Inv, Short, SizeCall, params
  <1>3. Exclusive'
    BY SameSide DEF Inv, SizeCall, CriticalPCs, AppendPCs, ReadPCs
  <1>4. Params' BY DEF Inv, Types, Params, SizeCall, Goto, params, AppendPCs
  <1>5. Filled' BY FilledStays DEF Inv, SizeCall, params
  <1> QED BY <1>1, <1>2, <1>3, <1>4, <1>5 DEF Inv

LEMMA AwakeKeeps ==
    ASSUME Inv, NEW p \in Callers, Awake(p) PROVE Inv'
  <1>1. Types' BY DEF Inv, Types, Awake, Goto, ring, params, WaitPCs
  <1>2. Short' BY DEF Inv, Short, Awake, params
  <1>3. Exclusive'
    BY SameSide DEF Inv, Awake, CriticalPCs, AppendPCs, ReadPCs
  <1>4. Params' BY DEF Inv, Types, Params, Awake, Goto, params, AppendPCs
  <1>5. Filled' BY FilledStays DEF Inv, Awake, params
  <1> QED BY <1>1, <1>2, <1>3, <1>4, <1>5 DEF Inv

\* Where a caller goes on behind the semaphore
Behind(p) == CASE pc[p] = "append_wait" -> "append"
               [] pc[p] = "read_wait"   -> "read"
               [] pc[p] = "size_wait"   -> "size"

LEMMA WaitKeeps ==
    ASSUME Inv, NEW p \in Callers, Wait(p) PROVE Inv'
  <1>1. Goto(p, Behind(p)) /\ pc[p] \in WaitPCs BY DEF Wait, Behind
  <1>2. /\ Behind(p) \in {"append", "read", "size"}
        /\ pc[p] = "append_wait" <=> Behind(p) = "append"
        /\ pc[p] = "read_wait" <=> Behind(p) = "read"
    BY <1>1 DEF Behind, WaitPCs
  <1>3. Behind(p) \in CriticalPCs /\ Behind(p) # "advance" /\ pc[p] \notin CriticalPCs
    BY <1>1, <1>2 DEF CriticalPCs, AppendPCs, ReadPCs, WaitPCs
  <1>4. sem = 1 /\ sem' = 0 BY DEF Inv, Types, Wait
  <1>5. Types' BY <1>1, <1>3, <1>4 DEF Inv, Types, Wait, Goto, ring, params
  <1>6. Short' BY DEF Inv, Short, Wait, params
  <1>7. Exclusive' BY <1>1, <1>3, <1>4 DEF Inv, Types, Exclusive, Goto
  <1>8. Params'
    BY <1>1, <1>2 DEF Inv, Types, Params, Wait, Goto, params, AppendPCs, WaitPCs
  <1>9. Filled' BY <1>1, <1>3, FilledStays DEF Inv, Wait, params
  <1> QED BY <1>5, <1>6, <1>7, <1>8, <1>9 DEF Inv

LEMMA PostKeeps ==
    ASSUME Inv, NEW p \in Callers, Post(p) PROVE Inv'
  <1>1. pc[p] \in CriticalPCs
    BY DEF Post, CriticalPCs, AppendPCs, ReadPCs
  <1>2. sem = 0 /\ sem' = 1 BY <1>1 DEF Inv, Types, Exclusive, Post, Release
  <1>3. PICK l \in {"idle", "sleep"} : Goto(p, l) /\ (l = "sleep" <=> pc[p] = "retry")
    BY DEF Post
  <1>4. l \notin CriticalPCs /\ l # "advance"
    BY <1>3 DEF CriticalPCs, AppendPCs, ReadPCs
  <1>5. CASE pc[p] = "retry"
    <2>1. UNCHANGED params BY <1>5 DEF Post
    <2>2. Types' BY <1>2, <1>3, <2>1 DEF Inv, Types, Post, Goto, ring, params
    <2>3. Short' BY <2>1 DEF Inv, Short, params
    <2>4. Exclusive' BY <1>1, <1>2, <1>3, <1>4 DEF Inv, Types, Exclusive, Goto
    <2>5. Params' BY <1>3, <1>5, <2>1 DEF Inv, Types, Params, Goto, params, AppendPCs
    <2>6. Filled' BY <1>3, <1>4, <2>1, FilledStays DEF Inv, Post, params
    <2> QED BY <2>2, <2>3, <2>4, <2>5, <2>6 DEF Inv
  <1>6. CASE pc[p] # "retry"
    <2>1. /\ Goto(p, "idle")
          /\ msg' = [msg EXCEPT ![p] = <<>>] /\ waittime' = [waittime EXCEPT ![p] = 0]
          /\ length' = [length EXCEPT ![p] = 0] /\ buf' = [buf EXCEPT ![p] = <<>>]
      BY <1>6 DEF Post
    <2>2. Types'
      <3>1. <<>> \in Seq(Bytes) OBVIOUS
      <3> QED BY <1>2, <2>1, <3>1 DEF Inv, Types, Post, Goto, ring
    <2>3. Short'
      <3>1. Len(<<>>) = 0 /\ 0 < Size BY SizeAssumption
      <3> QED BY <2>1, <3>1 DEF Inv, Types, Short
    <2>4. Exclusive' BY <1>1, <1>2, <1>3, <1>4 DEF Inv, Types, Exclusive, Goto
    <2>5. Params' BY <2>1 DEF Inv, Types, Params, Goto, AppendPCs
    <2>6. Filled' BY <1>3, <1>4, <2>1, FilledStays DEF Inv, Types, Post
    <2> QED BY <2>2, <2>3, <2>4, <2>5, <2>6 DEF Inv
  <1> QED BY <1>5, <1>6

LEMMA NoRoomKeeps ==
    ASSUME Inv, NEW p \in Callers, NoRoom(p) PROVE Inv'
  <1>1. PICK l \in {"retry", "timeout"} : Goto(p, l)
    BY DEF NoRoom
  <1>2. waittime' \in [Callers -> Nat \cup {-1}]
    <2>1. CASE waittime[p] = -1 BY <2>1 DEF Inv, Types, NoRoom, Forever
    <2>2. CASE waittime[p] # -1
      <3>1. waittime[p] - 1 \in Nat \cup {-1} BY <2>2 DEF Inv, Types
      <3> QED BY <2>2, <3>1 DEF Inv, Types, NoRoom, Forever
    <2> QED BY <2>1, <2>2
  <1>3. Types'
    BY <1>1, <1>2 DEF Inv, Types, NoRoom, Goto, ring, CriticalPCs, AppendPCs
  <1>4. Short' BY DEF Inv, Short, NoRoom
  <1>5. Exclusive'
    BY <1>1, SameSide DEF Inv, NoRoom, CriticalPCs, AppendPCs
  <1>6. Params' BY <1>1 DEF Inv, Types, Params, NoRoom, Goto, AppendPCs
  <1>7. Filled' BY <1>1, FilledStays DEF Inv, NoRoom
  <1> QED BY <1>3, <1>4, <1>5, <1>6, <1>7 DEF Inv

LEMMA ReadDoneKeeps ==
    ASSUME Inv, NEW p \in Callers, ReadDone(p) PROVE Inv'
  <1>1. Types'
    BY DEF Inv, Types, ReadDone, Goto, ring, params, CriticalPCs, ReadPCs
  <1>2. Short' BY DEF Inv, Short, ReadDone, params
  <1>3. Exclusive' BY SameSide DEF Inv, ReadDone, CriticalPCs, ReadPCs
  <1>4. Params' BY DEF Inv, Types, Params, ReadDone, Goto, params, AppendPCs
  <1>5. Filled' BY FilledStays DEF Inv, ReadDone, params
  <1> QED BY <1>1, <1>2, <1>3, <1>4, <1>5 DEF Inv

LEMMA DeleteKeeps == ASSUME Inv, Delete PROVE Inv'
  BY DEF Inv, Types, Short, Exclusive, Params, Filled, Delete, ring, params, Distance

-----------------------------------------------------------------------------
(* Steps that use the ring *)

LEMMA SubSeqIs ==
    ASSUME NEW S, NEW s \in Seq(S), NEW i \in Nat \ {0}, NEW j \in Nat,
           i <= j + 1, j <= Len(s)
    PROVE  /\ SubSeq(s, i, j) \in Seq(S) /\ Len(SubSeq(s, i, j)) = j - i + 1
           /\ \A k \in 1 .. j - i + 1 : SubSeq(s, i, j)[k] = s[i + k - 1]
  OBVIOUS

LEMMA StoredIs ==
    ASSUME NEW cells \in [Cells -> Bytes], NEW i \in Nat, NEW m \in Seq(Bytes)
    PROVE  /\ Stored(cells, i, m) \in [Cells -> Bytes]
           /\ \A c \in Cells : Stored(cells, i, m)[c] =
                  IF c \in i .. i + Len(m) - 1 THEN m[c - i + 1] ELSE cells[c]
  <1>1. \A c \in Cells : c \in i .. i + Len(m) - 1 => c - i + 1 \in 1 .. Len(m)
    BY SizeAssumption DEF Cells
  <1>2. \A j \in 1 .. Len(m) : m[j] \in Bytes OBVIOUS
  <1> QED BY <1>1, <1>2 DEF Stored

\* What Copy has to know of the place: the message is not empty and fits
LEMMA Fitting ==
    ASSUME Inv, NEW p \in Callers, HasRoom(p)
    PROVE  /\ Len(msg[p]) \in 1 .. Size - 1
           /\ Distance(ptr_w, ptr_r) + Len(msg[p]) <= Size - 1
  <1>1. Len(msg[p]) \in 0 .. Size - 1 BY SizeAssumption DEF Inv, Types, Short
  <1>2. ptr_w \in Cells /\ ptr_r \in Cells BY DEF Inv, Types
  <1> QED BY <1>1, <1>2, FreeSpaceExact DEF HasRoom, ptr_a

LEMMA CopyWrites ==
    ASSUME Inv, NEW p \in Callers, Copy(p)
    PROVE  /\ addr' \in [Cells -> Bytes]
           /\ \A j \in 1 .. Len(msg[p]) : addr'[(ptr_w + (j - 1)) % Size] = msg[p][j]
           /\ \A k \in 1 .. Distance(ptr_w, ptr_r) :
                  addr'[(ptr_r + (k - 1)) % Size] = addr[(ptr_r + (k - 1)) % Size]
  <1> DEFINE m == msg[p]
             n == Len(msg[p])
             D == Distance(ptr_w, ptr_r)
             a == ptr_a(p)
             left == Size - ptr_w
  <1>1. /\ Size \in Nat \ {0} /\ ptr_w \in Cells /\ ptr_r \in Cells
        /\ addr \in [Cells -> Bytes] /\ m \in Seq(Bytes)
    BY SizeAssumption DEF Inv, Types
  <1>2. n \in 1 .. Size - 1 /\ D + n <= Size - 1 BY Fitting DEF Copy
  <1>3. a = IF ptr_w + n < Size THEN ptr_w + n ELSE ptr_w + n - Size
    BY <1>1, <1>2, CellAfter DEF ptr_a
  <1>4. D = IF ptr_r <= ptr_w THEN ptr_w - ptr_r ELSE ptr_w + Size - ptr_r
    BY <1>1, DistanceIs
  <1>5. \A j \in 1 .. n : /\ (ptr_w + (j - 1)) % Size \in Cells
                          /\ (ptr_w + (j - 1)) % Size =
                                IF ptr_w + j - 1 < Size THEN ptr_w + j - 1 ELSE ptr_w + j - 1 - Size
    <2> TAKE j \in 1 .. n
    <2>1. j - 1 \in 0 .. Size - 1 BY <1>1, <1>2
    <2> QED BY <1>1, <2>1, CellAfter DEF Cells
  <1>6. \A k \in 1 .. D : /\ (ptr_r + (k - 1)) % Size \in Cells
                          /\ (ptr_r + (k - 1)) % Size =
                                IF ptr_r + k - 1 < Size THEN ptr_r + k - 1 ELSE ptr_r + k - 1 - Size
    <2> TAKE k \in 1 .. D
    <2>1. k - 1 \in 0 .. Size - 1 BY <1>1, <1>2, <1>4 DEF Cells
    <2> QED BY <1>1, <2>1, CellAfter DEF Cells
  <1>7. n = Len(m) OBVIOUS
  <1> SUFFICES /\ addr' \in [Cells -> Bytes]
               /\ \A j \in 1 .. n : addr'[(ptr_w + (j - 1)) % Size] = m[j]
               /\ \A k \in 1 .. D :
                      addr'[(ptr_r + (k - 1)) % Size] = addr[(ptr_r + (k - 1)) % Size]
    OBVIOUS
  <1> HIDE DEF m, n, D, a
  <1>8. CASE Contiguous(a)
    <2>1. ptr_w + n < Size BY <1>1, <1>2, <1>3, <1>8 DEF Contiguous, Cells
    <2>2. addr' = Stored(addr, ptr_w, m) BY <1>8 DEF Copy, m, a
    <2>3. /\ addr' \in [Cells -> Bytes]
          /\ \A c \in Cells : addr'[c] = IF c \in ptr_w .. ptr_w + n - 1
                                         THEN m[c - ptr_w + 1] ELSE addr[c]
      BY <1>1, <2>2, StoredIs DEF Cells, m, n
    <2>4. \A j \in 1 .. n : addr'[(ptr_w + (j - 1)) % Size] = m[j]
      <3> TAKE j \in 1 .. n
      <3> DEFINE c == (ptr_w + (j - 1)) % Size
      <3>1. c \in Cells /\ c = IF ptr_w + j - 1 < Size THEN ptr_w + j - 1 ELSE ptr_w + j - 1 - Size
        BY <1>5
      <3> SUFFICES addr'[c] = m[j] OBVIOUS
      <3> HIDE DEF c
      <3>2. c = ptr_w + j - 1 /\ c \in ptr_w .. ptr_w + n - 1 /\ c - ptr_w + 1 = j
        BY <1>1, <1>2, <2>1, <3>1 DEF Cells
      <3> QED BY <2>3, <3>1, <3>2
    <2>5. \A k \in 1 .. D : addr'[(ptr_r + (k - 1)) % Size] = addr[(ptr_r + (k - 1)) % Size]
      <3> TAKE k \in 1 .. D
      <3> DEFINE c == (ptr_r + (k - 1)) % Size
      <3>1. c \in Cells /\ c = IF ptr_r + k - 1 < Size THEN ptr_r + k - 1 ELSE ptr_r + k - 1 - Size
        BY <1>6
      <3> SUFFICES addr'[c] = addr[c] OBVIOUS
      <3> HIDE DEF c
      <3>2. c \notin ptr_w .. ptr_w + n - 1
        BY <1>1, <1>2, <1>4, <2>1, <3>1 DEF Cells
      <3> QED BY <2>3, <3>1, <3>2
    <2> QED BY <2>3, <2>4, <2>5
  <1>9. CASE ~Contiguous(a)
    <2>1. /\ ptr_r <= ptr_w /\ ptr_w + n >= Size /\ left \in 1 .. n
          /\ a = ptr_w + n - Size /\ a < ptr_r
      <3>1. ptr_r <= ptr_w /\ a < ptr_r
        BY <1>1, <1>2, <1>9 DEF Copy, HasRoom, Wrapped, a
      <3> QED BY <1>1, <1>2, <1>3, <1>9, <3>1 DEF Contiguous, Cells
    <2> DEFINE first == SubSeq(m, 1, left)
               rest  == SubSeq(m, left + 1, n)
               half  == Stored(addr, ptr_w, first)
    <2>2. addr' = Stored(half, 0, rest) BY <1>9 DEF Copy, m, n, a
    <2>3. /\ first \in Seq(Bytes) /\ Len(first) = left
          /\ \A i \in 1 .. left : first[i] = m[i]
      <3>1. left \in Nat /\ left <= Len(m) BY <1>1, <1>2, <1>7, <2>1 DEF Cells
      <3>2. \A i \in 1 .. left : m[1 + i - 1] = m[i] OBVIOUS
      <3>3. left - 1 + 1 = left BY <3>1
      <3> QED BY <1>1, <3>1, <3>2, <3>3, SubSeqIs
    <2>4. /\ rest \in Seq(Bytes) /\ Len(rest) = n - left
          /\ \A i \in 1 .. n - left : rest[i] = m[left + i]
      <3>1. left + 1 \in Nat \ {0} /\ n \in Nat /\ left + 1 <= n + 1 /\ n <= Len(m)
        BY <1>1, <1>2, <1>7, <2>1 DEF Cells
      <3>2. /\ rest \in Seq(Bytes) /\ Len(rest) = n - (left + 1) + 1
            /\ \A i \in 1 .. n - (left + 1) + 1 : rest[i] = m[left + 1 + i - 1]
        BY <1>1, <3>1, SubSeqIs
      <3>3. n - (left + 1) + 1 = n - left /\ \A i \in Int : left + 1 + i - 1 = left + i
        BY <3>1, <2>1
      <3> QED BY <3>2, <3>3
    <2>5. left = Size - ptr_w OBVIOUS
    <2> HIDE DEF first, rest, left
    <2>6. /\ half \in [Cells -> Bytes]
          /\ \A c \in Cells : half[c] = IF c \in ptr_w .. ptr_w + left - 1
                                        THEN first[c - ptr_w + 1] ELSE addr[c]
      <3>1. ptr_w \in Nat BY <1>1 DEF Cells
      <3> QED BY <1>1, <2>3, <3>1, StoredIs DEF half
    <2>7. /\ addr' \in [Cells -> Bytes]
          /\ \A c \in Cells : addr'[c] = IF c \in 0 .. n - left - 1
                                         THEN rest[c + 1] ELSE half[c]
      <3>1. /\ addr' \in [Cells -> Bytes]
            /\ \A c \in Cells : addr'[c] = IF c \in 0 .. 0 + Len(rest) - 1
                                           THEN rest[c - 0 + 1] ELSE half[c]
        BY <2>2, <2>4, <2>6, StoredIs
      <3>2. 0 + Len(rest) - 1 = n - left - 1 /\ \A c \in Cells : c - 0 + 1 = c + 1
        BY <1>1, <1>2, <2>1, <2>4, <2>5 DEF Cells
      <3> QED BY <3>1, <3>2
    <2> HIDE DEF half
    <2>8. \A c \in Cells : /\ c < n - left => addr'[c] = m[left + c + 1]
                           /\ c >= ptr_w => addr'[c] = m[c - ptr_w + 1]
                           /\ c >= n - left /\ c < ptr_w => addr'[c] = addr[c]
      <3> TAKE c \in Cells
      <3>1. left = Size - ptr_w /\ n < Size /\ left <= n BY <1>1, <1>2, <2>1, <2>5
      <3>2. ASSUME c < n - left PROVE addr'[c] = m[left + c + 1]
        <4>1. c \in 0 .. n - left - 1 /\ c + 1 \in 1 .. n - left
          BY <1>1, <1>2, <2>1, <3>1, <3>2 DEF Cells
        <4>2. addr'[c] = rest[c + 1] BY <2>7, <4>1
        <4>3. rest[c + 1] = m[left + (c + 1)] BY <2>4, <4>1
        <4>4. left + (c + 1) = left + c + 1 BY <1>1, <3>1 DEF Cells
        <4> QED BY <4>2, <4>3, <4>4
      <3>3. ASSUME c >= ptr_w PROVE addr'[c] = m[c - ptr_w + 1]
        <4>1. /\ c \notin 0 .. n - left - 1 /\ c \in ptr_w .. ptr_w + left - 1
              /\ c - ptr_w + 1 \in 1 .. left
          BY <1>1, <1>2, <2>1, <3>1, <3>3 DEF Cells
        <4> QED BY <2>3, <2>6, <2>7, <4>1
      <3>4. ASSUME c >= n - left, c < ptr_w PROVE addr'[c] = addr[c]
        <4>1. c \notin 0 .. n - left - 1 /\ c \notin ptr_w .. ptr_w + left - 1
          BY <1>1, <1>2, <2>1, <3>1, <3>4 DEF Cells
        <4> QED BY <2>6, <2>7, <4>1
      <3> QED BY <3>2, <3>3, <3>4
    <2>9. \A j \in 1 .. n : addr'[(ptr_w + (j - 1)) % Size] = m[j]
      <3> TAKE j \in 1 .. n
      <3> DEFINE c == (ptr_w + (j - 1)) % Size
      <3>1. c \in Cells /\ c = IF ptr_w + j - 1 < Size THEN ptr_w + j - 1 ELSE ptr_w + j - 1 - Size
        BY <1>5
      <3> SUFFICES addr'[c] = m[j] OBVIOUS
      <3> HIDE DEF c
      <3>2. \/ c >= ptr_w /\ c - ptr_w + 1 = j
            \/ c < n - left /\ left + c + 1 = j
        BY <1>1, <1>2, <2>1, <2>5, <3>1 DEF Cells
      <3> QED BY <2>8, <3>1, <3>2
    <2>10. \A k \in 1 .. D : addr'[(ptr_r + (k - 1)) % Size] = addr[(ptr_r + (k - 1)) % Size]
      <3> TAKE k \in 1 .. D
      <3> DEFINE c == (ptr_r + (k - 1)) % Size
      <3>1. c \in Cells /\ c = IF ptr_r + k - 1 < Size THEN ptr_r + k - 1 ELSE ptr_r + k - 1 - Size
        BY <1>6
      <3> SUFFICES addr'[c] = addr[c] OBVIOUS
      <3> HIDE DEF c
      <3>2. c >= n - left /\ c < ptr_w
        BY <1>1, <1>2, <1>4, <2>1, <3>1 DEF Cells
      <3> QED BY <2>8, <3>1, <3>2
    <2> QED BY <2>7, <2>9, <2>10
  <1> QED BY <1>8, <1>9

LEMMA CopyKeeps ==
    ASSUME Inv, NEW p \in Callers, Copy(p) PROVE Inv'
  <1>1. Types'
    BY CopyWrites DEF Inv, Types, Copy, Goto, params, CriticalPCs, AppendPCs
  <1>2. Short' BY DEF Inv, Short, Copy, params
  <1>3. Exclusive' BY SameSide DEF Inv, Copy, CriticalPCs, AppendPCs
  <1>4. Params' BY DEF Inv, Types, Params, Copy, Goto, params, AppendPCs
  <1>5. Filled'
    <2>1. \A q \in Callers : pc'[q] = "advance" => q = p
      BY DEF Inv, Types, Exclusive, Copy, Goto, CriticalPCs, AppendPCs
    <2>2. msg[p] # <<>> /\ Distance(ptr_w, ptr_r) + Len(msg[p]) <= Size - 1
      BY Fitting DEF Copy
    <2>3. UNCHANGED <<ptr_w, ptr_r, msg>> BY DEF Copy, params
    <2> QED BY <2>1, <2>2, <2>3, CopyWrites DEF Filled, Distance
  <1> QED BY <1>1, <1>2, <1>3, <1>4, <1>5 DEF Inv

LEMMA AdvanceKeeps ==
    ASSUME Inv, NEW p \in Callers, Advance(p) PROVE Inv'
  <1>1. Types'
    <2>1. Len(msg[p]) \in 0 .. Size - 1 BY SizeAssumption DEF Inv, Types, Short
    <2>2. ptr_w' \in Cells BY <2>1, CellAfter DEF Inv, Types, Advance, ptr_a
    <2> QED BY <2>2 DEF Inv, Types, Advance, Goto, params, CriticalPCs, AppendPCs
  <1>2. Short' BY DEF Inv, Short, Advance, params
  <1>3. Exclusive' BY SameSide DEF Inv, Advance, CriticalPCs, AppendPCs
  <1>4. Params' BY DEF Inv, Types, Params, Advance, Goto, params, AppendPCs
  <1>5. Filled'
    <2>1. \A q \in Callers : pc'[q] # "advance"
      BY DEF Inv, Types, Exclusive, Advance, Goto, CriticalPCs, AppendPCs
    <2> QED BY <2>1 DEF Filled
  <1> QED BY <1>1, <1>2, <1>3, <1>4, <1>5 DEF Inv

LEMMA ReadByteKeeps ==
    ASSUME Inv, NEW p \in Callers, ReadByte(p) PROVE Inv'
  <1>1. addr[ptr_r] \in Bytes /\ buf[p] \in Seq(Bytes) BY DEF Inv, Types
  <1>2. /\ Append(buf[p], addr[ptr_r]) \in Seq(Bytes)
        /\ Len(Append(buf[p], addr[ptr_r])) = Len(buf[p]) + 1
    BY <1>1
  <1>3. Types'
    <2>1. ptr_r' \in Cells BY SizeAssumption DEF Inv, Types, ReadByte, NextCell, Cells
    <2> QED BY <1>2, <2>1 DEF Inv, Types, ReadByte
  <1>4. Short'
    <2>1. Len(buf[p]) + 1 <= length[p] BY <1>1 DEF Inv, Types, ReadByte, More
    <2> QED BY <1>2, <2>1 DEF Inv, Types, Short, ReadByte
  <1>5. Exclusive' BY DEF Inv, Exclusive, ReadByte
  <1>6. Params' BY DEF Inv, Types, Params, ReadByte
  <1>7. Filled'
    <2>1. \A q \in Callers : pc'[q] # "advance"
      BY DEF Inv, Types, Exclusive, ReadByte, CriticalPCs, AppendPCs, ReadPCs
    <2> QED BY <2>1 DEF Filled
  <1> QED BY <1>3, <1>4, <1>5, <1>6, <1>7 DEF Inv

-----------------------------------------------------------------------------
LEMMA InitInv == Init => Inv
  <1> SUFFICES ASSUME Init PROVE Inv OBVIOUS
  <1>1. 0 \in Cells /\ Size \in Nat \ {0} BY SizeAssumption DEF Cells
  <1>2. <<>> \in Seq(Bytes) /\ Len(<<>>) = 0 /\ <<>> \in Bytes BY DEF Bytes
  <1>3. \A p \in Callers : pc[p] = "idle" BY DEF Init
  <1>4. Types BY <1>1, <1>2 DEF Init, Types
  <1>5. Short BY <1>1, <1>2 DEF Init, Short
  <1>6. Exclusive /\ Filled
    BY <1>3 DEF Init, Exclusive, Filled, CriticalPCs, AppendPCs, ReadPCs
  <1>7. Params BY DEF Init, Params
  <1> QED BY <1>4, <1>5, <1>6, <1>7 DEF Inv

LEMMA StepInv == Inv /\ [Next]_vars => Inv'
  <1> SUFFICES ASSUME Inv, [Next]_vars PROVE Inv' OBVIOUS
  <1>1. CASE UNCHANGED vars
    BY <1>1 DEF Inv, Types, Short, Exclusive, Params, Filled, Distance, vars
  <1>2. ASSUME NEW p \in Callers, Work(p) PROVE Inv'
    BY <1>2, CopyKeeps, AdvanceKeeps, NoRoomKeeps, ReadByteKeeps, ReadDoneKeeps,
       PostKeeps, AwakeKeeps DEF Work
  <1>3. ASSUME NEW p \in Callers, SizeCall(p) \/ Wait(p) PROVE Inv'
    BY <1>3, SizeCallKeeps, WaitKeeps
  <1>4. ASSUME NEW p \in Callers, BadCall(p) PROVE Inv'
    BY <1>1, <1>4 DEF BadCall
  <1> QED
    BY <1>1, <1>2, <1>3, <1>4, AppendCallKeeps, ReadCallKeeps, DeleteKeeps DEF Next

LEMMA Invariant == Spec => []Inv
  BY InitInv, StepInv, PTL DEF Spec

\* buf_queue_append and buf_queue_read keep both pointers inside the ring, and what
\* they copy inside the caller's buffer (buf_queue.c:83-96, 125-131).
THEOREM TypeCorrect == Spec => []TypeOK
  <1>1. Inv => TypeOK
    BY SizeAssumption DEF Inv, Types, Short, TypeOK
  <1> QED BY <1>1, Invariant, PTL

\* The semaphore is taken and posted in pairs on every path of the three calls, so
\* that one caller at a time is behind it (buf_queue.c:82-109, 124-132, 143-145).
THEOREM Semaphore == Spec => []SemHeld
  <1>1. Inv => SemHeld
    <2> SUFFICES ASSUME Inv PROVE SemHeld OBVIOUS
    <2> DEFINE in == {p \in Callers : pc[p] \in CriticalPCs}
    <2>1. CASE sem = 1
      <3>1. in = {} BY <2>1 DEF Inv, Exclusive
      <3> QED BY <2>1, <3>1, FS_EmptySet DEF SemHeld
    <2>2. CASE sem = 0
      <3>1. PICK p \in Callers : pc[p] \in CriticalPCs BY <2>2 DEF Inv, Exclusive
      <3>2. in = {p} BY <3>1 DEF Inv, Exclusive
      <3>3. Cardinality(in) = 1 BY <3>2, FS_Singleton
      <3> QED BY <2>2, <3>3 DEF SemHeld
    <2> QED BY <2>1, <2>2 DEF Inv, Types
  <1> QED BY <1>1, Invariant, PTL

-----------------------------------------------------------------------------
(* The ring as a queue *)

UnreadOf(cells, w, r) == [k \in 1 .. Distance(w, r) |-> cells[(r + k - 1) % Size]]

LEMMA UnreadIs ==
    ASSUME NEW cells \in [Cells -> Bytes], NEW w \in Cells, NEW r \in Cells
    PROVE  /\ UnreadOf(cells, w, r) \in Seq(Bytes)
           /\ Len(UnreadOf(cells, w, r)) = Distance(w, r)
           /\ \A k \in 1 .. Distance(w, r) :
                  /\ (r + (k - 1)) % Size \in Cells
                  /\ UnreadOf(cells, w, r)[k] = cells[(r + (k - 1)) % Size]
  <1>1. Size \in Nat \ {0} BY SizeAssumption
  <1>2. Distance(w, r) \in Nat /\ Distance(w, r) <= Size - 1
    <2>1. Distance(w, r) \in Cells BY DistanceIs
    <2> QED BY <1>1, <2>1 DEF Cells
  <1>3. ASSUME NEW k \in 1 .. Distance(w, r)
        PROVE  (r + (k - 1)) % Size \in Cells /\ (r + k - 1) % Size = (r + (k - 1)) % Size
    <2>1. k - 1 \in 0 .. Size - 1 BY <1>1, <1>2
    <2>2. r + k - 1 = r + (k - 1) BY <1>1 DEF Cells
    <2> QED BY <2>1, <2>2, CellAfter
  <1> DEFINE u == UnreadOf(cells, w, r)
  <1>4. u = [k \in 1 .. Distance(w, r) |-> cells[(r + (k - 1)) % Size]]
    BY <1>3 DEF UnreadOf
  <1>5. \A k \in 1 .. Distance(w, r) : cells[(r + (k - 1)) % Size] \in Bytes BY <1>3
  <1>6. u \in [1 .. Distance(w, r) -> Bytes] BY <1>4, <1>5
  <1>7. u \in Seq(Bytes) /\ Len(u) = Distance(w, r)
    <2> HIDE DEF u
    <2> QED BY <1>2, <1>6
  <1> QED BY <1>3, <1>4, <1>7

\* What is not unread does not count
LEMMA UnreadSame ==
    ASSUME NEW cells \in [Cells -> Bytes], NEW other \in [Cells -> Bytes],
           NEW w \in Cells, NEW r \in Cells,
           \A k \in 1 .. Distance(w, r) :
               other[(r + (k - 1)) % Size] = cells[(r + (k - 1)) % Size]
    PROVE  UnreadOf(other, w, r) = UnreadOf(cells, w, r)
  <1> DEFINE u == UnreadOf(cells, w, r)
             v == UnreadOf(other, w, r)
  <1>1. /\ u \in Seq(Bytes) /\ v \in Seq(Bytes) /\ Len(u) = Len(v)
        /\ \A k \in 1 .. Len(u) : u[k] = v[k]
    BY UnreadIs
  <1> HIDE DEF u, v
  <1>2. u = v BY <1>1, SeqEqual
  <1> QED BY <1>2 DEF u, v

\* The message that was copied behind ptr_w comes last
LEMMA UnreadGrows ==
    ASSUME NEW cells \in [Cells -> Bytes], NEW w \in Cells, NEW r \in Cells,
           NEW m \in Seq(Bytes), Distance(w, r) + Len(m) <= Size - 1,
           \A j \in 1 .. Len(m) : cells[(w + (j - 1)) % Size] = m[j]
    PROVE  UnreadOf(cells, (w + Len(m)) % Size, r) = UnreadOf(cells, w, r) \o m
  <1> DEFINE n == Len(m)
             D == Distance(w, r)
             v == (w + n) % Size
             old == UnreadOf(cells, w, r)
             new == UnreadOf(cells, v, r)
  <1>1. Size \in Nat \ {0} BY SizeAssumption
  <1>2. D = (IF r <= w THEN w - r ELSE w + Size - r) /\ D \in Cells BY DistanceIs
  <1>3. n \in 0 .. Size - 1 BY <1>1, <1>2 DEF Cells
  <1>4. v = (IF w + n < Size THEN w + n ELSE w + n - Size) /\ v \in Cells
    BY <1>3, CellAfter
  <1>5. Distance(v, r) = D + n
    <2>1. Distance(v, r) = IF r <= v THEN v - r ELSE v + Size - r
      BY <1>4, DistanceIs
    <2>2. D + n <= Size - 1 OBVIOUS
    <2> HIDE DEF v, D, n
    <2> QED BY <1>1, <1>2, <1>3, <1>4, <2>1, <2>2 DEF Cells
  <1>6. /\ old \in Seq(Bytes) /\ Len(old) = D
        /\ \A k \in 1 .. D : old[k] = cells[(r + (k - 1)) % Size]
    BY UnreadIs
  <1>7. /\ new \in Seq(Bytes) /\ Len(new) = D + n
        /\ \A k \in 1 .. D + n : new[k] = cells[(r + (k - 1)) % Size]
    <2>1. /\ new \in Seq(Bytes) /\ Len(new) = Distance(v, r)
          /\ \A k \in 1 .. Distance(v, r) : new[k] = cells[(r + (k - 1)) % Size]
      <3> HIDE DEF v
      <3> QED BY <1>4, UnreadIs
    <2> QED BY <1>5, <2>1
  <1>8. /\ old \o m \in Seq(Bytes) /\ Len(old \o m) = D + n
        /\ \A k \in 1 .. D + n : (old \o m)[k] = IF k <= D THEN old[k] ELSE m[k - D]
    <2>1. /\ old \o m \in Seq(Bytes) /\ Len(old \o m) = Len(old) + Len(m)
          /\ \A k \in 1 .. Len(old) + Len(m) :
                 (old \o m)[k] = IF k <= Len(old) THEN old[k] ELSE m[k - Len(old)]
      <3> HIDE DEF old
      <3> QED BY <1>6, ConcatProperties
    <2> QED BY <1>6, <2>1
  <1>9. ASSUME NEW k \in 1 .. D + n PROVE new[k] = (old \o m)[k]
    <2>1. CASE k <= D
      <3>1. k \in 1 .. D
        <4> HIDE DEF D, n
        <4> QED BY <1>1, <1>2, <1>3, <1>9, <2>1 DEF Cells
      <3> HIDE DEF new, old, D, n
      <3> QED BY <1>6, <1>7, <1>8, <1>9, <2>1, <3>1
    <2>2. CASE k > D
      <3>1. k - D \in 1 .. n /\ k - 1 \in 0 .. Size - 1 /\ k - D - 1 \in 0 .. Size - 1
        BY <1>1, <1>2, <1>3, <1>9, <2>2 DEF Cells
      <3>2. (r + (k - 1)) % Size = IF r + (k - 1) < Size THEN r + (k - 1) ELSE r + (k - 1) - Size
        BY <3>1, CellAfter
      <3>3. (w + (k - D - 1)) % Size =
                IF w + (k - D - 1) < Size THEN w + (k - D - 1) ELSE w + (k - D - 1) - Size
        BY <3>1, CellAfter
      <3> DEFINE c == (r + (k - 1)) % Size
                 d == (w + (k - D - 1)) % Size
      <3>4. c = d
        <4> HIDE DEF c, d
        <4>1. /\ c = IF r + (k - 1) < Size THEN r + (k - 1) ELSE r + (k - 1) - Size
              /\ d = IF w + (k - D - 1) < Size THEN w + (k - D - 1) ELSE w + (k - D - 1) - Size
          BY <3>2, <3>3 DEF c, d
        <4> HIDE DEF D, n
        <4> QED BY <1>1, <1>2, <1>3, <1>9, <2>2, <3>1, <4>1 DEF Cells
      <3>5. cells[d] = m[k - D] BY <3>1
      <3>6. new[k] = cells[c] BY <1>7, <1>9
      <3>7. (old \o m)[k] = m[k - D] BY <1>2, <1>3, <1>8, <1>9, <2>2 DEF Cells
      <3> QED BY <3>4, <3>5, <3>6, <3>7
    <2>3. k <= D \/ k > D
      <3> HIDE DEF D, n
      <3> QED BY <1>1, <1>2, <1>3, <1>9 DEF Cells
    <2> QED BY <2>1, <2>2, <2>3
  <1> HIDE DEF old, new, D, n
  <1>10. new = old \o m BY <1>7, <1>8, <1>9, SeqEqual
  <1> QED BY <1>10 DEF old, new, n

\* A byte that is read was the first
LEMMA UnreadShrinks ==
    ASSUME NEW cells \in [Cells -> Bytes], NEW w \in Cells, NEW r \in Cells, r # w
    PROVE  UnreadOf(cells, w, r) = <<cells[r]>> \o UnreadOf(cells, w, NextCell(r))
  <1> DEFINE D == Distance(w, r)
             s == NextCell(r)
             old == UnreadOf(cells, w, r)
             new == UnreadOf(cells, w, s)
  <1>1. Size \in Nat \ {0} BY SizeAssumption
  <1>2. s \in Cells /\ s = IF r + 1 = Size THEN 0 ELSE r + 1
    BY <1>1 DEF NextCell, Cells
  <1>3. D = (IF r <= w THEN w - r ELSE w + Size - r) /\ D \in Cells BY DistanceIs
  <1>4. D >= 1 /\ Distance(w, s) = D - 1
    <2>1. Distance(w, s) = IF s <= w THEN w - s ELSE w + Size - s
      BY <1>2, DistanceIs
    <2> HIDE DEF s, D
    <2> QED BY <1>1, <1>2, <1>3, <2>1 DEF Cells
  <1>5. /\ old \in Seq(Bytes) /\ Len(old) = D
        /\ \A k \in 1 .. D : old[k] = cells[(r + (k - 1)) % Size]
    BY UnreadIs
  <1>6. /\ new \in Seq(Bytes) /\ Len(new) = D - 1
        /\ \A k \in 1 .. D - 1 : new[k] = cells[(s + (k - 1)) % Size]
    <2>1. /\ new \in Seq(Bytes) /\ Len(new) = Distance(w, s)
          /\ \A k \in 1 .. Distance(w, s) : new[k] = cells[(s + (k - 1)) % Size]
      <3>1. s \in Cells BY <1>2
      <3> HIDE DEF s
      <3> QED BY <3>1, UnreadIs
    <2> QED BY <1>4, <2>1
  <1> DEFINE one == <<cells[r]>>
  <1>7. one \in Seq(Bytes) /\ Len(one) = 1 /\ one[1] = cells[r] OBVIOUS
  <1> HIDE DEF one, old, new, D, s
  <1>8. /\ one \o new \in Seq(Bytes) /\ Len(one \o new) = D
        /\ \A k \in 1 .. D : (one \o new)[k] = IF k <= 1 THEN one[k] ELSE new[k - 1]
    <2>1. /\ one \o new \in Seq(Bytes) /\ Len(one \o new) = 1 + (D - 1)
          /\ \A k \in 1 .. 1 + (D - 1) : (one \o new)[k] = IF k <= 1 THEN one[k] ELSE new[k - 1]
      <3>1. /\ one \o new \in Seq(Bytes) /\ Len(one \o new) = Len(one) + Len(new)
            /\ \A k \in 1 .. Len(one) + Len(new) :
                   (one \o new)[k] = IF k <= Len(one) THEN one[k] ELSE new[k - Len(one)]
        BY <1>6, <1>7, ConcatProperties
      <3> QED BY <1>6, <1>7, <3>1
    <2>2. 1 + (D - 1) = D BY <1>1, <1>3 DEF Cells
    <2> QED BY <2>1, <2>2
  <1>9. ASSUME NEW k \in 1 .. D PROVE old[k] = (one \o new)[k]
    <2>1. CASE k = 1
      <3>1. (r + (1 - 1)) % Size = r
        <4>1. 1 - 1 \in 0 .. Size - 1 /\ r + (1 - 1) = r /\ r < Size BY <1>1 DEF Cells
        <4> QED BY <4>1, CellAfter
      <3> QED BY <1>5, <1>7, <1>8, <1>9, <2>1, <3>1
    <2>2. CASE k # 1
      <3>1. k - 1 \in 1 .. D - 1 /\ k - 1 \in 0 .. Size - 1 /\ k - 1 - 1 \in 0 .. Size - 1
        BY <1>1, <1>3, <1>9, <2>2 DEF Cells
      <3> DEFINE c == (r + (k - 1)) % Size
                 d == (s + (k - 1 - 1)) % Size
      <3>2. c = IF r + (k - 1) < Size THEN r + (k - 1) ELSE r + (k - 1) - Size
        BY <3>1, CellAfter
      <3>3. d = IF s + (k - 1 - 1) < Size THEN s + (k - 1 - 1) ELSE s + (k - 1 - 1) - Size
        BY <1>2, <3>1, CellAfter
      <3>4. c = d
        <4> HIDE DEF c, d
        <4> QED BY <1>1, <1>2, <1>3, <1>9, <2>2, <3>1, <3>2, <3>3 DEF Cells
      <3>5. old[k] = cells[c] BY <1>5, <1>9
      <3>6. new[k - 1] = cells[d] BY <1>6, <3>1
      <3>7. (one \o new)[k] = new[k - 1] BY <1>8, <1>9, <2>2
      <3> QED BY <3>4, <3>5, <3>6, <3>7
    <2> QED BY <2>1, <2>2
  <1>10. old = one \o new BY <1>5, <1>8, <1>9, SeqEqual
  <1> QED BY <1>10 DEF one, old, new, s

-----------------------------------------------------------------------------
(* The refinement: the queue of ByteQueue as functions of this module's state *)

MsgOf(c, m)  == IF c \in {"posted", "timeout"} THEN <<>> ELSE m
WantOf(c, n) == IF c = "read_done" THEN 0 ELSE n
BufOf(c, b)  == IF c = "read_done" THEN b ELSE <<>>

Msgs   == [p \in Callers |-> MsgOf(pc[p], msg[p])]
Wanted == [p \in Callers |-> WantOf(pc[p], length[p])]
Bufs   == [p \in Callers |-> BufOf(pc[p], buf[p])]
Queue  == Copied \o Unread

CopiedOf(pcs, bufs) ==
    LET reading == {p \in Callers : pcs[p] = "read"} IN
    IF reading = {} THEN <<>> ELSE bufs[CHOOSE p \in reading : TRUE]

LEMMA CopiedReading ==
    ASSUME NEW pcs, NEW bufs, NEW p \in Callers, pcs[p] = "read",
           \A q \in Callers : pcs[q] = "read" => q = p
    PROVE  CopiedOf(pcs, bufs) = bufs[p]
  <1>1. {q \in Callers : pcs[q] = "read"} = {p} OBVIOUS
  <1>2. (CHOOSE q \in {p} : TRUE) = p OBVIOUS
  <1> QED BY <1>1, <1>2 DEF CopiedOf

LEMMA CopiedNothing ==
    ASSUME NEW pcs, NEW bufs, \A q \in Callers : pcs[q] # "read"
    PROVE  CopiedOf(pcs, bufs) = <<>>
  <1>1. {q \in Callers : pcs[q] = "read"} = {} OBVIOUS
  <1> QED BY <1>1 DEF CopiedOf

LEMMA CopiedSame ==
    ASSUME NEW pcs, NEW bufs, NEW pcs2, NEW bufs2,
           \A q \in Callers : pcs2[q] = "read" <=> pcs[q] = "read",
           \A q \in Callers : pcs[q] = "read" => bufs2[q] = bufs[q]
    PROVE  CopiedOf(pcs2, bufs2) = CopiedOf(pcs, bufs)
  <1> DEFINE in == {q \in Callers : pcs[q] = "read"}
  <1>1. {q \in Callers : pcs2[q] = "read"} = in OBVIOUS
  <1>2. CASE in = {} BY <1>1, <1>2 DEF CopiedOf
  <1>3. CASE in # {}
    <2>1. (CHOOSE q \in in : TRUE) \in in BY <1>3
    <2>2. bufs2[CHOOSE q \in in : TRUE] = bufs[CHOOSE q \in in : TRUE] BY <2>1
    <2> QED BY <1>1, <1>3, <2>2 DEF CopiedOf
  <1> QED BY <1>2, <1>3

\* The two parts of the queue, now and after a step
LEMMA Parts ==
    /\ Copied = CopiedOf(pc, buf) /\ Copied' = CopiedOf(pc', buf')
    /\ Unread = UnreadOf(addr, ptr_w, ptr_r)
    /\ Unread' = UnreadOf(addr', ptr_w', ptr_r')
  BY DEF Copied, CopiedOf, Unread, UnreadOf, Distance

\* What a step of one caller does to the mapped variables
LEMMA OnlyOne ==
    ASSUME NEW p \in Callers, Types,
           \A q \in Callers : q # p =>
               /\ pc'[q] = pc[q] /\ msg'[q] = msg[q]
               /\ length'[q] = length[q] /\ buf'[q] = buf[q]
    PROVE  /\ Msgs' = [Msgs EXCEPT ![p] = MsgOf(pc'[p], msg'[p])]
           /\ Wanted' = [Wanted EXCEPT ![p] = WantOf(pc'[p], length'[p])]
           /\ Bufs' = [Bufs EXCEPT ![p] = BufOf(pc'[p], buf'[p])]
           /\ MsgOf(pc'[p], msg'[p]) = MsgOf(pc[p], msg[p]) => Msgs' = Msgs
           /\ WantOf(pc'[p], length'[p]) = WantOf(pc[p], length[p]) => Wanted' = Wanted
           /\ BufOf(pc'[p], buf'[p]) = BufOf(pc[p], buf[p]) => Bufs' = Bufs
  <1>1. /\ Msgs' = [Msgs EXCEPT ![p] = MsgOf(pc'[p], msg'[p])]
        /\ MsgOf(pc'[p], msg'[p]) = MsgOf(pc[p], msg[p]) => Msgs' = Msgs
    BY DEF Msgs
  <1>2. /\ Wanted' = [Wanted EXCEPT ![p] = WantOf(pc'[p], length'[p])]
        /\ WantOf(pc'[p], length'[p]) = WantOf(pc[p], length[p]) => Wanted' = Wanted
    BY DEF Wanted
  <1>3. /\ Bufs' = [Bufs EXCEPT ![p] = BufOf(pc'[p], buf'[p])]
        /\ BufOf(pc'[p], buf'[p]) = BufOf(pc[p], buf[p]) => Bufs' = Bufs
    BY DEF Bufs
  <1> QED BY <1>1, <1>2, <1>3

\* ByteQueue's actions in these terms
LEMMA Stands ==
    ASSUME Queue' = Queue, Msgs' = Msgs, Wanted' = Wanted, Bufs' = Bufs
    PROVE  UNCHANGED BQ!vars
  BY DEF BQ!vars, Queue, Msgs, Wanted, Bufs, MsgOf, WantOf, BufOf

LEMMA CallsAppend ==
    ASSUME NEW p \in Callers, Msgs[p] = <<>>, Wanted[p] = 0, Bufs[p] = <<>>,
           NEW k \in 1 .. MaxCalls, NEW n \in AppendLengths,
           Msgs' = [Msgs EXCEPT ![p] = Message(k, n)],
           Queue' = Queue, Wanted' = Wanted, Bufs' = Bufs
    PROVE  BQ!Next
  <1>1. Message(k, n) \in Messages
    BY DEF Messages
  <1>2. BQ!CallAppend(p)
    BY <1>1 DEF BQ!CallAppend, BQ!Ready, Queue, Msgs, Wanted, Bufs, MsgOf, WantOf, BufOf
  <1> QED BY <1>2 DEF BQ!Next

LEMMA CallsRead ==
    ASSUME NEW p \in Callers, Msgs[p] = <<>>, Wanted[p] = 0, Bufs[p] = <<>>,
           NEW n \in ReadLengths, Wanted' = [Wanted EXCEPT ![p] = n],
           Queue' = Queue, Msgs' = Msgs, Bufs' = Bufs
    PROVE  BQ!Next
  <1>1. BQ!CallRead(p)
    BY DEF BQ!CallRead, BQ!Ready, Queue, Msgs, Wanted, Bufs, MsgOf, WantOf, BufOf
  <1> QED BY <1>1 DEF BQ!Next

LEMMA Enters ==
    ASSUME NEW p \in Callers, Msgs[p] # <<>>, Len(Queue) + Len(Msgs[p]) <= Size - 1,
           Queue' = Queue \o Msgs[p], Msgs' = [Msgs EXCEPT ![p] = <<>>],
           Wanted' = Wanted, Bufs' = Bufs
    PROVE  BQ!Next
  <1>1. BQ!Enter(p)
    BY DEF BQ!Enter, BQ!Fits, Queue, Msgs, Wanted, Bufs, MsgOf, WantOf, BufOf
  <1> QED BY <1>1 DEF BQ!Next

LEMMA GivesUp ==
    ASSUME NEW p \in Callers, Msgs[p] # <<>>, ~(Len(Queue) + Len(Msgs[p]) <= Size - 1),
           Msgs' = [Msgs EXCEPT ![p] = <<>>],
           Queue' = Queue, Wanted' = Wanted, Bufs' = Bufs
    PROVE  BQ!Next
  <1>1. BQ!GiveUp(p)
    BY DEF BQ!GiveUp, BQ!Fits, Queue, Msgs, Wanted, Bufs, MsgOf, WantOf, BufOf
  <1> QED BY <1>1 DEF BQ!Next

LEMMA Reads ==
    ASSUME NEW p \in Callers, Wanted[p] > 0, NEW n,
           n = IF Wanted[p] <= Len(Queue) THEN Wanted[p] ELSE Len(Queue),
           Bufs' = [Bufs EXCEPT ![p] = SubSeq(Queue, 1, n)],
           Queue' = SubSeq(Queue, n + 1, Len(Queue)),
           Wanted' = [Wanted EXCEPT ![p] = 0], Msgs' = Msgs
    PROVE  BQ!Next
  <1>1. BQ!Read(p)
    BY DEF BQ!Read, Queue, Msgs, Wanted, Bufs, MsgOf, WantOf, BufOf
  <1> QED BY <1>1 DEF BQ!Next

LEMMA Uses ==
    ASSUME NEW p \in Callers, Bufs' = [Bufs EXCEPT ![p] = <<>>],
           Queue' = Queue, Msgs' = Msgs, Wanted' = Wanted
    PROVE  BQ!Next
  <1>1. BQ!Use(p)
    BY DEF BQ!Use, Queue, Msgs, Wanted, Bufs, MsgOf, WantOf, BufOf
  <1> QED BY <1>1 DEF BQ!Next

LEMMA InitMaps == Init => BQ!Init
  <1> SUFFICES ASSUME Init PROVE BQ!Init OBVIOUS
  <1>1. \A p \in Callers : pc[p] = "idle" /\ msg[p] = <<>> /\ length[p] = 0 /\ buf[p] = <<>>
    BY DEF Init
  <1>2. Copied = <<>> BY <1>1, CopiedNothing, Parts
  <1>3. Unread = <<>>
    <2>1. Inv BY InitInv
    <2>2. Unread \in Seq(Bytes) /\ Len(Unread) = Distance(0, 0)
      BY <2>1, UnreadIs, Parts DEF Init, Inv, Types
    <2>3. Distance(0, 0) = 0
      <3>1. 0 \in Cells BY SizeAssumption DEF Cells
      <3> QED BY <3>1, DistanceIs
    <2> QED BY <2>2, <2>3
  <1>4. Queue = <<>> BY <1>2, <1>3 DEF Queue
  <1>5. /\ Msgs = [p \in Callers |-> <<>>] /\ Wanted = [p \in Callers |-> 0]
        /\ Bufs = [p \in Callers |-> <<>>]
    BY <1>1 DEF Msgs, Wanted, Bufs, MsgOf, WantOf, BufOf
  <1> QED BY <1>4, <1>5 DEF BQ!Init, Queue, Msgs, Wanted, Bufs, MsgOf, WantOf, BufOf

\* The parts of the queue when p is behind the semaphore
LEMMA HeldParts ==
    ASSUME Inv, NEW p \in Callers, pc[p] \in CriticalPCs
    PROVE  /\ pc[p] = "read" => Copied = buf[p]
           /\ pc[p] # "read" => Copied = <<>>
           /\ Unread \in Seq(Bytes) /\ Len(Unread) = Distance(ptr_w, ptr_r)
           /\ Queue \in Seq(Bytes) /\ Len(Queue) = Len(Copied) + Len(Unread)
  <1>1. \A q \in Callers : pc[q] = "read" => q = p
    BY DEF Inv, Exclusive, CriticalPCs, ReadPCs
  <1>2. pc[p] = "read" => Copied = buf[p] BY <1>1, CopiedReading, Parts
  <1>3. pc[p] # "read" => Copied = <<>> BY <1>1, CopiedNothing, Parts
  <1>4. Unread \in Seq(Bytes) /\ Len(Unread) = Distance(ptr_w, ptr_r)
    BY UnreadIs, Parts DEF Inv, Types
  <1>5. Copied \in Seq(Bytes)
    <2>1. buf[p] \in Seq(Bytes) BY DEF Inv, Types
    <2>2. <<>> \in Seq(Bytes) OBVIOUS
    <2> QED BY <1>2, <1>3, <2>1, <2>2
  <1>6. Copied \o Unread \in Seq(Bytes) /\ Len(Copied \o Unread) = Len(Copied) + Len(Unread)
    BY <1>4, <1>5, ConcatProperties
  <1> QED BY <1>2, <1>3, <1>4, <1>6 DEF Queue

\* A step outside of the semaphore, or behind it, that leaves the ring alone and
\* does not begin or end a read
LEMMA QueueStays ==
    ASSUME Inv, NEW p \in Callers, NEW l, Goto(p, l), UNCHANGED ring,
           l = "read" <=> pc[p] = "read",
           \A q \in Callers : pc[q] = "read" => buf'[q] = buf[q]
    PROVE  Queue' = Queue
  <1>1. \A q \in Callers : pc'[q] = "read" <=> pc[q] = "read"
    BY DEF Inv, Types, Goto
  <1>2. Copied' = Copied BY <1>1, CopiedSame, Parts
  <1>3. Unread' = Unread BY Parts DEF ring
  <1> QED BY <1>2, <1>3 DEF Queue

\* Steps that ByteQueue does not see
LEMMA Quiet ==
    ASSUME Inv, NEW p \in Callers, NEW l, Goto(p, l), UNCHANGED ring,
           l = "read" <=> pc[p] = "read", pc[p] = "read" => buf'[p] = buf[p],
           \A q \in Callers : q # p =>
               msg'[q] = msg[q] /\ length'[q] = length[q] /\ buf'[q] = buf[q],
           MsgOf(l, msg'[p]) = MsgOf(pc[p], msg[p]),
           WantOf(l, length'[p]) = WantOf(pc[p], length[p]),
           BufOf(l, buf'[p]) = BufOf(pc[p], buf[p])
    PROVE  UNCHANGED BQ!vars
  <1>1. Types BY DEF Inv
  <1>2. pc'[p] = l /\ \A q \in Callers : q # p => pc'[q] = pc[q]
    BY DEF Inv, Types, Goto
  <1>3. Msgs' = Msgs /\ Wanted' = Wanted /\ Bufs' = Bufs BY <1>1, <1>2, OnlyOne
  <1>4. Queue' = Queue BY QueueStays
  <1> QED BY <1>3, <1>4, Stands

LEMMA AppendCallMaps ==
    ASSUME Inv, NEW p \in Writers, AppendCall(p) PROVE BQ!Next
  <1>1. p \in Callers BY DEF Callers
  <1>2. PICK n \in AppendLengths : msg' = [msg EXCEPT ![p] = Message(calls + 1, n)]
    BY DEF AppendCall
  <1>3. /\ pc[p] = "idle" /\ Goto(p, "append_wait") /\ UNCHANGED <<ring, length, buf>>
        /\ calls + 1 \in 1 .. MaxCalls
    BY CallsAssumption DEF AppendCall, Inv, Types
  <1>4. msg[p] = <<>> /\ length[p] = 0 /\ buf[p] = <<>>
    BY <1>1, <1>3 DEF Inv, Params, AppendPCs
  <1>5. Types /\ \A q \in Callers : q # p =>
            /\ pc'[q] = pc[q] /\ msg'[q] = msg[q]
            /\ length'[q] = length[q] /\ buf'[q] = buf[q]
    BY <1>1, <1>2, <1>3 DEF Inv, Types, Goto
  <1>6. /\ pc'[p] = "append_wait" /\ msg'[p] = Message(calls + 1, n)
        /\ length'[p] = length[p] /\ buf'[p] = buf[p]
    BY <1>1, <1>2, <1>3 DEF Inv, Types, Goto
  <1>7. /\ Msgs' = [Msgs EXCEPT ![p] = Message(calls + 1, n)]
        /\ Wanted' = Wanted /\ Bufs' = Bufs
    BY <1>1, <1>3, <1>5, <1>6, OnlyOne DEF MsgOf, WantOf, BufOf
  <1>8. Msgs[p] = <<>> /\ Wanted[p] = 0 /\ Bufs[p] = <<>>
    BY <1>1, <1>3, <1>4 DEF Msgs, Wanted, Bufs, MsgOf, WantOf, BufOf
  <1>9. Queue' = Queue
    <2>1. UNCHANGED ring /\ \A q \in Callers : buf'[q] = buf[q] BY <1>3
    <2> QED BY <1>1, <1>3, <2>1, QueueStays
  <1> QED BY <1>1, <1>3, <1>7, <1>8, <1>9, CallsAppend

LEMMA ReadCallMaps ==
    ASSUME Inv, NEW p \in Readers, ReadCall(p) PROVE BQ!Next
  <1>1. p \in Callers BY DEF Callers
  <1>2. PICK n \in ReadLengths : length' = [length EXCEPT ![p] = n]
    BY DEF ReadCall
  <1>3. pc[p] = "idle" /\ Goto(p, "read_wait") /\ UNCHANGED <<ring, msg, buf>>
    BY DEF ReadCall
  <1>4. msg[p] = <<>> /\ length[p] = 0 /\ buf[p] = <<>>
    BY <1>1, <1>3 DEF Inv, Params, AppendPCs
  <1>5. Types /\ \A q \in Callers : q # p =>
            /\ pc'[q] = pc[q] /\ msg'[q] = msg[q]
            /\ length'[q] = length[q] /\ buf'[q] = buf[q]
    BY <1>1, <1>2, <1>3 DEF Inv, Types, Goto
  <1>6. /\ pc'[p] = "read_wait" /\ msg'[p] = msg[p]
        /\ length'[p] = n /\ buf'[p] = buf[p]
    BY <1>1, <1>2, <1>3 DEF Inv, Types, Goto
  <1>7. Wanted' = [Wanted EXCEPT ![p] = n] /\ Msgs' = Msgs /\ Bufs' = Bufs
    BY <1>1, <1>3, <1>5, <1>6, OnlyOne DEF MsgOf, WantOf, BufOf
  <1>8. Msgs[p] = <<>> /\ Wanted[p] = 0 /\ Bufs[p] = <<>>
    BY <1>1, <1>3, <1>4 DEF Msgs, Wanted, Bufs, MsgOf, WantOf, BufOf
  <1>9. Queue' = Queue
    <2>1. UNCHANGED ring /\ \A q \in Callers : buf'[q] = buf[q] BY <1>3
    <2> QED BY <1>1, <1>3, <2>1, QueueStays
  <1> QED BY <1>1, <1>7, <1>8, <1>9, CallsRead

LEMMA WaitMaps ==
    ASSUME Inv, NEW p \in Callers, Wait(p) PROVE UNCHANGED BQ!vars
  <1>1. /\ pc[p] \in {"append_wait", "read_wait", "size_wait"} /\ sem > 0
        /\ UNCHANGED <<ring, msg, length, buf>>
    BY DEF Wait, WaitPCs, params
  <1>2. CASE pc[p] # "read_wait"
    <2>1. PICK l \in {"append", "size"} : Goto(p, l) BY <1>1, <1>2 DEF Wait
    <2>2. /\ MsgOf(l, msg'[p]) = MsgOf(pc[p], msg[p])
          /\ WantOf(l, length'[p]) = WantOf(pc[p], length[p])
          /\ BufOf(l, buf'[p]) = BufOf(pc[p], buf[p])
      BY <1>1, <1>2 DEF MsgOf, WantOf, BufOf
    <2>3. l # "read" /\ pc[p] # "read" BY <1>1
    <2>4. UNCHANGED ring /\ \A q \in Callers :
              msg'[q] = msg[q] /\ length'[q] = length[q] /\ buf'[q] = buf[q]
      BY <1>1
    <2> QED BY <2>1, <2>2, <2>3, <2>4, Quiet
  <1>3. CASE pc[p] = "read_wait"
    <2>1. Goto(p, "read") BY <1>3 DEF Wait
    <2>2. /\ pc'[p] = "read" /\ \A q \in Callers : q # p => pc'[q] = pc[q]
          /\ \A q \in Callers : pc[q] # "read"
      BY <1>1, <1>3, <2>1 DEF Inv, Types, Exclusive, Goto, CriticalPCs, ReadPCs
    <2>3. Copied = <<>> BY <2>2, CopiedNothing, Parts
    <2>4. buf'[p] = <<>> BY <1>1, <1>3 DEF Inv, Params
    <2>5. \A q \in Callers : pc'[q] = "read" => q = p BY <2>2
    <2>6. Copied' = <<>> BY <2>2, <2>4, <2>5, CopiedReading, Parts
    <2>7. Unread' = Unread BY <1>1, Parts DEF ring
    <2>8. Queue' = Queue BY <2>3, <2>6, <2>7 DEF Queue
    <2>9. /\ MsgOf(pc'[p], msg'[p]) = MsgOf(pc[p], msg[p])
          /\ WantOf(pc'[p], length'[p]) = WantOf(pc[p], length[p])
          /\ BufOf(pc'[p], buf'[p]) = BufOf(pc[p], buf[p])
      BY <1>1, <1>3, <2>2 DEF MsgOf, WantOf, BufOf
    <2>10. Msgs' = Msgs /\ Wanted' = Wanted /\ Bufs' = Bufs
      <3>1. Types /\ UNCHANGED <<msg, length, buf>> BY <1>1 DEF Inv
      <3> QED BY <2>2, <2>9, <3>1, OnlyOne
    <2> QED BY <2>8, <2>10, Stands
  <1> QED BY <1>2, <1>3

\* The bytes that are copied lie in cells that are not unread
LEMMA CopyMaps ==
    ASSUME Inv, NEW p \in Callers, Copy(p) PROVE UNCHANGED BQ!vars
  <1>1. /\ pc[p] = "append" /\ Goto(p, "advance")
        /\ UNCHANGED <<ptr_w, ptr_r, msg, length, buf>>
    BY DEF Copy, params
  <1>2. /\ pc'[p] = "advance" /\ \A q \in Callers : q # p => pc'[q] = pc[q]
        /\ \A q \in Callers : pc'[q] # "read" /\ pc[q] # "read"
    BY <1>1 DEF Inv, Types, Exclusive, Goto, CriticalPCs, AppendPCs, ReadPCs
  <1>3. Copied' = Copied BY <1>2, CopiedNothing, Parts
  <1>4. Unread' = Unread
    <2>1. /\ addr \in [Cells -> Bytes] /\ addr' \in [Cells -> Bytes]
          /\ ptr_w \in Cells /\ ptr_r \in Cells
      BY CopyWrites DEF Inv, Types
    <2>2. UnreadOf(addr', ptr_w, ptr_r) = UnreadOf(addr, ptr_w, ptr_r)
      BY <2>1, CopyWrites, UnreadSame
    <2> QED BY <1>1, <2>2, Parts
  <1>5. Queue' = Queue BY <1>3, <1>4 DEF Queue
  <1>6. /\ MsgOf(pc'[p], msg'[p]) = MsgOf(pc[p], msg[p])
        /\ WantOf(pc'[p], length'[p]) = WantOf(pc[p], length[p])
        /\ BufOf(pc'[p], buf'[p]) = BufOf(pc[p], buf[p])
    BY <1>1, <1>2 DEF MsgOf, WantOf, BufOf
  <1>7. Msgs' = Msgs /\ Wanted' = Wanted /\ Bufs' = Bufs
    <2>1. Types /\ UNCHANGED <<msg, length, buf>> BY <1>1 DEF Inv
    <2> QED BY <1>2, <1>6, <2>1, OnlyOne
  <1> QED BY <1>5, <1>7, Stands

\* The message enters the queue when ptr_w is set
LEMMA AdvanceMaps ==
    ASSUME Inv, NEW p \in Callers, Advance(p) PROVE BQ!Next
  <1>1. /\ pc[p] = "advance" /\ Goto(p, "posted") /\ ptr_w' = ptr_a(p)
        /\ UNCHANGED <<addr, ptr_r, msg, length, buf>>
    BY DEF Advance, params
  <1>2. /\ pc'[p] = "posted" /\ \A q \in Callers : q # p => pc'[q] = pc[q]
        /\ \A q \in Callers : pc'[q] # "read"
    BY <1>1 DEF Inv, Types, Exclusive, Goto, CriticalPCs, AppendPCs, ReadPCs
  <1>3. Copied = <<>> /\ Copied' = <<>>
    BY <1>1, <1>2, CopiedNothing, HeldParts, Parts DEF CriticalPCs, AppendPCs
  <1>4. /\ Unread \in Seq(Bytes) /\ Len(Unread) = Distance(ptr_w, ptr_r)
        /\ Queue \in Seq(Bytes) /\ Len(Queue) = Len(Copied) + Len(Unread)
    BY <1>1, HeldParts DEF CriticalPCs, AppendPCs
  <1>5. /\ msg[p] # <<>> /\ msg[p] \in Seq(Bytes)
        /\ Distance(ptr_w, ptr_r) + Len(msg[p]) <= Size - 1
        /\ \A j \in 1 .. Len(msg[p]) : addr[(ptr_w + (j - 1)) % Size] = msg[p][j]
    BY <1>1 DEF Inv, Types, Filled
  <1>6. Unread' = Unread \o msg[p]
    <2>1. addr \in [Cells -> Bytes] /\ ptr_w \in Cells /\ ptr_r \in Cells
      BY DEF Inv, Types
    <2>2. UnreadOf(addr, (ptr_w + Len(msg[p])) % Size, ptr_r)
              = UnreadOf(addr, ptr_w, ptr_r) \o msg[p]
      BY <1>5, <2>1, UnreadGrows
    <2> QED BY <1>1, <2>2, Parts DEF ptr_a
  <1>7. Queue = Unread /\ Queue' = Unread \o msg[p]
    <2>1. Unread \o msg[p] \in Seq(Bytes) BY <1>4, <1>5, ConcatProperties
    <2> QED BY <1>3, <1>4, <1>6, <2>1, ConcatEmptySeq DEF Queue
  <1>8. Msgs[p] = msg[p] BY <1>1 DEF Msgs, MsgOf
  <1>9. /\ MsgOf(pc'[p], msg'[p]) = <<>>
        /\ WantOf(pc'[p], length'[p]) = WantOf(pc[p], length[p])
        /\ BufOf(pc'[p], buf'[p]) = BufOf(pc[p], buf[p])
    BY <1>1, <1>2 DEF MsgOf, WantOf, BufOf
  <1>10. Msgs' = [Msgs EXCEPT ![p] = <<>>] /\ Wanted' = Wanted /\ Bufs' = Bufs
    <2>1. Types /\ UNCHANGED <<msg, length, buf>> BY <1>1 DEF Inv
    <2> QED BY <1>2, <1>9, <2>1, OnlyOne
  <1>11. Msgs[p] # <<>> /\ Len(Queue) + Len(Msgs[p]) <= Size - 1
    BY <1>4, <1>5, <1>7, <1>8
  <1> QED BY <1>7, <1>8, <1>10, <1>11, Enters

\* append only refuses what does not fit
LEMMA NoRoomMaps ==
    ASSUME Inv, NEW p \in Callers, NoRoom(p) PROVE BQ!Next \/ UNCHANGED BQ!vars
  <1>1. /\ pc[p] = "append" /\ ~HasRoom(p) /\ UNCHANGED <<ring, msg, length, buf>>
        /\ \E l \in {"retry", "timeout"} : Goto(p, l)
    BY DEF NoRoom
  <1>2. UNCHANGED ring /\ \A q \in Callers :
            msg'[q] = msg[q] /\ length'[q] = length[q] /\ buf'[q] = buf[q]
    BY <1>1
  <1>3. PICK l \in {"retry", "timeout"} : Goto(p, l) BY <1>1
  <1>4. /\ WantOf(l, length'[p]) = WantOf(pc[p], length[p])
        /\ BufOf(l, buf'[p]) = BufOf(pc[p], buf[p])
        /\ l # "read" /\ pc[p] # "read"
    BY <1>1, <1>2, <1>3 DEF WantOf, BufOf
  <1>5. CASE MsgOf(l, msg'[p]) = MsgOf(pc[p], msg[p])
    BY <1>2, <1>3, <1>4, <1>5, Quiet
  <1>6. CASE MsgOf(l, msg'[p]) # MsgOf(pc[p], msg[p])
    <2>1. MsgOf(l, msg'[p]) = <<>> /\ msg[p] # <<>>
      BY <1>1, <1>2, <1>3, <1>6 DEF MsgOf
    <2>2. Len(msg[p]) \in 1 .. Size - 1
      BY <2>1, SizeAssumption DEF Inv, Types, Short
    <2>3. ~(Distance(ptr_w, ptr_r) + Len(msg[p]) <= Size - 1)
      <3>1. ptr_w \in Cells /\ ptr_r \in Cells /\ Len(msg[p]) \in 0 .. Size - 1
        BY <2>2 DEF Inv, Types
      <3> QED BY <1>1, <2>2, <3>1, FreeSpaceExact DEF HasRoom, ptr_a
    <2>4. Len(Queue) = Distance(ptr_w, ptr_r)
      <3>1. /\ Copied = <<>> /\ Unread \in Seq(Bytes)
            /\ Len(Unread) = Distance(ptr_w, ptr_r)
            /\ Len(Queue) = Len(Copied) + Len(Unread)
        BY <1>1, HeldParts DEF CriticalPCs, AppendPCs
      <3> QED BY <3>1
    <2>5. Msgs[p] = msg[p] BY <1>1 DEF Msgs, MsgOf
    <2>6. Queue' = Queue BY <1>2, <1>3, <1>4, QueueStays
    <2>7. pc'[p] = l /\ \A q \in Callers : q # p => pc'[q] = pc[q]
      BY <1>3 DEF Inv, Types, Goto
    <2>8. Msgs' = [Msgs EXCEPT ![p] = <<>>] /\ Wanted' = Wanted /\ Bufs' = Bufs
      <3>1. Types BY DEF Inv
      <3> QED BY <1>2, <1>4, <2>1, <2>7, <3>1, OnlyOne
    <2> QED BY <2>1, <2>3, <2>4, <2>5, <2>6, <2>8, GivesUp
  <1> QED BY <1>5, <1>6

LEMMA ReadByteMaps ==
    ASSUME Inv, NEW p \in Callers, ReadByte(p) PROVE UNCHANGED BQ!vars
  <1>1. /\ pc[p] = "read" /\ ptr_r # ptr_w /\ buf' = [buf EXCEPT ![p] = Append(buf[p], addr[ptr_r])]
        /\ ptr_r' = NextCell(ptr_r) /\ UNCHANGED <<addr, ptr_w, pc, msg, length>>
    BY DEF ReadByte, More
  <1> DEFINE one == <<addr[ptr_r]>>
             rest == UnreadOf(addr, ptr_w, NextCell(ptr_r))
  <1>2. \A q \in Callers : pc[q] = "read" => q = p
    BY <1>1 DEF Inv, Exclusive, CriticalPCs, ReadPCs
  <1>3. /\ buf'[p] = Append(buf[p], addr[ptr_r]) /\ buf[p] \in Seq(Bytes)
        /\ \A q \in Callers : q # p => buf'[q] = buf[q]
    BY <1>1 DEF Inv, Types
  <1>4. Copied = buf[p] /\ Copied' = buf'[p]
    <2>1. Copied = buf[p] BY <1>1, <1>2, CopiedReading, Parts
    <2>2. pc'[p] = "read" /\ \A q \in Callers : pc'[q] = "read" => q = p BY <1>1, <1>2
    <2>3. CopiedOf(pc', buf') = buf'[p] BY <2>2, CopiedReading
    <2> QED BY <2>1, <2>3, Parts
  <1>5. /\ addr \in [Cells -> Bytes] /\ ptr_w \in Cells /\ ptr_r \in Cells
        /\ NextCell(ptr_r) \in Cells /\ addr[ptr_r] \in Bytes
    BY SizeAssumption DEF Inv, Types, NextCell, Cells
  <1>6. Unread = one \o rest BY <1>1, <1>5, UnreadShrinks, Parts
  <1>7. Unread' = rest BY <1>1, Parts
  <1>8. one \in Seq(Bytes) BY <1>5
  <1>9. rest \in Seq(Bytes) BY <1>5, UnreadIs
  <1>10. buf'[p] = buf[p] \o one BY <1>3, <1>5, AppendIsConcat
  <1> HIDE DEF one, rest
  <1>11. (buf[p] \o one) \o rest = buf[p] \o (one \o rest)
    <2> DEFINE first == buf[p]
    <2>1. first \in Seq(Bytes) BY <1>3
    <2> HIDE DEF first
    <2>2. (first \o one) \o rest = first \o (one \o rest)
      BY <1>8, <1>9, <2>1, ConcatAssociative
    <2> QED BY <2>2 DEF first
  <1>12. Queue' = Queue BY <1>4, <1>6, <1>7, <1>10, <1>11 DEF Queue
  <1>13. Msgs' = Msgs /\ Wanted' = Wanted /\ Bufs' = Bufs
    <2>1. /\ MsgOf(pc'[p], msg'[p]) = MsgOf(pc[p], msg[p])
          /\ WantOf(pc'[p], length'[p]) = WantOf(pc[p], length[p])
          /\ BufOf(pc'[p], buf'[p]) = BufOf(pc[p], buf[p])
      BY <1>1 DEF MsgOf, WantOf, BufOf
    <2>2. Types /\ UNCHANGED <<pc, msg, length>> BY <1>1 DEF Inv
    <2> QED BY <1>3, <2>1, <2>2, OnlyOne
  <1> QED BY <1>12, <1>13, Stands

LEMMA SplitConcat ==
    ASSUME NEW s \in Seq(Bytes), NEW t \in Seq(Bytes)
    PROVE  /\ SubSeq(s \o t, 1, Len(s)) = s
           /\ SubSeq(s \o t, Len(s) + 1, Len(s \o t)) = t
  <1> DEFINE u == s \o t
  <1>1. /\ u \in Seq(Bytes) /\ Len(u) = Len(s) + Len(t)
        /\ \A i \in 1 .. Len(s) + Len(t) : u[i] = IF i <= Len(s) THEN s[i] ELSE t[i - Len(s)]
    BY ConcatProperties
  <1>2. Len(s) \in Nat /\ Len(t) \in Nat OBVIOUS
  <1> HIDE DEF u
  <1>3. SubSeq(u, 1, Len(s)) = s
    <2> DEFINE a == SubSeq(u, 1, Len(s))
    <2>1. /\ a \in Seq(Bytes) /\ Len(a) = Len(s) - 1 + 1
          /\ \A k \in 1 .. Len(s) - 1 + 1 : a[k] = u[1 + k - 1]
      BY <1>1, <1>2, SubSeqIs
    <2> HIDE DEF a
    <2>2. Len(a) = Len(s) /\ \A k \in 1 .. Len(a) : a[k] = s[k]
      BY <1>1, <1>2, <2>1
    <2>3. a = s BY <2>1, <2>2, SeqEqual
    <2> QED BY <2>3 DEF a
  <1>4. SubSeq(u, Len(s) + 1, Len(u)) = t
    <2> DEFINE b == SubSeq(u, Len(s) + 1, Len(u))
    <2>1. /\ b \in Seq(Bytes) /\ Len(b) = Len(u) - (Len(s) + 1) + 1
          /\ \A k \in 1 .. Len(u) - (Len(s) + 1) + 1 : b[k] = u[Len(s) + 1 + k - 1]
      <3>1. Len(s) + 1 \in Nat \ {0} /\ Len(u) \in Nat /\ Len(s) + 1 <= Len(u) + 1
        BY <1>1, <1>2
      <3> QED BY <1>1, <3>1, SubSeqIs
    <2> HIDE DEF b
    <2>2. Len(b) = Len(t) BY <1>1, <1>2, <2>1
    <2>3. ASSUME NEW k \in 1 .. Len(t) PROVE b[k] = t[k]
      <3>1. /\ Len(s) + 1 + k - 1 = Len(s) + k /\ Len(s) + k \in 1 .. Len(s) + Len(t)
            /\ ~(Len(s) + k <= Len(s)) /\ Len(s) + k - Len(s) = k
            /\ Len(u) - (Len(s) + 1) + 1 = Len(t)
        BY <1>1, <1>2, <2>3
      <3>2. b[k] = u[Len(s) + k] BY <2>1, <2>3, <3>1
      <3>3. u[Len(s) + k] = t[Len(s) + k - Len(s)] BY <1>1, <3>1
      <3> QED BY <3>1, <3>2, <3>3
    <2>4. b = t BY <2>1, <2>2, <2>3, SeqEqual
    <2> QED BY <2>4 DEF b
  <1> QED BY <1>3, <1>4 DEF u

\* A read returns the first bytes, as many as are wanted or as there are
LEMMA ReadDoneMaps ==
    ASSUME Inv, NEW p \in Callers, ReadDone(p) PROVE BQ!Next \/ UNCHANGED BQ!vars
  <1>1. /\ pc[p] = "read" /\ Goto(p, "read_done") /\ (ptr_r # ptr_w => ~(Len(buf[p]) < length[p]))
        /\ UNCHANGED <<addr, ptr_w, ptr_r, msg, length, buf>>
    BY DEF ReadDone, More, ring, params
  <1>2. /\ pc'[p] = "read_done" /\ \A q \in Callers : q # p => pc'[q] = pc[q]
        /\ \A q \in Callers : pc'[q] # "read"
    BY <1>1 DEF Inv, Types, Exclusive, Goto, CriticalPCs, ReadPCs
  <1>3. /\ Copied = buf[p] /\ Unread \in Seq(Bytes) /\ Len(Unread) = Distance(ptr_w, ptr_r)
        /\ Queue \in Seq(Bytes) /\ Len(Queue) = Len(Copied) + Len(Unread)
    BY <1>1, HeldParts DEF CriticalPCs, ReadPCs
  <1>4. Copied' = <<>> BY <1>2, CopiedNothing, Parts
  <1>5. Unread' = Unread BY <1>1, Parts
  <1>6. Queue = buf[p] \o Unread /\ Queue' = Unread
    BY <1>3, <1>4, <1>5, ConcatEmptySeq DEF Queue
  <1>7. /\ buf[p] \in Seq(Bytes) /\ length[p] \in Nat /\ Len(buf[p]) \in Nat
        /\ Len(buf[p]) <= length[p]
    BY DEF Inv, Types, Short
  <1>8. Types /\ UNCHANGED <<msg, length, buf>> BY <1>1 DEF Inv
  <1>9. MsgOf(pc'[p], msg'[p]) = MsgOf(pc[p], msg[p])
    BY <1>1, <1>2 DEF MsgOf
  <1>10. CASE length[p] = 0
    <2>1. buf[p] = <<>> BY <1>7, <1>10
    <2>2. Queue' = Queue BY <1>3, <1>6, <2>1, ConcatEmptySeq
    <2>3. /\ WantOf(pc'[p], length'[p]) = WantOf(pc[p], length[p])
          /\ BufOf(pc'[p], buf'[p]) = BufOf(pc[p], buf[p])
      BY <1>1, <1>2, <1>10, <2>1 DEF WantOf, BufOf
    <2>4. Msgs' = Msgs /\ Wanted' = Wanted /\ Bufs' = Bufs
      BY <1>2, <1>8, <1>9, <2>3, OnlyOne
    <2> QED BY <2>2, <2>4, Stands
  <1>11. CASE length[p] # 0
    <2> DEFINE n == Len(buf[p])
    <2>1. n = IF length[p] <= Len(Queue) THEN length[p] ELSE Len(Queue)
      <3>1. CASE ptr_r = ptr_w
        <4>1. Distance(ptr_w, ptr_r) = 0
          <5>1. ptr_w \in Cells BY DEF Inv, Types
          <5>2. Distance(ptr_w, ptr_w) = ptr_w - ptr_w BY <5>1, DistanceIs, SizeAssumption DEF Cells
          <5> QED BY <3>1, <5>1, <5>2 DEF Cells
        <4>2. Len(Queue) = n BY <1>3, <1>7, <4>1
        <4> QED BY <1>7, <4>2
      <3>2. CASE ptr_r # ptr_w
        <4>1. n = length[p] BY <1>1, <1>7, <3>2
        <4>2. Len(Queue) >= n BY <1>3, <1>7
        <4> QED BY <1>7, <4>1, <4>2
      <3> QED BY <3>1, <3>2
    <2>2. SubSeq(Queue, 1, n) = buf[p] /\ SubSeq(Queue, n + 1, Len(Queue)) = Queue'
      BY <1>3, <1>6, <1>7, SplitConcat
    <2>3. WantOf(pc'[p], length'[p]) = 0 /\ BufOf(pc'[p], buf'[p]) = buf[p]
      BY <1>1, <1>2 DEF WantOf, BufOf
    <2>4. /\ Bufs' = [Bufs EXCEPT ![p] = buf[p]] /\ Wanted' = [Wanted EXCEPT ![p] = 0]
          /\ Msgs' = Msgs
      BY <1>2, <1>8, <1>9, <2>3, OnlyOne
    <2>5. Wanted[p] = length[p] /\ length[p] > 0
      BY <1>1, <1>7, <1>11 DEF Wanted, WantOf
    <2> HIDE DEF n
    <2> QED BY <2>1, <2>2, <2>4, <2>5, Reads
  <1> QED BY <1>10, <1>11

LEMMA PostMaps ==
    ASSUME Inv, NEW p \in Callers, Post(p) PROVE BQ!Next \/ UNCHANGED BQ!vars
  <1>1. pc[p] \in {"posted", "timeout", "retry", "read_done", "size"} /\ UNCHANGED ring
    BY DEF Post
  <1>2. CASE pc[p] = "retry"
    <2>1. Goto(p, "sleep") /\ UNCHANGED <<msg, length, buf>>
      BY <1>2 DEF Post, params
    <2>2. /\ MsgOf("sleep", msg'[p]) = MsgOf(pc[p], msg[p])
          /\ WantOf("sleep", length'[p]) = WantOf(pc[p], length[p])
          /\ BufOf("sleep", buf'[p]) = BufOf(pc[p], buf[p])
      BY <1>2, <2>1 DEF MsgOf, WantOf, BufOf
    <2>3. \A q \in Callers : msg'[q] = msg[q] /\ length'[q] = length[q] /\ buf'[q] = buf[q]
      BY <2>1
    <2> QED BY <1>1, <1>2, <2>1, <2>2, <2>3, Quiet
  <1>3. CASE pc[p] # "retry"
    <2>1. /\ Goto(p, "idle") /\ msg' = [msg EXCEPT ![p] = <<>>]
          /\ length' = [length EXCEPT ![p] = 0] /\ buf' = [buf EXCEPT ![p] = <<>>]
      BY <1>3 DEF Post
    <2>2. /\ msg'[p] = <<>> /\ length'[p] = 0 /\ buf'[p] = <<>> /\ pc'[p] = "idle"
          /\ \A q \in Callers : q # p =>
                 /\ pc'[q] = pc[q] /\ msg'[q] = msg[q]
                 /\ length'[q] = length[q] /\ buf'[q] = buf[q]
      BY <2>1 DEF Inv, Types, Goto
    <2>3. /\ pc[p] \notin {"posted", "timeout"} => msg[p] = <<>>
          /\ pc[p] # "read_done" => length[p] = 0 /\ buf[p] = <<>>
      BY <1>1, <1>3 DEF Inv, Params, AppendPCs
    <2>4. /\ MsgOf("idle", msg'[p]) = MsgOf(pc[p], msg[p])
          /\ WantOf("idle", length'[p]) = WantOf(pc[p], length[p])
      BY <2>2, <2>3 DEF MsgOf, WantOf
    <2>5. CASE pc[p] = "read_done"
      <3>1. BufOf("idle", buf'[p]) = <<>> BY <2>2 DEF BufOf
      <3>2. Types BY DEF Inv
      <3>3. Bufs' = [Bufs EXCEPT ![p] = <<>>] /\ Msgs' = Msgs /\ Wanted' = Wanted
        BY <2>2, <2>4, <3>1, <3>2, OnlyOne
      <3>4. \A q \in Callers : pc[q] = "read" => buf'[q] = buf[q] BY <2>2, <2>5
      <3>5. Queue' = Queue BY <1>1, <2>1, <2>5, <3>4, QueueStays
      <3> QED BY <3>3, <3>5, Uses
    <2>6. CASE pc[p] # "read_done"
      <3>1. BufOf("idle", buf'[p]) = BufOf(pc[p], buf[p]) BY <2>2, <2>6 DEF BufOf
      <3>2. pc[p] # "read" BY <1>1
      <3> QED BY <1>1, <2>1, <2>2, <2>4, <3>1, <3>2, Quiet
    <2> QED BY <2>5, <2>6
  <1> QED BY <1>2, <1>3

LEMMA NoRingMaps ==
    ASSUME Inv, NEW p \in Callers, SizeCall(p) \/ Awake(p) PROVE UNCHANGED BQ!vars
  <1>1. PICK l \in {"size_wait", "append_wait"} : Goto(p, l)
    BY DEF SizeCall, Awake
  <1>2. pc[p] \in {"idle", "sleep"} /\ UNCHANGED <<ring, msg, length, buf>>
    BY DEF SizeCall, Awake, params
  <1>3. /\ MsgOf(l, msg'[p]) = MsgOf(pc[p], msg[p])
        /\ WantOf(l, length'[p]) = WantOf(pc[p], length[p])
        /\ BufOf(l, buf'[p]) = BufOf(pc[p], buf[p])
    BY <1>1, <1>2 DEF MsgOf, WantOf, BufOf
  <1>4. UNCHANGED ring /\ \A q \in Callers :
            msg'[q] = msg[q] /\ length'[q] = length[q] /\ buf'[q] = buf[q]
    BY <1>2
  <1>5. l # "read" /\ pc[p] # "read" BY <1>2
  <1> QED BY <1>1, <1>3, <1>4, <1>5, Quiet

LEMMA NothingMaps ==
    ASSUME UNCHANGED <<ring, pc, params>> PROVE UNCHANGED BQ!vars
  <1>1. Queue' = Queue BY Parts DEF Queue, ring, params
  <1>2. Msgs' = Msgs /\ Wanted' = Wanted /\ Bufs' = Bufs BY DEF Msgs, Wanted, Bufs, params
  <1> QED BY <1>1, <1>2, Stands

LEMMA StepMaps == Inv /\ [Next]_vars => [BQ!Next]_(BQ!vars)
  <1> SUFFICES ASSUME Inv, [Next]_vars PROVE BQ!Next \/ UNCHANGED BQ!vars
    OBVIOUS
  <1>1. CASE UNCHANGED vars BY <1>1, NothingMaps DEF vars, ring, params
  <1>2. ASSUME NEW p \in Callers, Work(p) PROVE BQ!Next \/ UNCHANGED BQ!vars
    BY <1>2, CopyMaps, AdvanceMaps, NoRoomMaps, ReadByteMaps, ReadDoneMaps, PostMaps,
       NoRingMaps DEF Work
  <1>3. ASSUME NEW p \in Callers, SizeCall(p) \/ BadCall(p) \/ Wait(p)
        PROVE  UNCHANGED BQ!vars
    <2>1. CASE BadCall(p) BY <2>1, NothingMaps DEF BadCall, vars, ring, params
    <2> QED BY <1>3, <2>1, NoRingMaps, WaitMaps
  <1>4. CASE Delete BY <1>4, NothingMaps DEF Delete
  <1> QED BY <1>1, <1>2, <1>3, <1>4, AppendCallMaps, ReadCallMaps DEF Next

\* The ring behind the semaphore is a bounded queue of bytes (buf_queue.c:71-134): an
\* append puts its whole message at the end, at the moment ptr_w is set, or gives up
\* when Size - 1 bytes leave no room for it; a read takes the oldest bytes, as many
\* as are wanted or as there are, whatever the other callers do and wherever in the
\* ring the pointers stand.
THEOREM Implementation == Spec => ImplementsByteQueue
  <1>1. Init => BQ!Init BY InitMaps
  <1>2. Inv /\ [Next]_vars => [BQ!Next]_(BQ!vars) BY StepMaps
  <1> QED BY <1>1, <1>2, Invariant, PTL DEF Spec, ImplementsByteQueue, BQ!Spec
=============================================================================
