-------------------------- MODULE NgxEventsProofs --------------------------
(***************************************************************************)
(* The invariants of NgxEvents for any number of connections and sockets   *)
(* and batches of any length.  EventsInv adds to them what a step must     *)
(* know of the others: open connections have different sockets, epoll has  *)
(* the connection and the instance that the socket has now, and an event   *)
(* of the batch is about a slot that has its socket still, or is closed,   *)
(* or was used again.                                                      *)
(***************************************************************************)
EXTENDS NgxEvents, TLAPS

EventType ==
    [conn : Conn, inst : BOOLEAN, sock : Sock,
     what : SUBSET {"in", "out"}]

TypeOK ==
    /\ free \in Seq(Conn) /\ reusable \in Seq(Conn)
    /\ fd \in [Conn -> Sock \cup {NONE}]
    /\ instance \in [Conn -> BOOLEAN]
    /\ active \in [Conn -> BOOLEAN]
    /\ ptr \in [Sock -> (Conn \X BOOLEAN) \cup {NONE}]
    /\ batch \in Seq(EventType)
    /\ posted \subseteq Conn \X {"in", "out"} \X Sock
    /\ timer \in [Conn -> Sock \cup {NONE}]
    /\ reused \in [Conn -> 0 .. 2]
    /\ pc \in {"write", "in"} => batch # <<>>

OwnSocket ==
    \A c, d \in Conn : fd[c] = fd[d] /\ fd[c] # NONE => c = d

Registered ==
    \A s \in Sock : ptr[s] # NONE =>
        fd[ptr[s][1]] = s /\ instance[ptr[s][1]] = ptr[s][2]

EventKnown(e) ==
    /\ reused[e.conn] = 0 =>
          instance[e.conn] = e.inst /\ fd[e.conn] \in {e.sock, NONE}
    /\ reused[e.conn] = 1 => instance[e.conn] # e.inst
    /\ fd[e.conn] = e.sock => reused[e.conn] = 0
    /\ \A c \in Conn : fd[c] = e.sock => c = e.conn

BatchKnown == \A i \in DOMAIN batch : EventKnown(batch[i])

EventsInv ==
    /\ TypeOK
    /\ FreeExact /\ ReusableOpen /\ NothingLeftBehind
    /\ OwnSocket /\ Registered /\ BatchKnown
-----------------------------------------------------------------------------
(* Sequences without repetition *)

\* The elements of a sequence, for the provers.
LEMMA Elements ==
    ASSUME NEW S, NEW q \in Seq(S)
    PROVE  /\ \A x : x \in Range(q) <=> \E i \in 1 .. Len(q) : q[i] = x
           /\ IsInjective(q) <=>
                 \A i, j \in 1 .. Len(q) : q[i] = q[j] => i = j
BY DEF Range, IsInjective

\* A connection put before the free list, or before the reusable queue.
LEMMA Prepended ==
    ASSUME NEW S, NEW q \in Seq(S), IsInjective(q), NEW c \in S \ Range(q)
    PROVE  /\ <<c>> \o q \in Seq(S) /\ IsInjective(<<c>> \o q)
           /\ Range(<<c>> \o q) = Range(q) \cup {c}
<1> DEFINE r == <<c>> \o q
<1>1. /\ r \in Seq(S) /\ Len(r) = Len(q) + 1 /\ r[1] = c
      /\ \A i \in 1 .. Len(q) : r[i + 1] = q[i]
  OBVIOUS
<1>2. \A i \in 2 .. Len(r) : i - 1 \in 1 .. Len(q) /\ r[i] = q[i - 1]
  BY <1>1
<1> HIDE DEF r
<1>3. \A i \in 1 .. Len(q) : q[i] # c
  BY Elements
<1>4. IsInjective(r)
  <2>1. \A i, j \in 1 .. Len(q) : q[i] = q[j] => i = j
    BY Elements
  <2>2. \A i, j \in 1 .. Len(r) : r[i] = r[j] => i = j
    <3> SUFFICES ASSUME NEW i \in 1 .. Len(r), NEW j \in 1 .. Len(r), r[i] = r[j]
                 PROVE  i = j
      OBVIOUS
    <3>1. i = 1 \/ i \in 2 .. Len(r)
      BY <1>1
    <3>2. j = 1 \/ j \in 2 .. Len(r)
      BY <1>1
    <3> QED BY <1>1, <1>2, <1>3, <2>1, <3>1, <3>2, SMTT(30)
  <2> QED BY <1>1, <2>2, Elements
<1>5. Range(r) = Range(q) \cup {c}
  <2>1. \A x \in Range(r) : x \in Range(q) \cup {c}
    BY <1>1, <1>2, Elements
  <2>2. \A i \in 1 .. Len(q) : i + 1 \in 1 .. Len(r) /\ q[i] = r[i + 1]
    BY <1>1
  <2>3. \A x \in Range(q) : x \in Range(r)
    <3> SUFFICES ASSUME NEW i \in 1 .. Len(q)
                 PROVE  q[i] \in Range(r)
      BY Elements
    <3> QED BY <1>1, <2>2, Elements
  <2>4. c \in Range(r)
    BY <1>1, Elements
  <2> QED BY <2>1, <2>3, <2>4
<1> QED BY <1>1, <1>4, <1>5 DEF r

\* The head of the free list is taken.
LEMMA Taken ==
    ASSUME NEW S, NEW q \in Seq(S), IsInjective(q), q # <<>>
    PROVE  /\ Head(q) \in Range(q) /\ Head(q) \in S
           /\ Tail(q) \in Seq(S) /\ IsInjective(Tail(q))
           /\ Range(Tail(q)) = Range(q) \ {Head(q)}
<1> DEFINE r == Tail(q)
<1>1. /\ Len(q) > 0 /\ Head(q) = q[1]
      /\ r \in Seq(S) /\ Len(r) = Len(q) - 1
      /\ \A i \in 1 .. Len(r) : r[i] = q[i + 1]
  OBVIOUS
<1> HIDE DEF r
<1>2. \A i, j \in 1 .. Len(q) : q[i] = q[j] => i = j
  BY Elements
<1>3. \A i \in 1 .. Len(r) : i + 1 \in 1 .. Len(q) /\ r[i] = q[i + 1] /\ i + 1 # 1
  BY <1>1
<1>4. \A i \in 2 .. Len(q) : i - 1 \in 1 .. Len(r) /\ q[i] = r[i - 1]
  BY <1>1
<1>5. IsInjective(r)
  <2>1. \A i, j \in 1 .. Len(r) : r[i] = r[j] => i = j
    BY <1>1, <1>2, <1>3
  <2> QED BY <1>1, <2>1, Elements
<1>6. Range(r) = Range(q) \ {q[1]}
  <2>1. \A x \in Range(r) : x \in Range(q) /\ x # q[1]
    <3>1. \A i \in 1 .. Len(r) : r[i] # q[1]
      BY <1>1, <1>2, <1>3
    <3> QED BY <1>1, <1>3, <3>1, Elements, SMTT(30)
  <2>2. \A x \in Range(q) : x # q[1] => x \in Range(r)
    <3> SUFFICES ASSUME NEW i \in 1 .. Len(q), q[i] # q[1]
                 PROVE  q[i] \in Range(r)
      BY Elements
    <3>1. i \in 2 .. Len(q)
      BY <1>1
    <3> QED BY <1>1, <1>4, <3>1, Elements
  <2> QED BY <2>1, <2>2
<1>7. q[1] \in Range(q) /\ q[1] \in S
  BY <1>1, Elements
<1> QED BY <1>1, <1>5, <1>6, <1>7 DEF r

\* A connection is removed from the reusable queue.
LEMMA Removed ==
    ASSUME NEW S, NEW q \in Seq(S), IsInjective(q), NEW c
    PROVE  /\ Without(q, c) \in Seq(S) /\ IsInjective(Without(q, c))
           /\ Range(Without(q, c)) = Range(q) \ {c}
<1>1. CASE c \notin Range(q)
  BY <1>1 DEF Without
<1>2. CASE c \in Range(q)
  <2> DEFINE k == CHOOSE i \in DOMAIN q : q[i] = c
             r == SubSeq(q, 1, k - 1) \o SubSeq(q, k + 1, Len(q))
  <2>1. k \in 1 .. Len(q) /\ q[k] = c
    BY <1>2 DEF Range
  <2>2. Without(q, c) = r
    BY <1>2, ZenonT(30) DEF Without
  <2> HIDE DEF k
  <2>3. /\ r \in Seq(S) /\ Len(r) = Len(q) - 1
        /\ \A i \in 1 .. Len(r) : r[i] = IF i < k THEN q[i] ELSE q[i + 1]
    <3> DEFINE a == SubSeq(q, 1, k - 1)
               b == SubSeq(q, k + 1, Len(q))
    <3>1. /\ a \in Seq(S) /\ Len(a) = k - 1
          /\ \A i \in 1 .. k - 1 : a[i] = q[i]
      BY <2>1
    <3>2. /\ b \in Seq(S) /\ Len(b) = Len(q) - k
          /\ \A i \in 1 .. Len(q) - k : b[i] = q[k + i]
      BY <2>1
    <3> HIDE DEF a, b
    <3>3. /\ a \o b \in Seq(S) /\ Len(a \o b) = Len(a) + Len(b)
          /\ \A i \in 1 .. Len(a) + Len(b) :
                (a \o b)[i] = IF i <= Len(a) THEN a[i] ELSE b[i - Len(a)]
      <4>1. a \in Seq(S) /\ b \in Seq(S) /\ Len(a) \in Nat /\ Len(b) \in Nat
        BY <3>1, <3>2
      <4>2. a \o b \in Seq(S)
        BY <4>1
      <4>3. Len(a \o b) = Len(a) + Len(b)
        BY <4>1
      <4>4. ASSUME NEW i \in 1 .. Len(a) + Len(b)
            PROVE  (a \o b)[i] = IF i <= Len(a) THEN a[i] ELSE b[i - Len(a)]
        BY <4>1
      <4> QED BY <4>2, <4>3, <4>4
    <3>4. r = a \o b
      BY DEF a, b
    <3> HIDE DEF r
    <3>5. Len(r) = Len(q) - 1
      <4>1. Len(q) \in Nat /\ k \in Nat
        BY <2>1
      <4>2. (k - 1) + (Len(q) - k) = Len(q) - 1
        BY <4>1
      <4> QED BY <3>1, <3>2, <3>3, <3>4, <4>2
    <3>6. ASSUME NEW i \in 1 .. Len(r)
          PROVE  r[i] = IF i < k THEN q[i] ELSE q[i + 1]
      <4>1. CASE i < k
        <5>1. i \in 1 .. k - 1
          BY <2>1, <3>5, <4>1
        <5>2. r[i] = a[i]
          <6>1. i \in 1 .. Len(a) + Len(b) /\ i <= Len(a)
            BY <2>1, <3>1, <3>2, <5>1
          <6> QED BY <3>3, <3>4, <6>1, ZenonT(30)
        <5> QED BY <3>1, <4>1, <5>1, <5>2
      <4>2. CASE ~(i < k)
        <5>1. i - (k - 1) \in 1 .. Len(q) - k /\ k + (i - (k - 1)) = i + 1
          BY <2>1, <3>5, <4>2
        <5>2. r[i] = b[i - (k - 1)]
          <6>1. i \in 1 .. Len(a) + Len(b) /\ ~(i <= Len(a)) /\ Len(a) = k - 1
            BY <2>1, <3>1, <3>2, <3>5, <4>2
          <6> QED BY <3>3, <3>4, <6>1, ZenonT(30)
        <5> QED BY <3>2, <4>2, <5>1, <5>2
      <4> QED BY <4>1, <4>2
    <3> QED BY <3>3, <3>4, <3>5, <3>6
  <2> HIDE DEF r
  <2>4. IsInjective(r)
    <3>1. \A i, j \in 1 .. Len(q) : q[i] = q[j] => i = j
      BY Elements
    <3>2. \A i, j \in 1 .. Len(r) : r[i] = r[j] => i = j
      BY <2>1, <2>3, <3>1
    <3> QED BY <2>3, <3>2, Elements
  <2>5. \A i \in 1 .. Len(r) : \E j \in 1 .. Len(q) : r[i] = q[j] /\ j # k
    <3> SUFFICES ASSUME NEW i \in 1 .. Len(r)
                 PROVE  \E j \in 1 .. Len(q) : r[i] = q[j] /\ j # k
      OBVIOUS
    <3>1. i \in 1 .. Len(q) /\ i + 1 \in 1 .. Len(q)
      BY <2>1, <2>3
    <3>2. CASE i < k
      BY <2>1, <2>3, <3>1, <3>2, SMTT(30)
    <3>3. CASE ~(i < k)
      <4>1. r[i] = q[i + 1] /\ i + 1 # k
        BY <2>1, <2>3, <3>3
      <4> QED BY <3>1, <4>1
    <3> QED BY <3>2, <3>3
  <2>6. \A j \in 1 .. Len(q) : j # k =>
           \E i \in 1 .. Len(r) : r[i] = q[j]
    <3> SUFFICES ASSUME NEW j \in 1 .. Len(q), j # k
                 PROVE  \E i \in 1 .. Len(r) : r[i] = q[j]
      OBVIOUS
    <3>1. CASE j < k
      BY <2>1, <2>3, <3>1
    <3>2. CASE j > k
      <4>1. j - 1 \in 1 .. Len(r) /\ r[j - 1] = q[j]
        BY <2>1, <2>3, <3>2
      <4> QED BY <4>1
    <3> QED BY <2>1, <3>1, <3>2
  <2>7. \A j \in 1 .. Len(q) : j # k => q[j] # c
    BY <2>1, Elements
  <2>8. Range(r) = Range(q) \ {c}
    <3>1. \A x \in Range(r) : x \in Range(q) /\ x # c
      BY <2>3, <2>5, <2>7, Elements
    <3>2. \A x \in Range(q) : x # c => x \in Range(r)
      <4> SUFFICES ASSUME NEW j \in 1 .. Len(q), q[j] # c
                   PROVE  q[j] \in Range(r)
        BY Elements
      <4>1. PICK i \in 1 .. Len(r) : r[i] = q[j]
        BY <2>1, <2>6
      <4> QED BY <2>3, <4>1, Elements
    <3> QED BY <3>1, <3>2
  <2> QED BY <2>2, <2>3, <2>4, <2>8, SMTT(30)
<1> QED BY <1>1, <1>2

\* The queue is read from its end.
LEMMA Reversed ==
    ASSUME NEW S, NEW q \in Seq(S), IsInjective(q)
    PROVE  /\ Reverse(q) \in Seq(S) /\ IsInjective(Reverse(q))
           /\ Len(Reverse(q)) = Len(q)
           /\ Range(Reverse(q)) = Range(q)
<1> DEFINE r == Reverse(q)
           n == Len(q)
<1>1. n \in Nat /\ \A i \in 1 .. n : n - i + 1 \in 1 .. n /\ n - (n - i + 1) + 1 = i
  OBVIOUS
<1>2. r = [i \in 1 .. n |-> q[(n - i) + 1]]
  BY DEF Reverse
<1>3. \A i \in 1 .. n : r[i] = q[n - i + 1] /\ r[i] \in S
  BY <1>1, <1>2
<1> HIDE DEF r
<1>4. r \in Seq(S) /\ Len(r) = n
  <2>1. r \in [1 .. n -> S]
    BY <1>2, <1>3
  <2> QED BY <1>1, <2>1
<1>5. IsInjective(r)
  <2>1. \A i, j \in 1 .. n : q[i] = q[j] => i = j
    BY Elements
  <2>2. \A i, j \in 1 .. n : r[i] = r[j] => i = j
    BY <1>1, <1>3, <2>1
  <2> QED BY <1>4, <2>2, Elements
<1>6. Range(r) = Range(q)
  <2>1. \A x \in Range(r) : x \in Range(q)
    <3> SUFFICES ASSUME NEW i \in 1 .. n
                 PROVE  r[i] \in Range(q)
      BY <1>4, Elements
    <3> QED BY <1>1, <1>3, Elements
  <2>2. \A x \in Range(q) : x \in Range(r)
    <3> SUFFICES ASSUME NEW i \in 1 .. n
                 PROVE  q[i] \in Range(r)
      BY Elements
    <3>1. n - i + 1 \in 1 .. n /\ r[n - i + 1] = q[i]
      BY <1>1, <1>3
    <3> QED BY <1>4, <3>1, Elements
  <2> QED BY <2>1, <2>2, ZenonT(30)
<1> QED BY <1>4, <1>5, <1>6 DEF r

\* The first m elements.
LEMMA Cut ==
    ASSUME NEW S, NEW q \in Seq(S), IsInjective(q), NEW m \in 0 .. Len(q)
    PROVE  /\ SubSeq(q, 1, m) \in Seq(S) /\ IsInjective(SubSeq(q, 1, m))
           /\ Len(SubSeq(q, 1, m)) = m
           /\ \A x : x \in Range(SubSeq(q, 1, m)) <=>
                        \E i \in 1 .. m : q[i] = x
<1> DEFINE r == SubSeq(q, 1, m)
<1>1. \A i \in 1 .. m : i \in 1 .. Len(q) /\ q[i] \in S
  OBVIOUS
<1>2. r \in Seq(S) /\ Len(r) = m /\ \A i \in 1 .. m : r[i] = q[i]
  BY <1>1
<1> HIDE DEF r
<1>3. IsInjective(r)
  <2>1. \A i, j \in 1 .. Len(q) : q[i] = q[j] => i = j
    BY Elements
  <2>2. \A i, j \in 1 .. Len(r) : r[i] = r[j] => i = j
    BY <1>1, <1>2, <2>1
  <2> QED BY <1>2, <2>2, Elements
<1>4. \A x : x \in Range(r) <=> \E i \in 1 .. m : q[i] = x
  BY <1>2, Elements
<1> QED BY <1>2, <1>3, <1>4 DEF r

\* The end of a queue without repetition, and what is left of it.
LEMMA Split ==
    ASSUME NEW S, NEW q \in Seq(S), IsInjective(q), NEW m \in 0 .. Len(q)
    PROVE  Range(SubSeq(q, 1, Len(q) - m))
              = Range(q) \ Range(SubSeq(Reverse(q), 1, m))
<1> DEFINE n == Len(q)
           r == Reverse(q)
           a == SubSeq(q, 1, n - m)
           b == SubSeq(r, 1, m)
<1>1. n \in Nat /\ m \in Nat /\ n - m \in 0 .. n
  OBVIOUS
<1>2. \A i \in 1 .. n : r[i] = q[n - i + 1]
  BY DEF Reverse
<1>3. r \in Seq(S) /\ IsInjective(r) /\ Len(r) = n
  BY Reversed
<1> HIDE DEF r
<1>4. \A x : x \in Range(a) <=> \E i \in 1 .. n - m : q[i] = x
  BY <1>1, Cut, ZenonT(30)
<1>5. \A x : x \in Range(b) <=> \E i \in 1 .. m : r[i] = x
  BY <1>3, Cut
<1> HIDE DEF a, b
<1>6. \A i, j \in 1 .. n : q[i] = q[j] => i = j
  BY Elements
<1>7. \A x \in Range(a) : x \in Range(q) /\ x \notin Range(b)
  <2> SUFFICES ASSUME NEW i \in 1 .. n - m
               PROVE  q[i] \in Range(q) /\ q[i] \notin Range(b)
    BY <1>4
  <2>1. i \in 1 .. n /\ \A j \in 1 .. m : j \in 1 .. n /\ n - j + 1 \in 1 .. n
                                          /\ n - j + 1 # i
    BY <1>1
  <2>2. \A j \in 1 .. m : r[j] # q[i]
    BY <1>2, <1>6, <2>1
  <2> QED BY <1>5, <2>1, <2>2, Elements, ZenonT(30)
<1>8. \A x \in Range(q) : x \notin Range(b) => x \in Range(a)
  <2> SUFFICES ASSUME NEW i \in 1 .. n, q[i] \notin Range(b)
               PROVE  q[i] \in Range(a)
    BY Elements
  <2>1. CASE i \in 1 .. n - m
    BY <1>4, <2>1
  <2>2. CASE i \notin 1 .. n - m
    <3>1. n - i + 1 \in 1 .. m /\ n - i + 1 \in 1 .. n /\ n - (n - i + 1) + 1 = i
      BY <1>1, <2>2
    <3>2. r[n - i + 1] = q[i]
      BY <1>2, <3>1
    <3> QED BY <1>5, <3>1, <3>2
  <2> QED BY <2>1, <2>2
<1> QED BY <1>7, <1>8 DEF a, b, r
-----------------------------------------------------------------------------
(* What ngx_get_connection does to the lists *)

\* ngx_min and ngx_max of two numbers.
LEMMA MinOfTwo ==
    ASSUME NEW x \in Int, NEW y \in Int
    PROVE  Min({x, y}) \in {x, y} /\ Min({x, y}) <= x /\ Min({x, y}) <= y
<1>1. \E z \in {x, y} : \A w \in {x, y} : z <= w
  OBVIOUS
<1> QED BY <1>1 DEF Min

\* The greater of two numbers, for the same count.
LEMMA MaxOfTwo ==
    ASSUME NEW x \in Int, NEW y \in Int
    PROVE  Max({x, y}) \in {x, y} /\ Max({x, y}) >= x /\ Max({x, y}) >= y
<1>1. \E z \in {x, y} : \A w \in {x, y} : z >= w
  OBVIOUS
<1> QED BY <1>1 DEF Max

\* n in ngx_drain_connections is positive, so that something is closed if
\* anything can be.
LEMMA DrainedFacts ==
    ASSUME reusable \in Seq(Conn)
    PROVE  \E m \in 0 .. Len(reusable) :
              /\ Drained = SubSeq(Reverse(reusable), 1, m)
              /\ reusable # <<>> => m > 0
<1> DEFINE k == Len(reusable)
           a == Min({32, k \div 8})
           n == Max({a, 1})
           m == Min({n, k})
<1>3. k \in Nat /\ k \div 8 \in Int
  OBVIOUS
<1> HIDE DEF k
<1>4. a \in Int
  <2> DEFINE e == k \div 8
             most == 32
  <2>0. e \in Int /\ most \in Int
    BY <1>3
  <2> HIDE DEF e, most
  <2>1. Min({most, e}) \in {most, e}
    BY <2>0, MinOfTwo, ZenonT(30)
  <2>2. Min({most, e}) \in Int
    BY <2>0, <2>1
  <2> QED BY <2>2 DEF e, most
<1> HIDE DEF a
<1>5. n \in Int /\ n >= 1
  <2>1. n \in {a, 1} /\ n >= 1
    BY <1>4, MaxOfTwo
  <2> HIDE DEF n
  <2> QED BY <1>4, <2>1
<1> HIDE DEF n
<1>6. m \in {n, k} /\ m <= k
  BY <1>3, <1>5, MinOfTwo
<1>7. m \in 0 .. k /\ (k > 0 => m > 0)
  BY <1>3, <1>5, <1>6
<1>8. Drained = SubSeq(Reverse(reusable), 1, m)
  BY DEF Drained, m, n, a, k
<1> HIDE DEF m
<1>9. reusable # <<>> => k > 0
  BY DEF k
<1> QED BY <1>7, <1>8, <1>9 DEF k

\* The connection that a Get takes was free, or was closed by this very call;
\* the lists lose and gain what they should.
LEMMA GetLists ==
    ASSUME TypeOK, FreeExact, ReusableOpen
    PROVE  LET closed == IF free = <<>> THEN Drained ELSE <<>>
               list == Reverse(closed) \o free
               K == Range(closed)
               left == SubSeq(reusable, 1, Len(reusable) - Len(closed))
           IN  list # <<>> =>
               /\ K \subseteq Open
               /\ Head(list) \in Conn
               /\ Head(list) \in K \/ (fd[Head(list)] = NONE /\ K = {})
               /\ Tail(list) \in Seq(Conn) /\ IsInjective(Tail(list))
               /\ Range(Tail(list)) = ((Conn \ Open) \cup K) \ {Head(list)}
               /\ left \in Seq(Conn) /\ IsInjective(left)
               /\ Range(left) = Range(reusable) \ K
<1> DEFINE closed == IF free = <<>> THEN Drained ELSE <<>>
           list == Reverse(closed) \o free
           K == Range(closed)
           left == SubSeq(reusable, 1, Len(reusable) - Len(closed))
<1> HIDE DEF closed, list, K, left
<1> SUFFICES ASSUME list # <<>>
             PROVE  /\ K \subseteq Open
                    /\ Head(list) \in Conn
                    /\ Head(list) \in K \/ (fd[Head(list)] = NONE /\ K = {})
                    /\ Tail(list) \in Seq(Conn) /\ IsInjective(Tail(list))
                    /\ Range(Tail(list)) = ((Conn \ Open) \cup K) \ {Head(list)}
                    /\ left \in Seq(Conn) /\ IsInjective(left)
                    /\ Range(left) = Range(reusable) \ K
  BY ZenonT(30) DEF closed, list, K, left
<1>0. /\ free \in Seq(Conn) /\ reusable \in Seq(Conn)
      /\ IsInjective(free) /\ Range(free) = Conn \ Open
      /\ IsInjective(reusable) /\ Range(reusable) \subseteq Open
  BY DEF TypeOK, FreeExact, ReusableOpen
<1>1. /\ K \subseteq Open
      /\ left \in Seq(Conn) /\ IsInjective(left)
      /\ Range(left) = Range(reusable) \ K
      /\ list \in Seq(Conn) /\ IsInjective(list)
      /\ Range(list) = (Conn \ Open) \cup K
      /\ free # <<>> => K = {}
      /\ free = <<>> => Range(list) = K
  <2>1. CASE free # <<>>
    <3>1. closed = <<>> /\ Len(closed) = 0
      BY <2>1 DEF closed
    <3>2. K = {}
      BY <3>1 DEF Range, K
    <3>3. Reverse(closed) = <<>>
      BY <3>1 DEF Reverse
    <3>4. list = free
      BY <1>0, <3>3 DEF list
    <3>5. left = reusable
      <4>1. Len(reusable) - Len(closed) = Len(reusable)
        BY <1>0, <3>1
      <4> QED BY <1>0, <4>1 DEF left
    <3> QED BY <1>0, <2>1, <3>2, <3>4, <3>5
  <2>2. CASE free = <<>>
    <3>1. PICK m \in 0 .. Len(reusable) : Drained = SubSeq(Reverse(reusable), 1, m)
      BY <1>0, DrainedFacts
    <3>2. closed = SubSeq(Reverse(reusable), 1, m)
      BY <2>2, <3>1 DEF closed
    <3>3. /\ Reverse(reusable) \in Seq(Conn) /\ IsInjective(Reverse(reusable))
          /\ Len(Reverse(reusable)) = Len(reusable)
          /\ Range(Reverse(reusable)) = Range(reusable)
      BY <1>0, Reversed
    <3>4. /\ closed \in Seq(Conn) /\ IsInjective(closed) /\ Len(closed) = m
          /\ \A x : x \in K <=> \E i \in 1 .. m : Reverse(reusable)[i] = x
      <4> DEFINE rev == Reverse(reusable)
      <4>1. rev \in Seq(Conn) /\ IsInjective(rev) /\ m \in 0 .. Len(rev)
        BY <3>3
      <4>2. closed = SubSeq(rev, 1, m)
        BY <3>2
      <4> HIDE DEF rev
      <4>3. /\ SubSeq(rev, 1, m) \in Seq(Conn) /\ IsInjective(SubSeq(rev, 1, m))
            /\ Len(SubSeq(rev, 1, m)) = m
            /\ \A x : x \in Range(SubSeq(rev, 1, m)) <=> \E i \in 1 .. m : rev[i] = x
        BY <4>1, Cut
      <4> QED BY <4>2, <4>3 DEF rev, K
    <3>5. K \subseteq Range(reusable)
      <4> SUFFICES ASSUME NEW i \in 1 .. m
                   PROVE  Reverse(reusable)[i] \in Range(reusable)
        BY <3>4
      <4>1. i \in 1 .. Len(reusable)
        BY <1>0
      <4> QED BY <3>3, <4>1, Elements
    <3>6. Range(left) = Range(reusable) \ K
      <4>1. Range(SubSeq(reusable, 1, Len(reusable) - m))
               = Range(reusable) \ Range(SubSeq(Reverse(reusable), 1, m))
        BY <1>0, Split
      <4>2. left = SubSeq(reusable, 1, Len(reusable) - m)
        BY <3>4 DEF left
      <4> QED BY <3>2, <4>1, <4>2 DEF K
    <3>7. left \in Seq(Conn) /\ IsInjective(left)
      <4>1. Len(reusable) - Len(closed) \in 0 .. Len(reusable)
        BY <1>0, <3>4
      <4> QED BY <1>0, <4>1, Cut DEF left
    <3>8. /\ Reverse(closed) \in Seq(Conn) /\ IsInjective(Reverse(closed))
          /\ Range(Reverse(closed)) = K
      BY <3>4, Reversed DEF K
    <3>9. list = Reverse(closed)
      BY <2>2, <3>8 DEF list
    <3>10. Conn \ Open = {}
      BY <1>0, <2>2 DEF Range
    <3> QED BY <1>0, <2>2, <3>5, <3>6, <3>7, <3>8, <3>9, <3>10, SMTT(30)
  <2> QED BY <2>1, <2>2
<1>2. /\ Head(list) \in Range(list) /\ Head(list) \in Conn
      /\ Tail(list) \in Seq(Conn) /\ IsInjective(Tail(list))
      /\ Range(Tail(list)) = Range(list) \ {Head(list)}
  BY <1>1, Taken
<1>3. Head(list) \in K \/ (fd[Head(list)] = NONE /\ K = {})
  <2>1. CASE free = <<>>
    BY <1>1, <1>2, <2>1
  <2>2. CASE free # <<>>
    <3>1. K = {}
      BY <1>1, <2>2
    <3>2. Head(list) \in Conn \ Open
      BY <1>1, <1>2, <3>1
    <3> QED BY <3>1, <3>2 DEF Open
  <2> QED BY <2>1, <2>2
<1> QED BY <1>1, <1>2, <1>3, SMTT(30)
-----------------------------------------------------------------------------
(* EventsInv is inductive *)

\* At the start all slots are free and nothing is registered.
LEMMA EventsInit == Init => EventsInv
<1> SUFFICES ASSUME Init PROVE EventsInv
  OBVIOUS
<1> USE EventsAssumption
<1>1. 1 \in Conn /\ CONNECTIONS - 1 \in Nat
  BY DEF Conn
<1>2. free \in Seq(Conn) /\ Len(free) = CONNECTIONS - 1
  <2>1. free \in [1 .. CONNECTIONS - 1 -> Conn]
    BY DEF Init, Conn
  <2> QED BY <1>1, <2>1, SMTT(30)
<1>3. TypeOK
  <2>1. ptr \in [Sock -> (Conn \X BOOLEAN) \cup {NONE}]
    BY <1>1, ZenonT(30) DEF Init
  <2>2. fd \in [Conn -> Sock \cup {NONE}] /\ timer \in [Conn -> Sock \cup {NONE}]
    BY DEF Init
  <2>3. instance \in [Conn -> BOOLEAN] /\ active \in [Conn -> BOOLEAN]
    BY DEF Init
  <2>4. reused \in [Conn -> 0 .. 2]
    BY DEF Init
  <2>5. batch \in Seq(EventType) /\ reusable \in Seq(Conn)
    BY DEF Init
  <2>6. posted \subseteq Conn \X {"in", "out"} \X Sock /\ pc \notin {"write", "in"}
    BY DEF Init
  <2> QED BY <1>2, <2>1, <2>2, <2>3, <2>4, <2>5, <2>6, SMTT(30) DEF TypeOK
<1>4. Open = {1}
  BY <1>1 DEF Init, Open
<1>5. FreeExact
  <2>1. \A i \in 1 .. Len(free) : free[i] = i + 1
    BY <1>2 DEF Init
  <2>2. IsInjective(free)
    BY <1>2, <2>1, Elements
  <2>3. \A x \in Range(free) : x \in Conn \ {1}
    <3> SUFFICES ASSUME NEW i \in 1 .. Len(free)
                 PROVE  free[i] \in Conn \ {1}
      BY <1>2, Elements
    <3> QED BY <1>2, <2>1 DEF Conn
  <2>4. \A x \in Conn \ {1} : x \in Range(free)
    <3> SUFFICES ASSUME NEW x \in Conn \ {1}
                 PROVE  x \in Range(free)
      OBVIOUS
    <3>1. x - 1 \in 1 .. Len(free) /\ free[x - 1] = x
      BY <1>2, <2>1 DEF Conn
    <3> QED BY <1>2, <3>1, Elements
  <2> QED BY <1>4, <2>2, <2>3, <2>4 DEF FreeExact
<1>6. ReusableOpen
  BY DEF Init, ReusableOpen, IsInjective, Range
<1>7. NothingLeftBehind
  BY DEF Init, NothingLeftBehind
<1>8. OwnSocket
  BY DEF Init, OwnSocket
<1>9. Registered
  BY <1>1, ZenonT(30) DEF Init, Registered
<1>10. BatchKnown
  BY DEF Init, BatchKnown
<1> QED BY <1>3, <1>5, <1>6, <1>7, <1>8, <1>9, <1>10, SMTT(30) DEF EventsInv

\* ngx_close_connection
LEMMA CloseKeeps ==
    ASSUME EventsInv, NEW c \in Conn, Close(c)
    PROVE  EventsInv'
<1> USE EventsAssumption
<1>1. TypeOK /\ FreeExact /\ ReusableOpen /\ NothingLeftBehind
      /\ OwnSocket /\ Registered /\ BatchKnown
  BY DEF EventsInv
<1>2. /\ fd[c] \in Sock /\ fd' = [fd EXCEPT ![c] = NONE]
      /\ c \in Open /\ c \notin Range(free)
      /\ UNCHANGED <<instance, batch, pc, reused>>
  BY <1>1 DEF Close, TypeOK, Open, FreeExact
<1>3. Open' = Open \ {c}
  BY <1>1, <1>2 DEF Open, TypeOK
<1>4. /\ free' \in Seq(Conn) /\ IsInjective(free') /\ Range(free') = Range(free) \cup {c}
  BY <1>1, <1>2, Prepended DEF Close, TypeOK, FreeExact
<1>5. /\ reusable' \in Seq(Conn) /\ IsInjective(reusable')
      /\ Range(reusable') = Range(reusable) \ {c}
  BY <1>1, Removed DEF Close, TypeOK, ReusableOpen
<1>6. TypeOK'
  BY <1>1, <1>2, <1>4, <1>5, SMTT(30) DEF TypeOK, Close, Closing, EventType
<1>7. FreeExact'
  BY <1>1, <1>2, <1>3, <1>4, SMTT(30) DEF FreeExact
<1>8. ReusableOpen'
  BY <1>1, <1>3, <1>5, SMTT(30) DEF ReusableOpen
<1>9. NothingLeftBehind'
  BY <1>1, <1>2, ZenonT(30) DEF NothingLeftBehind, Close, Closing, TypeOK
<1>10. OwnSocket'
  BY <1>1, <1>2 DEF OwnSocket, TypeOK
<1>11. Registered'
  <2> SUFFICES ASSUME NEW s \in Sock, ptr'[s] # NONE
               PROVE  fd'[ptr'[s][1]] = s /\ instance'[ptr'[s][1]] = ptr'[s][2]
    BY DEF Registered
  <2>1. ptr'[s] = ptr[s] /\ fd[c] # s
    BY DEF Close, Closing
  <2>2. ptr[s][1] \in Conn /\ fd[ptr[s][1]] = s /\ instance[ptr[s][1]] = ptr[s][2]
    BY <1>1, <2>1, SMTT(30) DEF Registered, TypeOK
  <2> QED BY <1>1, <1>2, <2>1, <2>2, SMTT(30) DEF TypeOK
<1>12. BatchKnown'
  <2> SUFFICES ASSUME NEW i \in DOMAIN batch
               PROVE  EventKnown(batch[i])'
    BY <1>2 DEF BatchKnown
  <2>1. EventKnown(batch[i]) /\ batch[i] \in EventType
    BY <1>1 DEF BatchKnown, TypeOK
  <2> QED BY <1>1, <1>2, <2>1, ZenonT(30) DEF EventKnown, EventType, TypeOK
<1> QED BY <1>6, <1>7, <1>8, <1>9, <1>10, <1>11, <1>12 DEF EventsInv

\* ngx_get_connection, with the connections that it closes.
LEMMA GetKeeps ==
    ASSUME EventsInv, NEW s \in Sock, Get(s)
    PROVE  EventsInv'
<1> USE EventsAssumption
<1>1. TypeOK /\ FreeExact /\ ReusableOpen /\ NothingLeftBehind
      /\ OwnSocket /\ Registered /\ BatchKnown
  BY DEF EventsInv
<1> DEFINE closed == IF free = <<>> THEN Drained ELSE <<>>
           list == Reverse(closed) \o free
           c == Head(list)
           K == Range(closed)
<1>2. /\ list # <<>>
      /\ Closing(K)
      /\ reusable' = SubSeq(reusable, 1, Len(reusable) - Len(closed))
      /\ free' = Tail(list)
      /\ fd' = [d \in Conn |-> IF d = c THEN s ELSE IF d \in K THEN NONE ELSE fd[d]]
      /\ instance' = [instance EXCEPT ![c] = Other(@)]
      /\ reused' = [reused EXCEPT ![c] = Min({@ + 1, 2})]
      /\ Fresh(s)
      /\ UNCHANGED <<batch, pc>>
  BY DEF Get
<1>3. /\ K \subseteq Open
      /\ c \in Conn
      /\ c \in K \/ (fd[c] = NONE /\ K = {})
      /\ free' \in Seq(Conn) /\ IsInjective(free')
      /\ Range(free') = ((Conn \ Open) \cup K) \ {c}
      /\ reusable' \in Seq(Conn) /\ IsInjective(reusable')
      /\ Range(reusable') = Range(reusable) \ K
  <2>1. list # <<>> =>
        /\ K \subseteq Open
        /\ Head(list) \in Conn
        /\ Head(list) \in K \/ (fd[Head(list)] = NONE /\ K = {})
        /\ Tail(list) \in Seq(Conn) /\ IsInjective(Tail(list))
        /\ Range(Tail(list)) = ((Conn \ Open) \cup K) \ {Head(list)}
        /\ SubSeq(reusable, 1, Len(reusable) - Len(closed)) \in Seq(Conn)
        /\ IsInjective(SubSeq(reusable, 1, Len(reusable) - Len(closed)))
        /\ Range(SubSeq(reusable, 1, Len(reusable) - Len(closed)))
              = Range(reusable) \ K
    BY <1>1, GetLists
  <2> HIDE DEF closed, list, K
  <2> QED BY <1>2, <2>1
<1> HIDE DEF closed, list, c, K
<1>4. reused' = [reused EXCEPT ![c] = reused'[c]]
      /\ reused'[c] \in {1, 2} /\ (reused'[c] = 1 => reused[c] = 0)
  <2>1. reused[c] \in 0 .. 2 /\ reused'[c] = Min({reused[c] + 1, 2})
    BY <1>1, <1>2, <1>3, SMTT(30) DEF TypeOK
  <2> DEFINE n == reused[c] + 1
             most == 2
  <2>2. n \in Int /\ most \in Int
    BY <2>1
  <2> HIDE DEF n, most
  <2>3. Min({n, most}) \in {n, most} /\ Min({n, most}) <= n /\ Min({n, most}) <= most
    BY <2>2, MinOfTwo, ZenonT(30)
  <2>4. reused'[c] = Min({n, most})
    BY <2>1 DEF n, most
  <2>5. reused'[c] \in {1, 2} /\ (reused'[c] = 1 => reused[c] = 0)
    BY <2>1, <2>2, <2>3, <2>4 DEF n, most
  <2>6. reused' = [reused EXCEPT ![c] = reused'[c]]
    BY <1>1, <1>2, <1>3, SMTT(30) DEF TypeOK
  <2> QED BY <2>5, <2>6, SMTT(30)
<1>5. Open' = (Open \ K) \cup {c}
  BY <1>1, <1>2, <1>3, ZenonT(30) DEF Open, TypeOK
<1>6. TypeOK'
  <2>1. fd' \in [Conn -> Sock \cup {NONE}]
    BY <1>1, <1>2, ZenonT(30) DEF TypeOK
  <2>2. instance' \in [Conn -> BOOLEAN]
    BY <1>1, <1>2, <1>3, SMTT(30) DEF TypeOK, Other
  <2>3. reused' \in [Conn -> 0 .. 2]
    BY <1>1, <1>3, <1>4, SMTT(30) DEF TypeOK
  <2>4. /\ active' \in [Conn -> BOOLEAN]
        /\ ptr' \in [Sock -> (Conn \X BOOLEAN) \cup {NONE}]
        /\ timer' \in [Conn -> Sock \cup {NONE}]
        /\ posted' \subseteq Conn \X {"in", "out"} \X Sock
    BY <1>1, <1>2, SMTT(30) DEF TypeOK, Closing
  <2>5. batch' \in Seq(EventType) /\ (pc' \in {"write", "in"} => batch' # <<>>)
    BY <1>1, <1>2, SMTT(30) DEF TypeOK, EventType
  <2> QED BY <1>3, <2>1, <2>2, <2>3, <2>4, <2>5, ZenonT(30) DEF TypeOK
<1>7. FreeExact'
  BY <1>1, <1>3, <1>5, ZenonT(30) DEF FreeExact, Open
<1>8. ReusableOpen'
  BY <1>1, <1>3, <1>5 DEF ReusableOpen
<1>9. NothingLeftBehind'
  <2>1. ASSUME NEW e \in posted' PROVE fd'[e[1]] = e[3]
    <3>1. e \in posted /\ e[1] \in Conn /\ e[1] \notin K /\ e[3] \in Sock /\ fd[e[1]] = e[3]
      BY <1>1, <1>2, ZenonT(30) DEF Closing, TypeOK, NothingLeftBehind
    <3> QED BY <1>2, <1>3, <3>1, ZenonT(30)
  <2>2. ASSUME NEW d \in Conn, timer'[d] # NONE PROVE fd'[d] = timer'[d]
    <3>1. d \notin K /\ timer'[d] = timer[d] /\ fd[d] = timer[d]
      BY <1>1, <1>2, <2>2, ZenonT(30) DEF Closing, NothingLeftBehind
    <3> QED BY <1>2, <1>3, <2>2, <3>1, ZenonT(30)
  <2> QED BY <2>1, <2>2, ZenonT(30) DEF NothingLeftBehind
<1>10. \A d \in Conn : fd[d] # s
  BY <1>2, ZenonT(30) DEF Fresh
<1>11. OwnSocket'
  BY <1>1, <1>2, <1>10, ZenonT(30) DEF OwnSocket
<1>12. Registered'
  <2> SUFFICES ASSUME NEW t \in Sock, ptr'[t] # NONE
               PROVE  fd'[ptr'[t][1]] = t /\ instance'[ptr'[t][1]] = ptr'[t][2]
    BY DEF Registered
  <2>1. ptr'[t] = ptr[t] /\ \A d \in K : fd[d] # t
    BY <1>2, ZenonT(30) DEF Closing
  <2> DEFINE d == ptr[t][1]
  <2>2. d \in Conn /\ fd[d] = t /\ instance[d] = ptr[t][2]
    BY <1>1, <2>1, SMTT(30) DEF Registered, TypeOK
  <2>3. d \notin K /\ d # c
    BY <1>3, <2>1, <2>2, ZenonT(30)
  <2>4. fd'[d] = t /\ instance'[d] = instance[d]
    BY <1>1, <1>2, <2>2, <2>3, ZenonT(30) DEF TypeOK
  <2> QED BY <2>1, <2>2, <2>4, ZenonT(30)
<1>13. BatchKnown'
  <2> SUFFICES ASSUME NEW i \in DOMAIN batch
               PROVE  EventKnown(batch[i])'
    BY <1>2, ZenonT(30) DEF BatchKnown
  <2> DEFINE e == batch[i]
  <2>1. EventKnown(e) /\ e \in EventType /\ e.sock # s /\ e.conn \in Conn /\ e.sock \in Sock
    <3>1. EventKnown(e)
      BY <1>1 DEF BatchKnown
    <3>2. e \in EventType
      BY <1>1 DEF TypeOK
    <3>3. e.sock # s
      BY <1>2, ZenonT(30) DEF Fresh
    <3> QED BY <3>1, <3>2, <3>3, SMTT(30) DEF EventType
  <2>2. batch'[i] = e
    BY <1>2, SMTT(30)
  <2> HIDE DEF e
  <2>3. \A d \in Conn : fd'[d] = e.sock => d = e.conn
    BY <1>2, <2>1, ZenonT(30) DEF EventKnown
  <2>4. CASE e.conn = c
    <3>1. fd'[c] = s
      BY <1>2, <1>3, ZenonT(30)
    <3>2. reused'[c] = 1 => instance'[c] # e.inst
      <4>1. reused'[c] = 1 => instance[c] = e.inst
        BY <1>4, <2>1, <2>4, ZenonT(30) DEF EventKnown
      <4>2. instance'[c] = ~instance[c] /\ instance[c] \in BOOLEAN
        BY <1>1, <1>2, <1>3, ZenonT(30) DEF TypeOK, Other
      <4> QED BY <4>1, <4>2, ZenonT(30)
    <3> QED BY <1>4, <2>1, <2>2, <2>3, <2>4, <3>1, <3>2, SMTT(30) DEF EventKnown, e
  <2>5. CASE e.conn # c
    <3>1. /\ reused'[e.conn] = reused[e.conn] /\ instance'[e.conn] = instance[e.conn]
          /\ fd'[e.conn] = fd[e.conn] \/ fd'[e.conn] = NONE
      BY <1>1, <1>2, <1>4, <2>1, <2>5, ZenonT(30) DEF TypeOK
    <3> QED BY <2>1, <2>2, <2>3, <3>1, ZenonT(30) DEF EventKnown, e
  <2> QED BY <2>4, <2>5, ZenonT(30)
<1> QED BY <1>6, <1>7, <1>8, <1>9, <1>11, <1>12, <1>13, SMTT(30) DEF EventsInv

\* The handlers' other calls change neither the descriptors nor the lists of
\* free connections.
LEMMA HandlerKeeps ==
    ASSUME EventsInv, NEW c \in Conn,
           \/ AddEvent(c) \/ AddTimer(c) \/ PostEvent(c)
           \/ \E b \in BOOLEAN : Reusable(c, b)
    PROVE  EventsInv'
<1> USE EventsAssumption
<1>1. TypeOK /\ FreeExact /\ ReusableOpen /\ NothingLeftBehind
      /\ OwnSocket /\ Registered /\ BatchKnown
  BY SMTT(30) DEF EventsInv
<1>2. UNCHANGED <<free, fd, instance, batch, pc, reused>>
  BY ZenonT(30) DEF AddEvent, AddTimer, PostEvent, Reusable, conns
<1>3. FreeExact' /\ OwnSocket' /\ BatchKnown' /\ Open' = Open
  <2>1. Open' = Open
    BY <1>2 DEF Open
  <2>2. FreeExact'
    BY <1>1, <1>2, <2>1 DEF FreeExact
  <2>3. OwnSocket'
    BY <1>1, <1>2 DEF OwnSocket
  <2>4. BatchKnown'
    BY <1>1, <1>2, ZenonT(30) DEF BatchKnown, EventKnown
  <2> QED BY <2>1, <2>2, <2>3, <2>4
<1>4. fd[c] \in Sock /\ c \in Open
  BY <1>1, ZenonT(30) DEF AddEvent, AddTimer, PostEvent, Reusable, TypeOK, Open
<1>5. CASE AddEvent(c)
  <2>1. /\ ptr' = [ptr EXCEPT ![fd[c]] = <<c, instance[c]>>]
        /\ active' = [active EXCEPT ![c] = TRUE]
        /\ UNCHANGED <<posted, timer, reusable>>
    BY <1>5, ZenonT(30) DEF AddEvent
  <2>2. TypeOK'
    BY <1>1, <1>2, <1>4, <2>1, ZenonT(30) DEF TypeOK, EventType
  <2>3. Registered'
    BY <1>1, <1>2, <1>4, <2>1, ZenonT(30) DEF Registered, TypeOK
  <2>4. NothingLeftBehind' /\ ReusableOpen'
    BY <1>1, <1>2, <1>3, <2>1, ZenonT(30) DEF NothingLeftBehind, ReusableOpen
  <2> QED BY <1>3, <2>2, <2>3, <2>4, SMTT(30) DEF EventsInv
<1>6. CASE AddTimer(c)
  <2>1. /\ timer' = [timer EXCEPT ![c] = fd[c]]
        /\ UNCHANGED <<posted, active, ptr, reusable>>
    BY <1>6 DEF AddTimer
  <2>2. TypeOK'
    BY <1>1, <1>2, <1>4, <2>1, ZenonT(30) DEF TypeOK, EventType
  <2>3. NothingLeftBehind'
    BY <1>1, <1>2, <2>1, ZenonT(30) DEF NothingLeftBehind, TypeOK
  <2>4. Registered' /\ ReusableOpen'
    BY <1>1, <1>2, <1>3, <2>1, ZenonT(30) DEF Registered, ReusableOpen
  <2> QED BY <1>3, <2>2, <2>3, <2>4 DEF EventsInv
<1>7. CASE PostEvent(c)
  <2>1. /\ posted' = posted \cup {<<c, "in", fd[c]>>}
        /\ UNCHANGED <<timer, active, ptr, reusable>>
    BY <1>7, SMTT(30) DEF PostEvent, Post, conns
  <2>2. TypeOK'
    BY <1>1, <1>2, <1>4, <2>1, SMTT(30) DEF TypeOK, EventType
  <2>3. NothingLeftBehind'
    <3>1. ASSUME NEW e \in posted' PROVE fd'[e[1]] = e[3]
      <4>1. CASE e \in posted
        BY <1>1, <1>2, <4>1, ZenonT(30) DEF NothingLeftBehind
      <4>2. CASE e = <<c, "in", fd[c]>>
        <5>1. e[1] = c /\ e[3] = fd[c]
          BY <4>2
        <5> QED BY <1>2, <5>1
      <4> QED BY <2>1, <3>1, <4>1, <4>2, ZenonT(30)
    <3>2. \A d \in Conn : timer'[d] # NONE => fd'[d] = timer'[d]
      BY <1>1, <1>2, <2>1, ZenonT(30) DEF NothingLeftBehind
    <3> QED BY <3>1, <3>2, ZenonT(30) DEF NothingLeftBehind
  <2>4. Registered' /\ ReusableOpen'
    BY <1>1, <1>2, <1>3, <2>1, ZenonT(30) DEF Registered, ReusableOpen
  <2> QED BY <1>3, <2>2, <2>3, <2>4 DEF EventsInv
<1>8. ASSUME NEW b \in BOOLEAN, Reusable(c, b) PROVE EventsInv'
  <2> DEFINE q == Without(reusable, c)
  <2>1. /\ reusable' = (IF b THEN <<c>> ELSE <<>>) \o q
        /\ UNCHANGED <<posted, timer, active, ptr>>
    BY <1>8, SMTT(30) DEF Reusable
  <2>2. q \in Seq(Conn) /\ IsInjective(q) /\ Range(q) = Range(reusable) \ {c}
    BY <1>1, Removed, ZenonT(30) DEF TypeOK, ReusableOpen
  <2> HIDE DEF q
  <2>3. /\ reusable' \in Seq(Conn) /\ IsInjective(reusable')
        /\ Range(reusable') \subseteq Range(reusable) \cup {c}
    <3>1. CASE b
      <4>1. reusable' = <<c>> \o q
        BY <2>1, <3>1
      <4> QED BY <2>2, <4>1, Prepended
    <3>2. CASE ~b
      <4>1. reusable' = <<>> \o q
        BY <2>1, <3>2
      <4>2. reusable' = q
        BY <2>2, <4>1, SMTT(30)
      <4> QED BY <2>2, <4>2
    <3> QED BY <3>1, <3>2
  <2>4. TypeOK'
    BY <1>1, <1>2, <2>1, <2>3, ZenonT(30) DEF TypeOK, EventType
  <2>5. ReusableOpen'
    BY <1>1, <1>3, <1>4, <2>3, SMTT(30) DEF ReusableOpen
  <2>6. NothingLeftBehind' /\ Registered'
    BY <1>1, <1>2, <2>1, ZenonT(30) DEF NothingLeftBehind, Registered
  <2> QED BY <1>3, <2>4, <2>5, <2>6 DEF EventsInv
<1> QED BY <1>5, <1>6, <1>7, <1>8, SMTT(30)

\* epoll_wait returns: the new batch is about registered sockets.
LEMMA EpollWaitKeeps ==
    ASSUME EventsInv, EpollWait
    PROVE  EventsInv'
<1> USE EventsAssumption
<1>1. TypeOK /\ FreeExact /\ ReusableOpen /\ NothingLeftBehind
      /\ OwnSocket /\ Registered /\ BatchKnown
  BY SMTT(30) DEF EventsInv
<1>2. /\ UNCHANGED <<free, fd, instance, active, ptr, posted, timer, reusable>>
      /\ pc' = "next" /\ reused' = [c \in Conn |-> 0]
  BY ZenonT(30) DEF EpollWait
<1>3. PICK n \in 0 .. BATCH :
         \E order \in Injection(1 .. n, {s \in Sock : ptr[s] # NONE}),
            what \in [1 .. n -> {{"in"}, {"out"}, {"in", "out"}}] :
           /\ \A i \in 1 .. n : order[i] = LISTEN => what[i] = {"in"}
           /\ batch' = [i \in 1 .. n |->
                         [conn |-> ptr[order[i]][1], inst |-> ptr[order[i]][2],
                          sock |-> order[i], what |-> what[i]]]
  BY ZenonT(30) DEF EpollWait
<1>4. PICK order \in Injection(1 .. n, {s \in Sock : ptr[s] # NONE}),
           what \in [1 .. n -> {{"in"}, {"out"}, {"in", "out"}}] :
           batch' = [i \in 1 .. n |->
                       [conn |-> ptr[order[i]][1], inst |-> ptr[order[i]][2],
                        sock |-> order[i], what |-> what[i]]]
  BY <1>3, ZenonT(30)
<1>5. ASSUME NEW i \in 1 .. n
      PROVE  batch'[i] \in EventType /\ EventKnown(batch[i])'
  <2> DEFINE s == order[i]
  <2>1. /\ s \in Sock /\ ptr[s] # NONE
        /\ batch'[i] = [conn |-> ptr[s][1], inst |-> ptr[s][2],
                        sock |-> s, what |-> what[i]]
    BY <1>4 DEF Injection
  <2> HIDE DEF s
  <2>2. /\ ptr[s][1] \in Conn /\ ptr[s][2] \in BOOLEAN /\ what[i] \in SUBSET {"in", "out"}
        /\ fd[ptr[s][1]] = s /\ instance[ptr[s][1]] = ptr[s][2]
    <3>1. what[i] \in SUBSET {"in", "out"}
      <4>1. what[i] \in {{"in"}, {"out"}, {"in", "out"}}
        OBVIOUS
      <4> QED BY <4>1
    <3>2. ptr[s] \in Conn \X BOOLEAN
      BY <1>1, <2>1, ZenonT(30) DEF TypeOK
    <3>3. fd[ptr[s][1]] = s /\ instance[ptr[s][1]] = ptr[s][2]
      BY <1>1, <2>1, ZenonT(30) DEF Registered
    <3> QED BY <3>1, <3>2, <3>3, ZenonT(30)
  <2>3. batch'[i] \in EventType
    BY <2>1, <2>2 DEF EventType
  <2>4. \A c \in Conn : fd[c] = s => c = ptr[s][1]
    <3> SUFFICES ASSUME NEW c \in Conn, fd[c] = s PROVE c = ptr[s][1]
      OBVIOUS
    <3>1. s # NONE
      BY <2>1, EventsAssumption
    <3>2. fd[c] = fd[ptr[s][1]] /\ fd[c] # NONE
      BY <2>2, <3>1
    <3>3. c \in Conn /\ ptr[s][1] \in Conn
      BY <2>2
    <3> QED BY <1>1, <3>2, <3>3, ZenonT(30) DEF OwnSocket
  <2>5. EventKnown(batch[i])'
    BY <1>2, <2>1, <2>2, <2>4 DEF EventKnown
  <2> QED BY <2>3, <2>5
<1>6. batch' \in Seq(EventType) /\ DOMAIN batch' = 1 .. n
  <2>1. DOMAIN batch' = 1 .. n
    BY <1>4, ZenonT(30)
  <2>2. batch' \in [1 .. n -> EventType]
    BY <1>4, <1>5, <2>1, ZenonT(30)
  <2> QED BY <2>1, <2>2
<1>7. BatchKnown'
  BY <1>5, <1>6, ZenonT(30) DEF BatchKnown
<1>8. TypeOK'
  <2>1. reused' \in [Conn -> 0 .. 2]
    BY <1>2
  <2> QED BY <1>1, <1>2, <1>6, <2>1, ZenonT(30) DEF TypeOK
<1>9. FreeExact' /\ ReusableOpen' /\ NothingLeftBehind' /\ OwnSocket' /\ Registered'
  <2>1. FreeExact' /\ ReusableOpen'
    BY <1>1, <1>2, ZenonT(30) DEF FreeExact, ReusableOpen, Open
  <2>2. NothingLeftBehind'
    BY <1>1, <1>2, ZenonT(30) DEF NothingLeftBehind
  <2>3. OwnSocket' /\ Registered'
    BY <1>1, <1>2, ZenonT(30) DEF OwnSocket, Registered
  <2> QED BY <2>1, <2>2, <2>3
<1> QED BY <1>7, <1>8, <1>9, ZenonT(30) DEF EventsInv

\* The rest of a batch is as known as the batch.
LEMMA RestKnown ==
    ASSUME TypeOK, BatchKnown, batch # <<>>
    PROVE  /\ Head(batch) \in EventType
           /\ Tail(batch) \in Seq(EventType)
           /\ \A i \in DOMAIN Tail(batch) : EventKnown(Tail(batch)[i])
<1>1. batch \in Seq(EventType)
  BY DEF TypeOK
<1>2. /\ Head(batch) \in EventType
      /\ Tail(batch) \in Seq(EventType)
      /\ Len(Tail(batch)) = Len(batch) - 1
      /\ \A i \in 1 .. Len(Tail(batch)) : Tail(batch)[i] = batch[i + 1]
  BY <1>1
<1>3. ASSUME NEW i \in DOMAIN Tail(batch) PROVE EventKnown(Tail(batch)[i])
  <2>1. i \in 1 .. Len(Tail(batch)) /\ i + 1 \in DOMAIN batch
    BY <1>1, <1>2
  <2>2. EventKnown(batch[i + 1])
    BY <2>1 DEF BatchKnown
  <2> QED BY <1>2, <2>1, <2>2
<1> QED BY <1>2, <1>3

\* The loop over the batch, the timers and the posted events: an event is
\* posted only for a connection that is open.
LEMMA LoopKeeps ==
    ASSUME EventsInv,
           \/ Skip \/ Read \/ Write \/ BatchEnds \/ TimersEnd \/ Posted \/ Return
           \/ \E c \in Conn : Expire(c)
    PROVE  EventsInv'
<1> USE EventsAssumption
<1>1. TypeOK /\ FreeExact /\ ReusableOpen /\ NothingLeftBehind
      /\ OwnSocket /\ Registered /\ BatchKnown
  BY SMTT(30) DEF EventsInv
<1>2. UNCHANGED <<free, fd, instance, active, ptr, reusable, reused>>
  BY ZenonT(30) DEF Skip, Read, Write, BatchEnds, TimersEnd, Posted, Return, Expire, conns
<1>3. FreeExact' /\ ReusableOpen' /\ OwnSocket' /\ Registered'
  BY <1>1, <1>2, ZenonT(30) DEF FreeExact, ReusableOpen, OwnSocket, Registered, Open
<1>4. \A e : EventKnown(e) => EventKnown(e)'
  BY <1>2, ZenonT(30) DEF EventKnown
<1>5. batch' = batch \/ (batch # <<>> /\ batch' = Tail(batch))
  BY <1>1, ZenonT(30) DEF Skip, Read, Write, BatchEnds, TimersEnd, Posted, Return, Expire, TypeOK
<1>6. batch' \in Seq(EventType)' /\ BatchKnown'
  <2>1. CASE batch' = batch
    BY <1>1, <1>4, <2>1, SMTT(30) DEF BatchKnown, TypeOK, EventType
  <2>2. CASE batch # <<>> /\ batch' = Tail(batch)
    BY <1>1, <1>4, <2>2, RestKnown, SMTT(30) DEF BatchKnown, EventType
  <2> QED BY <1>5, <2>1, <2>2, SMTT(30)
<1>7. pc' \in {"write", "in"} => batch' # <<>>
  BY <1>1, ZenonT(30) DEF Skip, Read, Write, BatchEnds, TimersEnd, Posted, Return, Expire, TypeOK
<1>8. \/ posted' \subseteq posted
      \/ \E c \in Conn, k \in {"in", "out"} :
            fd[c] \in Sock /\ posted' = posted \cup {<<c, k, fd[c]>>}
  <2>1. CASE Read
    <3>1. batch # <<>> /\ ~Stale(Head(batch))
      BY <2>1 DEF Read
    <3>2. Head(batch).conn \in Conn /\ fd[Head(batch).conn] \in Sock
      BY <1>1, <3>1, RestKnown, ZenonT(30) DEF EventType, Stale, TypeOK
    <3>3. posted' = posted \/ Post(Head(batch).conn, "in")
      BY <2>1, ZenonT(30) DEF Read
    <3> QED BY <3>2, <3>3, SMTT(30) DEF Post
  <2>2. CASE Write
    <3>1. batch # <<>>
      BY <1>1, <2>2, ZenonT(30) DEF Write, TypeOK
    <3>2. posted' = posted \/ (~Stale(Head(batch)) /\ Post(Head(batch).conn, "out"))
      BY <2>2 DEF Write
    <3>3. ~Stale(Head(batch)) =>
             Head(batch).conn \in Conn /\ fd[Head(batch).conn] \in Sock
      BY <1>1, <3>1, RestKnown, ZenonT(30) DEF EventType, Stale, TypeOK
    <3> QED BY <3>2, <3>3, SMTT(30) DEF Post
  <2>3. CASE ~Read /\ ~Write
    BY <2>3, ZenonT(30) DEF Skip, BatchEnds, TimersEnd, Posted, Return, Expire
  <2> QED BY <2>1, <2>2, <2>3, SMTT(30)
<1>9. \A c \in Conn : timer'[c] = timer[c] \/ timer'[c] = NONE
  <2>1. CASE \E c \in Conn : Expire(c)
    <3>1. PICK c \in Conn : timer' = [timer EXCEPT ![c] = NONE]
      BY <2>1, ZenonT(30) DEF Expire
    <3> QED BY <1>1, <3>1, ZenonT(30) DEF TypeOK
  <2>2. CASE timer' = timer
    BY <2>2
  <2>3. timer' = timer \/ \E c \in Conn : Expire(c)
    BY ZenonT(30) DEF Skip, Read, Write, BatchEnds, TimersEnd, Posted, Return, conns
  <2> QED BY <2>1, <2>2, <2>3
<1>10. timer' \in [Conn -> Sock \cup {NONE}]
  BY <1>1, ZenonT(30) DEF Skip, Read, Write, BatchEnds, TimersEnd, Posted, Return, Expire, conns, TypeOK
<1>11. posted' \subseteq Conn \X {"in", "out"} \X Sock
  BY <1>1, <1>8 DEF TypeOK
<1>12. TypeOK'
  BY <1>1, <1>2, <1>6, <1>7, <1>10, <1>11, ZenonT(30) DEF TypeOK
<1>13. NothingLeftBehind'
  <2>1. ASSUME NEW e \in posted' PROVE fd[e[1]] = e[3]
    <3>1. CASE e \in posted
      BY <1>1, <3>1 DEF NothingLeftBehind
    <3>2. CASE e \notin posted
      <4>1. PICK c \in Conn, k \in {"in", "out"} : e = <<c, k, fd[c]>>
        BY <1>8, <2>1, <3>2
      <4> QED BY <4>1, ZenonT(30)
    <3> QED BY <3>1, <3>2, ZenonT(30)
  <2>2. ASSUME NEW c \in Conn, timer'[c] # NONE PROVE fd[c] = timer'[c]
    BY <1>1, <1>9, <2>2 DEF NothingLeftBehind
  <2>3. fd' = fd
    BY <1>2
  <2> QED BY <2>1, <2>2, <2>3, SMTT(30) DEF NothingLeftBehind
<1> QED BY <1>3, <1>6, <1>12, <1>13, SMTT(30) DEF EventsInv

\* Connections, events, timers and lists stay consistent through whatever the
\* handlers do and in whatever order, for any number of connections and
\* sockets and any batch.
THEOREM EventsInvariant == Spec => []EventsInv
<1>1. Init => EventsInv
  BY EventsInit
<1>2. EventsInv /\ [Next]_vars => EventsInv'
  <2> SUFFICES ASSUME EventsInv, [Next]_vars PROVE EventsInv'
    OBVIOUS
  <2>1. CASE Handler
    BY <2>1, CloseKeeps, GetKeeps, HandlerKeeps DEF Handler
  <2>2. CASE Loop
    BY <2>2, EpollWaitKeeps, LoopKeeps, SMTT(30) DEF Loop
  <2>3. CASE UNCHANGED vars
    <3>1. TypeOK'
      BY <2>3, ZenonT(30) DEF vars, EventsInv, TypeOK, EventType
    <3>2. FreeExact' /\ ReusableOpen'
      BY <2>3, ZenonT(30) DEF vars, EventsInv, FreeExact, ReusableOpen, Open
    <3>3. NothingLeftBehind' /\ OwnSocket' /\ Registered'
      BY <2>3, ZenonT(30) DEF vars, EventsInv, NothingLeftBehind, OwnSocket, Registered
    <3>4. BatchKnown'
      BY <2>3, ZenonT(30) DEF vars, EventsInv, BatchKnown, EventKnown
    <3> QED BY <3>1, <3>2, <3>3, <3>4, ZenonT(30) DEF EventsInv
  <2> QED BY <2>1, <2>2, <2>3 DEF Next
<1> QED BY <1>1, <1>2, PTL DEF Spec

\* No slot leaks or is freed twice: ngx_free_connection and
\* ngx_get_connection, also when that drains reusable connections.
THEOREM EventsFreeExact == Spec => []FreeExact
<1>1. EventsInv => FreeExact
  BY DEF EventsInv
<1> QED BY <1>1, EventsInvariant, PTL

\* The queue of ngx_reusable_connection holds open connections only, each
\* once: what ngx_drain_connections closes gives slots.
THEOREM EventsReusableOpen == Spec => []ReusableOpen
<1>1. EventsInv => ReusableOpen
  BY DEF EventsInv
<1> QED BY <1>1, EventsInvariant, PTL

\* ngx_close_connection leaves no posted event and no timer to the next user
\* of the slot.
THEOREM EventsNothingLeftBehind == Spec => []NothingLeftBehind
<1>1. EventsInv => NothingLeftBehind
  BY SMTT(30) DEF EventsInv
<1> QED BY <1>1, EventsInvariant, PTL

\* The test of ngx_epoll_process_events for stale events lets through no event
\* of an earlier socket, unless the slot was used again more than once.
THEOREM EventsNoMisdelivery == Spec => []NoMisdelivery
<1>1. EventsInv => NoMisdelivery
  <2> SUFFICES ASSUME EventsInv, NEW i \in DOMAIN batch,
                      ~Stale(batch[i]), reused[batch[i].conn] <= 1
               PROVE  fd[batch[i].conn] = batch[i].sock
    BY DEF NoMisdelivery
  <2> DEFINE e == batch[i]
  <2>1. EventKnown(e) /\ e.conn \in Conn /\ reused[e.conn] \in 0 .. 2
    <3>1. e \in EventType
      BY DEF EventsInv, TypeOK
    <3> QED BY <3>1 DEF EventsInv, BatchKnown, TypeOK, EventType
  <2> HIDE DEF e
  <2>2. reused[e.conn] \in {0, 1}
    BY <2>1 DEF e
  <2>3. fd[e.conn] # NONE /\ instance[e.conn] = e.inst
    BY DEF Stale, e
  <2>4. fd[e.conn] = e.sock
    BY <2>1, <2>2, <2>3, SMTT(30) DEF EventKnown
  <2> QED BY <2>4 DEF e
<1> QED BY <1>1, EventsInvariant, PTL

\* The same test drops no event of a socket that is still open.
THEOREM EventsNoLostEvent == Spec => []NoLostEvent
<1>1. EventsInv => NoLostEvent
  <2> SUFFICES ASSUME EventsInv, NEW i \in DOMAIN batch, NEW c \in Conn,
                      fd[c] = batch[i].sock
               PROVE  fd[batch[i].conn] = batch[i].sock /\ ~Stale(batch[i])
    BY DEF NoLostEvent
  <2> DEFINE e == batch[i]
  <2>1. EventKnown(e) /\ e.sock \in Sock
    <3>1. e \in EventType
      BY DEF EventsInv, TypeOK
    <3> QED BY <3>1 DEF EventsInv, BatchKnown, EventType
  <2> HIDE DEF e
  <2>2. c = e.conn /\ fd[e.conn] = e.sock
    BY <2>1 DEF EventKnown, e
  <2>3. reused[e.conn] = 0 /\ instance[e.conn] = e.inst
    BY <2>1, <2>2, SMTT(30) DEF EventKnown
  <2>4. ~Stale(e)
    BY <2>1, <2>2, <2>3, EventsAssumption, ZenonT(30) DEF Stale
  <2> QED BY <2>2, <2>4 DEF e
<1> QED BY <1>1, EventsInvariant, PTL
=============================================================================
