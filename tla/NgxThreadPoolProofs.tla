------------------------ MODULE NgxThreadPoolProofs -------------------------
(***************************************************************************)
(* The thread pool for any number of threads and tasks and any limit of    *)
(* the queue.                                                              *)
(***************************************************************************)
EXTENDS NgxThreadPool, FiniteSetTheorems, WellFoundedInduction, TLAPS
-----------------------------------------------------------------------------
(* Linked lists *)

\* There are finitely many tasks, and NULL is none of them.
LEMMA TasksFinite ==
    /\ IsFiniteSet(AnyTask) /\ Cardinality(AnyTask) \in Nat
    /\ NULL \notin AnyTask
<1>1. AnyTask = Task \cup {Exit}
  BY DEF AnyTask
<1> QED BY <1>1, PoolAssumption, FS_AddElement, FS_CardinalityType

\* A list without repetitions is no longer than there are tasks.
LEMMA ShortEnough ==
    ASSUME NEW s \in Seq(AnyTask), IsInjective(s)
    PROVE  Len(s) <= Cardinality(AnyTask)
<1>1. s \in Injection(1 .. Len(s), AnyTask)
  BY DEF Injection, IsInjective
<1>2. Len(s) \in Nat /\ 1 \in Int /\ Len(s) \in Int
  OBVIOUS
<1>3. Cardinality(1 .. Len(s)) = IF 1 > Len(s) THEN 0 ELSE Len(s) - 1 + 1
  BY <1>2, FS_Interval, ZenonT(30)
<1>4. Cardinality(1 .. Len(s)) = Len(s) /\ IsFiniteSet(1 .. Len(s))
  <2>1. IsFiniteSet(1 .. Len(s))
    BY <1>2, FS_Interval, ZenonT(30)
  <2>2. Cardinality(1 .. Len(s)) = Len(s)
    BY <1>2, <1>3
  <2> QED BY <2>1, <2>2
<1> QED BY <1>1, <1>4, TasksFinite, FS_Injection

\* Induction over the numbers up to a bound.
LEMMA UpTo ==
    ASSUME NEW n \in Nat, NEW G, 0 \in G,
           \A i \in 1 .. n : i - 1 \in G => i \in G
    PROVE  n \in G
<1> SUFFICES ASSUME n \notin G PROVE FALSE
  OBVIOUS
<1> DEFINE C == {i \in Nat : i <= n /\ i \notin G}
           R == {ss \in Nat \X Nat : ss[1] < ss[2]}
<1>1. IsWellFoundedOn(R, Nat)
  BY NatLessThanWellFounded DEF OpToRel
<1>2. C \subseteq Nat /\ C # {}
  OBVIOUS
<1> HIDE DEF C, R
<1>3. PICK i \in C : \A j \in C : ~(<<j, i>> \in R)
  BY <1>1, <1>2, WFMin, ZenonT(30)
<1>4. i \in Nat /\ i <= n /\ i \notin G
  BY DEF C
<1>5. i \in 1 .. n /\ i - 1 \in Nat /\ i - 1 <= n /\ i - 1 < i
  BY <1>4
<1>6. i - 1 \notin C
  BY <1>3, <1>4, <1>5, ZenonT(30) DEF R
<1> QED BY <1>4, <1>5, <1>6 DEF C

\* The first n tasks of s, or all of them.
Upto(s, n) == SubSeq(s, 1, IF n <= Len(s) THEN n ELSE Len(s))

\* The task, or NULL, that the walk meets after x, and x with it.
Follower(links, first, x) == IF x = <<>> THEN first ELSE links[x[Len(x)]]
Walked(x, t) == IF t = NULL THEN x ELSE Append(x, t)

\* One step of the walk along a list.
LEMMA WalkStep ==
    ASSUME NEW links, NEW first, NEW s \in Seq(AnyTask),
           Chained(links, first, s), NEW n \in Nat \ {0},
           NEW x, x = Upto(s, n - 1),
           NEW t, t = Follower(links, first, x)
    PROVE  Upto(s, n) = Walked(x, t)
<1> USE DEF Follower, Walked
<1>1. Len(s) \in Nat
  OBVIOUS
<1>2. CASE n <= Len(s)
  <2>1. x = SubSeq(s, 1, n - 1) /\ Len(x) = n - 1 /\ Upto(s, n) = SubSeq(s, 1, n)
    BY <1>1, <1>2 DEF Upto
  <2>2. s[n] \in AnyTask /\ s[n] # NULL
    BY <1>2, TasksFinite
  <2>3. t = s[n]
    <3>1. CASE n = 1
      BY <2>1, <3>1, <1>2 DEF Chained
    <3>2. CASE n > 1
      <4>1. x # <<>> /\ x[Len(x)] = s[n - 1]
        BY <1>1, <1>2, <2>1, <3>2
      <4>2. links[s[n - 1]] = s[n]
        BY <1>1, <1>2, <3>2 DEF Chained
      <4> QED BY <4>1, <4>2
    <3> QED BY <3>1, <3>2
  <2>4. SubSeq(s, 1, n) = Append(SubSeq(s, 1, n - 1), s[n])
    BY <1>1, <1>2, <2>2
  <2> QED BY <1>2, <2>1, <2>2, <2>3, <2>4
<1>3. CASE n > Len(s)
  <2>1. x = s
    BY <1>1, <1>3 DEF Upto
  <2>2. Upto(s, n) = s
    BY <1>1, <1>3 DEF Upto
  <2>3. t = NULL
    <3>1. CASE s = <<>>
      BY <2>1, <3>1 DEF Chained
    <3>2. CASE s # <<>>
      <4>1. Len(s) \in 1 .. Len(s)
        BY <1>1, <3>2
      <4>2. links[s[Len(s)]] = NULL
        BY <4>1 DEF Chained
      <4> QED BY <2>1, <3>2, <4>1, <4>2
    <3> QED BY <3>1, <3>2
  <2> QED BY <2>1, <2>2, <2>3
<1> QED BY <1>1, <1>2, <1>3

\* The walk finds the list that the links make.
LEMMA ListOfIs ==
    ASSUME NEW links, NEW first, NEW s \in Seq(AnyTask), IsInjective(s),
           Chained(links, first, s)
    PROVE  ListOf(links, first) = s
<1> DEFINE K == Cardinality(AnyTask)
           u(x) == IF x = <<>> THEN first ELSE links[x[Len(x)]]
           v(x) == IF u(x) = NULL THEN x ELSE Append(x, u(x))
           Eq(g) == g = [n \in 0 .. K |-> IF n = 0 THEN <<>> ELSE v(g[n - 1])]
           i == CHOOSE g : Eq(g)
           f == [n \in 0 .. K |-> Upto(s, n)]
<1>1. K \in Nat /\ Len(s) \in Nat /\ Len(s) <= K
  BY TasksFinite, ShortEnough
<1>2. ListOf(links, first) = i[K]
  BY DEF ListOf
<1> HIDE DEF K
<1>3. \A n \in 1 .. K : f[n] = v(f[n - 1])
  <2> SUFFICES ASSUME NEW n \in 1 .. K PROVE f[n] = v(f[n - 1])
    BY ZenonT(30)
  <2> DEFINE x == Upto(s, n - 1)
  <2>1. n \in Nat \ {0} /\ n - 1 \in 0 .. K /\ n \in 0 .. K
    BY <1>1
  <2>2. f[n - 1] = x /\ f[n] = Upto(s, n)
    BY <2>1
  <2> HIDE DEF f
  <2>3. Upto(s, n) = v(x)
    <3>1. x = Upto(s, n - 1) /\ u(x) = IF x = <<>> THEN first ELSE links[x[Len(x)]]
      OBVIOUS
    <3> HIDE DEF u, x
    <3>2. Upto(s, n) = IF u(x) = NULL THEN x ELSE Append(x, u(x))
      <4>1. PICK y : y = u(x)
        BY ZenonT(30)
      <4>2. n \in Nat \ {0} /\ y = Follower(links, first, x)
        BY <2>1, <3>1, <4>1 DEF Follower
      <4>3. s \in Seq(AnyTask) /\ Chained(links, first, s) /\ x = Upto(s, n - 1)
        BY <3>1
      <4>4. Upto(s, n) = Walked(x, y)
        BY ONLY <4>2, <4>3, WalkStep
      <4> QED BY <4>1, <4>4 DEF Walked
    <3> QED BY <3>2
  <2> QED BY <2>2, <2>3
<1>4. f[0] = <<>>
  BY <1>1 DEF Upto
<1>5. Eq(f)
  <2> HIDE DEF v
  <2>1. \A n \in 0 .. K : f[n] = IF n = 0 THEN <<>> ELSE v(f[n - 1])
    <3> HIDE DEF f
    <3> SUFFICES ASSUME NEW n \in 0 .. K
                 PROVE  f[n] = IF n = 0 THEN <<>> ELSE v(f[n - 1])
      OBVIOUS
    <3>1. CASE n = 0
      BY <1>4, <3>1
    <3>2. CASE n # 0
      BY <1>1, <1>3, <3>2
    <3> QED BY <3>1, <3>2
  <2>2. f = [n \in 0 .. K |-> f[n]]
    OBVIOUS
  <2> HIDE DEF f
  <2> QED BY <2>1, <2>2, ZenonT(30)
<1>6. Eq(i)
  BY <1>5, ZenonT(30)
<1> HIDE DEF i, f, v
<1> DEFINE G == {n \in Nat : n <= K => i[n] = f[n]}
<1>7. K \in G
  <2>1. 0 \in G
    BY <1>1, <1>4, <1>6
  <2>2. ASSUME NEW n \in 1 .. K, n - 1 \in G PROVE n \in G
    <3>1. i[n - 1] = f[n - 1]
      BY <1>1, <2>2
    <3>2. i[n] = v(i[n - 1])
      BY <1>1, <1>6
    <3> QED BY <1>1, <1>3, <3>1, <3>2
  <2> HIDE DEF G
  <2> QED BY <1>1, <2>1, <2>2, UpTo
<1>8. f[K] = s
  BY <1>1 DEF f, Upto
<1> QED BY <1>1, <1>2, <1>7, <1>8

\* A list without its first element.
LEMMA TailChain ==
    ASSUME NEW links, NEW first, NEW s \in Seq(AnyTask), IsInjective(s),
           Chained(links, first, s), first # NULL
    PROVE  /\ s # <<>> /\ first = Head(s) /\ first \in AnyTask
           /\ Tail(s) \in Seq(AnyTask) /\ IsInjective(Tail(s))
           /\ Chained(links, links[first], Tail(s))
           /\ Range(Tail(s)) = Range(s) \ {first} /\ first \in Range(s)
           /\ Len(Tail(s)) = Len(s) - 1
           /\ LastOf(Tail(s)) = IF links[first] = NULL THEN NULL ELSE LastOf(s)
<1>1. s # <<>> /\ first = s[1] /\ Len(s) \in Nat \ {0} /\ Head(s) = s[1]
  BY DEF Chained
<1>2. s[1] \in AnyTask
  BY <1>1
<1> DEFINE a == Tail(s)
           m == Len(s) - 1
<1>3. /\ a \in Seq(AnyTask) /\ Len(a) = m /\ m \in Nat
      /\ \A i \in 1 .. m : a[i] = s[i + 1] /\ i + 1 \in 1 .. Len(s) /\ a[i] \in AnyTask
  <2>1. a \in Seq(AnyTask) /\ Len(a) = m /\ \A i \in 1 .. m : a[i] = s[i + 1]
    BY <1>1
  <2> QED BY <1>1, <2>1
<1>4. DOMAIN s = 1 .. m + 1 /\ DOMAIN a = 1 .. m /\ Len(s) = m + 1
  BY <1>1, <1>3
<1> HIDE DEF a, m
<1>5. IsInjective(a)
  <2>1. \A i, j \in 1 .. m + 1 : s[i] = s[j] => i = j
    BY <1>4 DEF IsInjective
  <2>2. ASSUME NEW i \in 1 .. m, NEW j \in 1 .. m, a[i] = a[j]
        PROVE  i = j
    <3>1. s[i + 1] = s[j + 1] /\ i + 1 \in 1 .. m + 1 /\ j + 1 \in 1 .. m + 1
      BY <1>3, <1>4, <2>2
    <3>2. i + 1 = j + 1
      BY <2>1, <3>1
    <3> QED BY <3>2
  <2> QED BY <1>4, <2>2 DEF IsInjective
<1>6. Range(a) = Range(s) \ {first} /\ first \in Range(s)
  <2>1. first \in Range(s)
    BY <1>1, <1>3, <1>4 DEF Range
  <2>2. ASSUME NEW x \in Range(a) PROVE x \in Range(s) /\ x # first
    <3>1. PICK i \in 1 .. m : x = a[i]
      BY <1>4 DEF Range
    <3>2. x = s[i + 1] /\ i + 1 \in DOMAIN s /\ 1 \in DOMAIN s /\ i + 1 # 1
      BY <1>3, <1>4, <3>1
    <3> QED BY <1>1, <3>2 DEF Range, IsInjective
  <2>3. ASSUME NEW x \in Range(s), x # first PROVE x \in Range(a)
    <3>1. PICK i \in 1 .. m + 1 : x = s[i]
      BY <1>4 DEF Range
    <3>2. i # 1
      BY <1>1, <2>3, <3>1
    <3>3. i - 1 \in 1 .. m /\ (i - 1) + 1 = i
      BY <1>3, <3>2
    <3>4. a[i - 1] = x
      BY <1>3, <3>1, <3>3
    <3> QED BY <1>4, <3>3, <3>4 DEF Range
  <2> QED BY <2>1, <2>2, <2>3
<1>7. links[first] = IF m = 0 THEN NULL ELSE s[2]
  BY <1>1, <1>3, <1>4 DEF Chained
<1>8. /\ m = 0 => a = <<>>
      /\ m # 0 => a # <<>> /\ a[1] = s[2] /\ s[2] # NULL /\ a[m] = s[m + 1]
  BY <1>3, TasksFinite
<1>9. Chained(links, links[first], a)
  <2>1. ASSUME NEW i \in 1 .. m
        PROVE  links[a[i]] = IF i = m THEN NULL ELSE a[i + 1]
    <3>1. links[s[i + 1]] = IF i + 1 = m + 1 THEN NULL ELSE s[i + 2]
      BY <1>3, <1>4 DEF Chained
    <3>2. i # m => i + 1 \in 1 .. m /\ a[i + 1] = s[i + 2]
      BY <1>3
    <3> QED BY <1>3, <3>1, <3>2
  <2> QED BY <1>3, <1>7, <1>8, <2>1 DEF Chained
<1>10. LastOf(a) = IF links[first] = NULL THEN NULL ELSE LastOf(s)
  BY <1>1, <1>3, <1>4, <1>7, <1>8 DEF LastOf
<1> QED BY <1>1, <1>2, <1>3, <1>4, <1>5, <1>6, <1>9, <1>10 DEF a, m

\* A list whose links are left alone.
LEMMA SameChain ==
    ASSUME NEW links, NEW first, NEW s \in Seq(AnyTask),
           Chained(links, first, s),
           NEW m, \A x \in Range(s) : m[x] = links[x]
    PROVE  Chained(m, first, s)
<1>1. \A i \in 1 .. Len(s) : m[s[i]] = links[s[i]]
  BY DEF Range
<1> QED BY <1>1 DEF Chained

\* *list.last = t; list.last = &t->next, with t->next = NULL: t is the last of
\* the list then.
LEMMA AddedChain ==
    ASSUME next \in [AnyTask -> AnyTask \cup {NULL}],
           NEW list, NEW s \in Seq(AnyTask), IsInjective(s),
           Chained(next, list.first, s), list.last = LastOf(s),
           NEW t \in AnyTask, t \notin Range(s)
    PROVE  /\ Append(s, t) \in Seq(AnyTask) /\ IsInjective(Append(s, t))
           /\ Chained(Linked(list, t), Added(list, t).first, Append(s, t))
           /\ Added(list, t).last = LastOf(Append(s, t))
           /\ LastOf(Append(s, t)) = t
           /\ Range(Append(s, t)) = Range(s) \cup {t}
           /\ Len(Append(s, t)) = Len(s) + 1
<1> DEFINE n == Len(s)
           a == Append(s, t)
           m == Linked(list, t)
<1>1. /\ a \in Seq(AnyTask) /\ n \in Nat /\ Len(a) = n + 1 /\ a # <<>>
      /\ \A i \in 1 .. n : a[i] = s[i]
      /\ a[n + 1] = t
      /\ DOMAIN s = 1 .. n /\ DOMAIN a = 1 .. n + 1
  <2>1. a \in Seq(AnyTask) /\ n \in Nat /\ Len(a) = n + 1
    OBVIOUS
  <2>2. \A i \in 1 .. n : a[i] = s[i]
    OBVIOUS
  <2>3. a[n + 1] = t
    OBVIOUS
  <2>4. DOMAIN s = 1 .. n /\ DOMAIN a = 1 .. n + 1
    BY <2>1
  <2>5. a # <<>>
    BY <2>1
  <2> QED BY <2>1, <2>2, <2>3, <2>4, <2>5
<1>2. /\ t # NULL /\ \A i \in 1 .. n : s[i] \in AnyTask /\ s[i] # t /\ s[i] # NULL
      /\ \A i \in 1 .. n : s[i] \in Range(s)
  <2>1. \A i \in 1 .. n : s[i] \in Range(s) /\ s[i] \in AnyTask
    BY <1>1 DEF Range
  <2> QED BY <2>1, TasksFinite
<1>3. \A x \in Range(s) : \E i \in 1 .. n : x = s[i]
  BY <1>1 DEF Range
<1>4. \A i, j \in 1 .. n : s[i] = s[j] => i = j
  BY <1>1 DEF IsInjective
<1>5. /\ n = 0 => s = <<>> /\ list.last = NULL
      /\ n # 0 => s # <<>> /\ list.last = s[n] /\ list.first = s[1]
  <2>1. n = 0 => s = <<>>
    BY <1>1
  <2>2. n # 0 => s # <<>>
    BY <1>1
  <2> QED BY <2>1, <2>2 DEF LastOf, Chained
<1>6. \A i \in 1 .. n + 1 : i \in 1 .. n \/ i = n + 1
  BY <1>1
<1>7. \A i \in 1 .. n : next[s[i]] = IF i = n THEN NULL ELSE s[i + 1]
  BY DEF Chained
<1>8. /\ m[t] = NULL
      /\ \A i \in 1 .. n : m[s[i]] = IF s[i] = list.last THEN t ELSE next[s[i]]
  <2>1. list.last # t
    BY <1>1, <1>2, <1>5
  <2>2. \A x \in AnyTask : x # t =>
           m[x] = IF x = list.last THEN t ELSE next[x]
    BY DEF Linked
  <2>3. m[t] = NULL
    BY <2>1 DEF Linked
  <2> HIDE DEF m, n
  <2> QED BY <1>2, <2>2, <2>3
<1>9. LastOf(a) = t /\ Added(list, t).last = t
      /\ Added(list, t).first = IF list.last = NULL THEN t ELSE list.first
  BY <1>1 DEF LastOf, Added
<1> HIDE DEF a, m, n
<1>10. IsInjective(a)
  <2> SUFFICES ASSUME NEW i \in 1 .. n + 1, NEW j \in 1 .. n + 1, a[i] = a[j]
               PROVE  i = j
    BY <1>1 DEF IsInjective
  <2> QED BY <1>1, <1>2, <1>4, <1>6
<1>11. Range(a) = Range(s) \cup {t}
  <2>1. ASSUME NEW x \in Range(a) PROVE x \in Range(s) \cup {t}
    <3>1. PICK i \in 1 .. n + 1 : x = a[i]
      BY <1>1 DEF Range
    <3> QED BY <1>1, <1>2, <1>6, <3>1
  <2>2. ASSUME NEW x \in Range(s) \cup {t} PROVE x \in Range(a)
    <3>1. \E i \in 1 .. n + 1 : x = a[i]
      BY <1>1, <1>3
    <3> QED BY <1>1, <3>1 DEF Range
  <2> QED BY <2>1, <2>2
<1>12. a[1] = IF list.last = NULL THEN t ELSE list.first
  BY <1>1, <1>2, <1>5
<1>13. ASSUME NEW i \in 1 .. n + 1
       PROVE  m[a[i]] = IF i = n + 1 THEN NULL ELSE a[i + 1]
  <2>1. CASE i = n + 1
    BY <1>1, <1>8, <2>1
  <2>2. CASE i = n /\ n # 0
    <3>1. i \in 1 .. n /\ i # n + 1 /\ a[i + 1] = t
      BY <1>1, <2>2
    <3> QED BY <1>1, <1>5, <1>8, <2>2, <3>1
  <2>3. CASE i < n
    <3>1. i \in 1 .. n /\ i + 1 \in 1 .. n /\ n \in 1 .. n /\ i # n /\ i # n + 1
      BY <1>1, <2>3
    <3>2. s[i] # list.last
      BY <1>4, <1>5, <3>1
    <3> QED BY <1>1, <1>7, <1>8, <3>1, <3>2
  <2> QED BY <1>1, <2>1, <2>2, <2>3
<1>14. Chained(m, Added(list, t).first, a)
  BY <1>1, <1>9, <1>12, <1>13 DEF Chained
<1> QED BY <1>1, <1>9, <1>10, <1>11, <1>14 DEF a, m, n

\* The other lists do not notice.
LEMMA AddedElsewhere ==
    ASSUME next \in [AnyTask -> AnyTask \cup {NULL}],
           NEW list, NEW s \in Seq(AnyTask), list.last = LastOf(s),
           NEW t \in AnyTask,
           NEW first, NEW u \in Seq(AnyTask), Chained(next, first, u),
           Range(u) \cap (Range(s) \cup {t}) = {}
    PROVE  Chained(Linked(list, t), first, u)
<1>1. Range(u) \subseteq AnyTask
  BY DEF Range
<1>2. list.last \notin Range(u)
  <2>1. CASE s = <<>>
    BY <1>1, <2>1, TasksFinite DEF LastOf
  <2>2. CASE s # <<>>
    <3>1. Len(s) \in DOMAIN s /\ list.last = s[Len(s)]
      BY <2>2 DEF LastOf
    <3> QED BY <3>1 DEF Range
  <2> QED BY <2>1, <2>2
<1>3. \A x \in Range(u) : Linked(list, t)[x] = next[x]
  BY <1>1, <1>2 DEF Linked
<1> QED BY <1>3, SameChain
-----------------------------------------------------------------------------
(* The invariant *)

AnyOrNull == AnyTask \cup {NULL}

PoolTyped ==
    /\ next \in [AnyTask -> AnyOrNull]
    /\ active \in [AnyTask -> BOOLEAN]
    /\ queue \in [first : AnyOrNull, last : AnyOrNull]
    /\ done \in [first : AnyOrNull, last : AnyOrNull]
    /\ chain \in AnyOrNull
    /\ waiting \in Int
    /\ asleep \subseteq Expecting
    /\ pc \in [Thread -> {"lock", "cond", "run", "append", "notify", "exited"}]
    /\ task \in [Thread -> AnyOrNull]
    /\ main \in {"loop", "handler", "destroy", "yield", "destroyed", "failed"}
    /\ lock \in BOOLEAN
    /\ exits \in Nat

\* The links from first lead through s, and no task is met twice.
IsList(first, s) ==
    s \in Seq(AnyTask) /\ IsInjective(s) /\ Chained(next, first, s)

Lists ==
    /\ IsList(queue.first, Queued) /\ queue.last = LastOf(Queued)
    /\ IsList(done.first, Done) /\ done.last = LastOf(Done)
    /\ IsList(chain, Rest)
    /\ main # "handler" => chain = NULL

\* The tasks in the hands of the threads.
Held == {t \in AnyTask : \E th \in Thread : task[th] = t}

\* The lists and the hands share no task, and have the active ones.
Apart ==
    /\ Range(Queued) \cap (Range(Done) \cup Range(Rest) \cup Held) = {}
    /\ Range(Done) \cap (Range(Rest) \cup Held) = {}
    /\ Range(Rest) \cap Held = {}
    /\ \A t \in Task : active[t] <=>
          t \in Range(Queued) \cup Range(Done) \cup Range(Rest) \cup Held

\* A thread has a task from the queue until the list of those done.
Hands ==
    /\ \A th \in Thread : task[th] # NULL <=> pc[th] \in {"run", "append"}
    /\ \A th \in Thread : pc[th] = "append" => task[th] # Exit
    /\ \A a, b \in Thread : task[a] = task[b] /\ task[a] # NULL => a = b

\* The exit task comes last, is taken by one thread after another, and is
\* away before the next one is posted.
Exits ==
    /\ Exit \notin Range(Done) \cup Range(Rest)
    /\ Exit \in Range(Queued) \cup Held <=> main = "yield" /\ lock
    /\ Exit \in Range(Queued) => LastOf(Queued) = Exit
    /\ main = "yield" /\ Exit \notin Range(Queued) => Queued = <<>>
    /\ main \in {"loop", "handler"} => exits = 0
    /\ main = "destroy" /\ exits > 0 => Queued = <<>>
    /\ main = "destroyed" => exits = Cardinality(Thread) /\ Queued = <<>>

Exited == {th \in Thread : pc[th] = "exited"}

ExitsCounted ==
    Cardinality(Exited) = exits + IF main = "yield" /\ ~lock THEN 1 ELSE 0

Counted ==
    /\ waiting = Len(Queued) - Cardinality(Expecting)
    /\ waiting <= MAX_QUEUE

PoolInv ==
    /\ PoolTyped /\ Lists /\ Apart /\ Hands /\ Exits /\ ExitsCounted /\ Counted
    /\ NoSleepOverQueue

\* The lists of a step that touches no list.
LEMMA SameLists ==
    ASSUME UNCHANGED <<next, queue, done, chain>>
    PROVE  Queued' = Queued /\ Done' = Done /\ Rest' = Rest
BY DEF Queued, Done, Rest

\* Initially the lists are empty.
LEMMA EmptyLists ==
    ASSUME NEW links
    PROVE  ListOf(links, NULL) = <<>> /\ Chained(links, NULL, <<>>)
           /\ IsInjective(<<>>) /\ Range(<<>>) = {} /\ LastOf(<<>>) = NULL
<1>1. Chained(links, NULL, <<>>) /\ <<>> \in Seq(AnyTask)
  BY DEF Chained
<1>2. IsInjective(<<>>) /\ Range(<<>>) = {} /\ LastOf(<<>>) = NULL
  BY DEF IsInjective, Range, LastOf
<1> QED BY <1>1, <1>2, ListOfIs, ZenonT(30)

\* ngx_thread_task_post puts the task at the end of the queue.
LEMMA EnqueueLists ==
    ASSUME PoolTyped, Lists, Apart, NEW t \in AnyTask,
           t \notin Range(Queued) \cup Range(Done) \cup Range(Rest),
           next' = Linked(queue, t), queue' = Added(queue, t),
           UNCHANGED <<done, chain>>
    PROVE  /\ Queued' = Append(Queued, t) /\ Done' = Done /\ Rest' = Rest
           /\ IsList(queue.first, Queued)' /\ queue'.last = LastOf(Queued')
           /\ IsList(done.first, Done)' /\ IsList(chain, Rest)'
           /\ Range(Queued') = Range(Queued) \cup {t}
           /\ Len(Queued') = Len(Queued) + 1 /\ LastOf(Queued') = t
<1> DEFINE m == Linked(queue, t)
           q == Append(Queued, t)
<1>1. /\ next \in [AnyTask -> AnyTask \cup {NULL}]
      /\ Queued \in Seq(AnyTask) /\ IsInjective(Queued)
      /\ Chained(next, queue.first, Queued) /\ queue.last = LastOf(Queued)
      /\ Done \in Seq(AnyTask) /\ IsInjective(Done) /\ Chained(next, done.first, Done)
      /\ Rest \in Seq(AnyTask) /\ IsInjective(Rest) /\ Chained(next, chain, Rest)
  BY DEF PoolTyped, AnyOrNull, Lists, IsList
<1>2. /\ q \in Seq(AnyTask) /\ IsInjective(q)
      /\ Chained(m, Added(queue, t).first, q)
      /\ Added(queue, t).last = LastOf(q) /\ LastOf(q) = t
      /\ Range(q) = Range(Queued) \cup {t} /\ Len(q) = Len(Queued) + 1
  BY <1>1, AddedChain
<1>3. Chained(m, done.first, Done) /\ Chained(m, chain, Rest)
  <2>1. /\ Range(Done) \cap (Range(Queued) \cup {t}) = {}
        /\ Range(Rest) \cap (Range(Queued) \cup {t}) = {}
    BY DEF Apart
  <2>2. Chained(m, done.first, Done)
    BY <1>1, <2>1, AddedElsewhere
  <2>3. Chained(m, chain, Rest)
    BY <1>1, <2>1, AddedElsewhere
  <2> QED BY <2>2, <2>3
<1> HIDE DEF m, q
<1>4. /\ next' = m /\ queue' = Added(queue, t)
      /\ done'.first = done.first /\ chain' = chain
  BY DEF m
<1>5. Queued' = q
  <2>1. ListOf(m, Added(queue, t).first) = q
    BY <1>2, ListOfIs
  <2> QED BY <1>4, <2>1 DEF Queued
<1>6. Done' = Done
  <2>1. ListOf(m, done.first) = Done
    BY <1>1, <1>3, ListOfIs
  <2>2. Done' = ListOf(next', done'.first)
    BY DEF Done
  <2> QED BY <1>4, <2>1, <2>2, ZenonT(30)
<1>7. Rest' = Rest
  <2>1. ListOf(m, chain) = Rest
    BY <1>1, <1>3, ListOfIs
  <2>2. Rest' = ListOf(next', chain')
    BY DEF Rest
  <2> QED BY <1>4, <2>1, <2>2, ZenonT(30)
<1>8. IsList(queue.first, Queued)' /\ queue'.last = LastOf(Queued')
  BY <1>2, <1>4, <1>5 DEF IsList
<1>9. IsList(done.first, Done)' /\ IsList(chain, Rest)'
  BY <1>1, <1>3, <1>4, <1>6, <1>7, ZenonT(30) DEF IsList
<1> QED BY <1>2, <1>5, <1>6, <1>7, <1>8, <1>9 DEF q

\* ngx_thread_pool_cycle puts a task it has run at the end of those done.
LEMMA FinishLists ==
    ASSUME PoolTyped, Lists, Apart, NEW t \in AnyTask,
           t \notin Range(Queued) \cup Range(Done) \cup Range(Rest),
           next' = Linked(done, t), done' = Added(done, t),
           UNCHANGED <<queue, chain>>
    PROVE  /\ Queued' = Queued /\ Done' = Append(Done, t) /\ Rest' = Rest
           /\ IsList(done.first, Done)' /\ done'.last = LastOf(Done')
           /\ IsList(queue.first, Queued)' /\ IsList(chain, Rest)'
           /\ Range(Done') = Range(Done) \cup {t}
<1> DEFINE m == Linked(done, t)
           d == Append(Done, t)
<1>1. /\ next \in [AnyTask -> AnyTask \cup {NULL}]
      /\ Queued \in Seq(AnyTask) /\ IsInjective(Queued)
      /\ Chained(next, queue.first, Queued) /\ done.last = LastOf(Done)
      /\ Done \in Seq(AnyTask) /\ IsInjective(Done) /\ Chained(next, done.first, Done)
      /\ Rest \in Seq(AnyTask) /\ IsInjective(Rest) /\ Chained(next, chain, Rest)
  BY DEF PoolTyped, AnyOrNull, Lists, IsList
<1>2. /\ d \in Seq(AnyTask) /\ IsInjective(d)
      /\ Chained(m, Added(done, t).first, d)
      /\ Added(done, t).last = LastOf(d)
      /\ Range(d) = Range(Done) \cup {t}
  BY <1>1, AddedChain
<1>3. Chained(m, queue.first, Queued) /\ Chained(m, chain, Rest)
  <2>1. /\ Range(Queued) \cap (Range(Done) \cup {t}) = {}
        /\ Range(Rest) \cap (Range(Done) \cup {t}) = {}
    BY DEF Apart
  <2>2. Chained(m, queue.first, Queued)
    BY <1>1, <2>1, AddedElsewhere
  <2>3. Chained(m, chain, Rest)
    BY <1>1, <2>1, AddedElsewhere
  <2> QED BY <2>2, <2>3
<1> HIDE DEF m, d
<1>4. /\ next' = m /\ done' = Added(done, t)
      /\ queue'.first = queue.first /\ chain' = chain
  BY DEF m
<1>5. Done' = d
  <2>1. ListOf(m, Added(done, t).first) = d
    BY <1>2, ListOfIs
  <2> QED BY <1>4, <2>1 DEF Done
<1>6. Queued' = Queued
  <2>1. ListOf(m, queue.first) = Queued
    BY <1>1, <1>3, ListOfIs
  <2>2. Queued' = ListOf(next', queue'.first)
    BY DEF Queued
  <2> QED BY <1>4, <2>1, <2>2, ZenonT(30)
<1>7. Rest' = Rest
  <2>1. ListOf(m, chain) = Rest
    BY <1>1, <1>3, ListOfIs
  <2>2. Rest' = ListOf(next', chain')
    BY DEF Rest
  <2> QED BY <1>4, <2>1, <2>2, ZenonT(30)
<1>8. IsList(done.first, Done)' /\ done'.last = LastOf(Done')
  BY <1>2, <1>4, <1>5 DEF IsList
<1>9. IsList(queue.first, Queued)' /\ IsList(chain, Rest)'
  BY <1>1, <1>3, <1>4, <1>6, <1>7, ZenonT(30) DEF IsList
<1> QED BY <1>2, <1>5, <1>6, <1>7, <1>8, <1>9 DEF d

\* ngx_thread_pool_cycle takes the first task of the queue.
LEMMA DequeueLists ==
    ASSUME PoolTyped, Lists, queue.first # NULL,
           queue' = IF next[queue.first] = NULL
                    THEN EmptyList
                    ELSE [queue EXCEPT !.first = next[queue.first]],
           UNCHANGED <<next, done, chain>>
    PROVE  /\ Queued # <<>> /\ queue.first = Head(Queued)
           /\ queue.first \in AnyTask /\ queue.first \in Range(Queued)
           /\ Queued' = Tail(Queued) /\ Done' = Done /\ Rest' = Rest
           /\ IsList(queue.first, Queued)' /\ queue'.last = LastOf(Queued')
           /\ Range(Queued') = Range(Queued) \ {queue.first}
           /\ Len(Queued') = Len(Queued) - 1
           /\ LastOf(Queued') = IF next[queue.first] = NULL
                                THEN NULL ELSE LastOf(Queued)
           /\ Len(Queued) \in Nat /\ Len(Queued') \in Nat
<1> DEFINE f == queue.first
           q == Tail(Queued)
<1>1. /\ Queued \in Seq(AnyTask) /\ IsInjective(Queued)
      /\ Chained(next, f, Queued) /\ queue.last = LastOf(Queued) /\ f # NULL
  BY DEF Lists, IsList
<1>2. /\ Queued # <<>> /\ f = Head(Queued) /\ f \in AnyTask
      /\ q \in Seq(AnyTask) /\ IsInjective(q)
      /\ Chained(next, next[f], q)
      /\ Range(q) = Range(Queued) \ {f} /\ f \in Range(Queued)
      /\ Len(q) = Len(Queued) - 1
      /\ LastOf(q) = IF next[f] = NULL THEN NULL ELSE LastOf(Queued)
  BY <1>1, TailChain
<1>3. queue'.first = next[f] /\ queue'.last = LastOf(q)
  BY <1>1, <1>2 DEF EmptyList, PoolTyped
<1> HIDE DEF q
<1>4. Queued' = q
  <2>1. ListOf(next, next[f]) = q
    BY <1>2, ListOfIs
  <2> QED BY <1>3, <2>1 DEF Queued
<1>5. Done' = Done /\ Rest' = Rest
  BY DEF Done, Rest
<1>6. IsList(queue.first, Queued)'
  BY <1>2, <1>3, <1>4 DEF IsList
<1> QED BY <1>1, <1>2, <1>3, <1>4, <1>5, <1>6 DEF q

\* ngx_thread_pool_handler takes the list of the tasks done as it is.
LEMMA TakeLists ==
    ASSUME Lists, chain' = done.first, done' = EmptyList, UNCHANGED <<next, queue>>
    PROVE  /\ Queued' = Queued /\ Done' = <<>> /\ Rest' = Done
           /\ IsList(done.first, Done)' /\ done'.last = LastOf(Done')
           /\ IsList(chain, Rest)' /\ Range(Done') = {}
<1>1. Queued' = Queued /\ Rest' = Done /\ done'.first = NULL /\ done'.last = NULL
  BY DEF Queued, Rest, Done, EmptyList
<1>2. Done' = <<>>
  BY <1>1, EmptyLists DEF Done
<1>3. IsList(chain, Rest)'
  BY <1>1 DEF Lists, IsList
<1>4. /\ Chained(next', NULL, <<>>) /\ IsInjective(<<>>) /\ Range(<<>>) = {}
      /\ LastOf(<<>>) = NULL /\ <<>> \in Seq(AnyTask)
  BY EmptyLists
<1>5. IsList(done.first, Done)' /\ done'.last = LastOf(Done') /\ Range(Done') = {}
  BY <1>1, <1>2, <1>4 DEF IsList
<1> QED BY <1>1, <1>2, <1>3, <1>5

\* It goes on to the next of them before the completion handler is run.
LEMMA CompleteLists ==
    ASSUME Lists, chain # NULL, chain' = next[chain], UNCHANGED <<next, queue, done>>
    PROVE  /\ Queued' = Queued /\ Done' = Done
           /\ chain \in AnyTask /\ chain \in Range(Rest)
           /\ IsList(chain, Rest)' /\ Range(Rest') = Range(Rest) \ {chain}
<1> DEFINE r == Tail(Rest)
<1>1. Rest \in Seq(AnyTask) /\ IsInjective(Rest) /\ Chained(next, chain, Rest)
  BY DEF Lists, IsList
<1>2. /\ chain \in AnyTask /\ r \in Seq(AnyTask) /\ IsInjective(r)
      /\ Chained(next, next[chain], r)
      /\ Range(r) = Range(Rest) \ {chain} /\ chain \in Range(Rest)
  BY <1>1, TailChain
<1> HIDE DEF r
<1>3. Rest' = r
  <2>1. ListOf(next, next[chain]) = r
    BY <1>2, ListOfIs
  <2> QED BY <2>1 DEF Rest
<1>4. Queued' = Queued /\ Done' = Done
  BY DEF Queued, Done
<1>5. IsList(chain, Rest)'
  BY <1>2, <1>3 DEF IsList
<1> QED BY <1>2, <1>3, <1>4, <1>5
-----------------------------------------------------------------------------
(* The steps *)

\* The threads are finitely many, and so are those in one place.
LEMMA ThreadsFinite ==
    /\ IsFiniteSet(Thread) /\ Cardinality(Thread) \in Nat \ {0}
    /\ \A S \in SUBSET Thread : IsFiniteSet(S) /\ Cardinality(S) \in Nat
<1>1. IsFiniteSet(Thread) /\ Thread # {}
  BY PoolAssumption
<1>2. Cardinality(Thread) \in Nat /\ Cardinality(Thread) # 0
  BY <1>1, FS_CardinalityType, FS_EmptySet
<1>3. \A S \in SUBSET Thread : IsFiniteSet(S) /\ Cardinality(S) \in Nat
  BY <1>1, FS_Subset, FS_CardinalityType
<1> QED BY <1>1, <1>2, <1>3

\* The lists have lengths.
LEMMA QueueLength ==
    ASSUME Lists
    PROVE  /\ Len(Queued) \in Nat /\ (queue.first = NULL <=> Queued = <<>>)
           /\ (Queued = <<>> <=> Len(Queued) = 0)
           /\ (Queued = <<>> => Range(Queued) = {})
<1>1. Queued \in Seq(AnyTask) /\ Chained(next, queue.first, Queued)
  BY DEF Lists, IsList
<1>2. Queued # <<>> => Queued[1] \in AnyTask
  BY <1>1
<1>3. queue.first = NULL <=> Queued = <<>>
  BY <1>1, <1>2, TasksFinite DEF Chained
<1>4. Queued = <<>> => Range(Queued) = {}
  BY EmptyLists
<1> QED BY <1>1, <1>3, <1>4

\* A step that touches neither the lists nor the hands of the threads.
LEMMA QuietKeeps ==
    ASSUME PoolInv, UNCHANGED <<next, queue, done, chain, task, waiting>>
    PROVE  /\ Queued' = Queued /\ Done' = Done /\ Rest' = Rest /\ Held' = Held
           /\ IsList(queue.first, Queued)' /\ queue'.last = LastOf(Queued')
           /\ IsList(done.first, Done)' /\ done'.last = LastOf(Done')
           /\ IsList(chain, Rest)'
           /\ active' = active => Apart'
           /\ pc' = pc => Counted' /\ Expecting' = Expecting /\ Exited' = Exited
<1>1. Queued' = Queued /\ Done' = Done /\ Rest' = Rest
  BY SameLists
<1>2. Held' = Held
  BY DEF Held
<1>3. /\ IsList(queue.first, Queued)' /\ queue'.last = LastOf(Queued')
      /\ IsList(done.first, Done)' /\ done'.last = LastOf(Done')
      /\ IsList(chain, Rest)'
  BY <1>1 DEF PoolInv, Lists, IsList
<1>4. active' = active => Apart'
  BY <1>1, <1>2 DEF PoolInv, Apart
<1>5. pc' = pc => Expecting' = Expecting /\ Exited' = Exited
  BY DEF Expecting, Exited
<1>6. pc' = pc => Counted'
  BY <1>1, <1>5 DEF PoolInv, Counted
<1> QED BY <1>1, <1>2, <1>3, <1>4, <1>5, <1>6

\* The counter and the condition, when a task is posted.
LEMMA EnqueueCounts ==
    ASSUME PoolInv, ~Overflow, waiting' = waiting + 1, Signal, pc' = pc,
           Len(Queued') = Len(Queued) + 1
    PROVE  Counted' /\ NoSleepOverQueue' /\ asleep' \subseteq Expecting'
<1>1. /\ Expecting' = Expecting /\ Expecting \subseteq Thread
      /\ asleep \subseteq Expecting
  BY DEF Expecting, PoolInv, PoolTyped
<1>2. Len(Queued) \in Nat /\ waiting \in Int /\ MAX_QUEUE \in Nat
      /\ Cardinality(Expecting) \in Nat
  BY <1>1, QueueLength, ThreadsFinite, PoolAssumption DEF PoolInv, PoolTyped
<1>3. Counted'
  BY <1>1, <1>2 DEF PoolInv, Counted, Overflow
<1>4. asleep' \subseteq Expecting'
  BY <1>1 DEF Signal
<1>5. NoSleepOverQueue'
  <2>1. CASE asleep = {}
    BY <2>1 DEF Signal, NoSleepOverQueue
  <2>2. CASE asleep # {}
    <3>1. PICK th \in asleep : asleep' = asleep \ {th}
      BY <2>2 DEF Signal
    <3>2. /\ Woken' = Woken \cup {th} /\ th \notin Woken
          /\ Woken \subseteq Thread /\ IsFiniteSet(Woken)
      BY <1>1, <3>1, ThreadsFinite DEF Woken
    <3>3. Cardinality(Woken') = Cardinality(Woken) + 1 /\ Cardinality(Woken) \in Nat
      BY <3>2, FS_AddElement, FS_CardinalityType
    <3>4. Len(Queued) <= Cardinality(Woken)
      BY <2>2 DEF PoolInv, NoSleepOverQueue
    <3> QED BY <1>2, <3>3, <3>4 DEF NoSleepOverQueue
  <2> QED BY <2>1, <2>2
<1> QED BY <1>3, <1>4, <1>5

\* A request posts a task.
LEMMA PostKeeps ==
    ASSUME PoolInv, NEW t \in Task, Post(t)
    PROVE  PoolInv'
<1>1. /\ main \in {"loop", "handler"} /\ ~active[t] /\ ~Overflow
      /\ active' = [active EXCEPT ![t] = TRUE] /\ Signal
      /\ next' = Linked(queue, t) /\ queue' = Added(queue, t)
      /\ waiting' = waiting + 1
      /\ UNCHANGED <<done, pc, task, notified, main, chain, lock, exits>>
  BY DEF Post, Enqueue, mainvars
<1>2. /\ PoolTyped /\ Lists /\ Apart /\ Hands /\ Exits /\ ExitsCounted
      /\ t \in AnyTask /\ t # Exit
  BY PoolAssumption DEF PoolInv, AnyTask
<1>3. t \notin Range(Queued) \cup Range(Done) \cup Range(Rest) \cup Held
  BY <1>1, <1>2 DEF Apart
<1>4. /\ Queued' = Append(Queued, t) /\ Done' = Done /\ Rest' = Rest
      /\ IsList(queue.first, Queued)' /\ queue'.last = LastOf(Queued')
      /\ IsList(done.first, Done)' /\ IsList(chain, Rest)'
      /\ Range(Queued') = Range(Queued) \cup {t}
      /\ Len(Queued') = Len(Queued) + 1 /\ LastOf(Queued') = t
  BY <1>1, <1>2, <1>3, EnqueueLists, ZenonT(30)
<1>5. Held' = Held /\ Exited' = Exited
  BY <1>1 DEF Held, Exited
<1>6. Counted' /\ NoSleepOverQueue' /\ asleep' \subseteq Expecting'
  BY <1>1, <1>4, EnqueueCounts, ZenonT(30)
<1>7. PoolTyped'
  <2>1. next' \in [AnyTask -> AnyOrNull]
    BY <1>1, <1>2 DEF PoolTyped, Linked, AnyOrNull
  <2>2. queue' \in [first : AnyOrNull, last : AnyOrNull]
    BY <1>1, <1>2 DEF PoolTyped, Added, AnyOrNull
  <2>3. active' \in [AnyTask -> BOOLEAN] /\ waiting' \in Int
    BY <1>1, <1>2 DEF PoolTyped
  <2> QED BY <1>1, <1>2, <1>6, <2>1, <2>2, <2>3 DEF PoolTyped
<1>8. Lists'
  BY <1>1, <1>2, <1>4, ZenonT(30) DEF Lists
<1>9. Apart'
  <2>1. \A u \in Task : active'[u] <=> active[u] \/ u = t
    BY <1>1, <1>2 DEF PoolTyped, AnyTask
  <2> QED BY <1>2, <1>3, <1>4, <1>5, <2>1 DEF Apart
<1>10. Hands'
  BY <1>1, <1>2, ZenonT(30) DEF Hands
<1>11. Exits'
  BY <1>1, <1>2, <1>4, <1>5, ZenonT(30) DEF Exits
<1>12. ExitsCounted'
  BY <1>1, <1>2, <1>5 DEF ExitsCounted
<1> QED BY <1>6, <1>7, <1>8, <1>9, <1>10, <1>11, <1>12 DEF PoolInv

\* ngx_thread_pool_destroy posts the exit task, or is refused.
LEMMA DestroyPostKeeps ==
    ASSUME PoolInv, DestroyPost
    PROVE  PoolInv'
<1>1. /\ PoolTyped /\ Lists /\ Apart /\ Hands /\ Exits /\ ExitsCounted
      /\ Exit \in AnyTask
  BY DEF PoolInv, AnyTask
<1>2. /\ main = "destroy"
      /\ UNCHANGED <<done, pc, task, notified, chain, exits>>
      /\ Held' = Held /\ Exited' = Exited
  BY DEF DestroyPost, Held, Exited
<1>3. CASE main' = "failed" /\ lock' = TRUE /\ UNCHANGED <<pool, active>>
  <2>1. UNCHANGED <<next, queue, waiting, asleep, active>>
    BY <1>3 DEF pool
  <2>2. /\ Queued' = Queued /\ Done' = Done /\ Rest' = Rest
        /\ IsList(queue.first, Queued)' /\ queue'.last = LastOf(Queued')
        /\ IsList(done.first, Done)' /\ done'.last = LastOf(Done')
        /\ IsList(chain, Rest)' /\ Apart' /\ Counted' /\ Expecting' = Expecting
    BY <1>2, <2>1, QuietKeeps, ZenonT(30)
  <2>3. PoolTyped'
    BY <1>1, <1>2, <1>3, <2>1, <2>2 DEF PoolTyped
  <2>4. Lists' /\ Hands'
    BY <1>1, <1>2, <1>3, <2>1, <2>2, ZenonT(30) DEF Lists, Hands
  <2>5. Exits'
    BY <1>1, <1>2, <1>3, <2>2, ZenonT(30) DEF Exits
  <2>6. ExitsCounted'
    BY <1>1, <1>2, <1>3 DEF ExitsCounted
  <2>7. NoSleepOverQueue'
    BY <2>1, <2>2, ZenonT(30) DEF PoolInv, NoSleepOverQueue, Woken
  <2> QED BY <2>2, <2>3, <2>4, <2>5, <2>6, <2>7, ZenonT(30) DEF PoolInv
<1>4. CASE ~Overflow /\ Enqueue(Exit) /\ lock' = TRUE /\ main' = "yield"
  <2>1. /\ ~Overflow /\ Signal /\ active' = [active EXCEPT ![Exit] = TRUE]
        /\ next' = Linked(queue, Exit) /\ queue' = Added(queue, Exit)
        /\ waiting' = waiting + 1
    BY <1>4 DEF Enqueue
  <2>2. Exit \notin Range(Queued) \cup Range(Done) \cup Range(Rest) \cup Held
    BY <1>1, <1>2 DEF Exits
  <2>3. /\ Queued' = Append(Queued, Exit) /\ Done' = Done /\ Rest' = Rest
        /\ IsList(queue.first, Queued)' /\ queue'.last = LastOf(Queued')
        /\ IsList(done.first, Done)' /\ IsList(chain, Rest)'
        /\ Range(Queued') = Range(Queued) \cup {Exit}
        /\ Len(Queued') = Len(Queued) + 1 /\ LastOf(Queued') = Exit
    BY <1>1, <1>2, <2>1, <2>2, EnqueueLists, ZenonT(30)
  <2>4. Counted' /\ NoSleepOverQueue' /\ asleep' \subseteq Expecting'
    BY <1>2, <2>1, <2>3, EnqueueCounts, ZenonT(30)
  <2>5. PoolTyped'
    <3>1. next' \in [AnyTask -> AnyOrNull]
      BY <1>1, <2>1 DEF PoolTyped, Linked, AnyOrNull
    <3>2. queue' \in [first : AnyOrNull, last : AnyOrNull]
      BY <1>1, <2>1 DEF PoolTyped, Added, AnyOrNull
    <3>3. active' \in [AnyTask -> BOOLEAN] /\ waiting' \in Int
      BY <1>1, <2>1, SMTT(30) DEF PoolTyped
    <3> QED BY <1>1, <1>2, <1>4, <2>4, <3>1, <3>2, <3>3 DEF PoolTyped
  <2>6. Lists' /\ Hands'
    BY <1>1, <1>2, <1>4, <2>3, ZenonT(30) DEF Lists, Hands
  <2>7. Apart'
    <3>1. \A u \in Task : active'[u] <=> active[u]
      BY <1>1, <2>1, PoolAssumption DEF PoolTyped, AnyTask
    <3>2. \A u \in Task : u # Exit
      BY PoolAssumption
    <3>3. /\ Range(Queued') = Range(Queued) \cup {Exit} /\ Done' = Done
          /\ Rest' = Rest /\ Held' = Held
      BY <1>2, <2>3, ZenonT(30)
    <3>4. \A u \in Task : active'[u] <=>
             u \in Range(Queued') \cup Range(Done') \cup Range(Rest') \cup Held'
      BY <1>1, <3>1, <3>2, <3>3, ZenonT(30) DEF Apart
    <3>5. /\ Range(Queued') \cap (Range(Done') \cup Range(Rest') \cup Held') = {}
          /\ Range(Done') \cap (Range(Rest') \cup Held') = {}
          /\ Range(Rest') \cap Held' = {}
      BY <1>1, <2>2, <3>3 DEF Apart
    <3> QED BY <3>4, <3>5 DEF Apart
  <2>8. Exits'
    BY <1>1, <1>2, <1>4, <2>3, ZenonT(30) DEF Exits
  <2>9. ExitsCounted'
    BY <1>1, <1>2, <1>4 DEF ExitsCounted
  <2> QED BY <2>4, <2>5, <2>6, <2>7, <2>8, <2>9 DEF PoolInv
<1> QED BY <1>3, <1>4, ZenonT(30) DEF DestroyPost

\* The end of a list is one of its tasks.
LEMMA LastIn ==
    ASSUME NEW s \in Seq(AnyTask)
    PROVE  /\ s = <<>> => LastOf(s) = NULL
           /\ s # <<>> => LastOf(s) \in Range(s) /\ LastOf(s) # NULL
<1>1. ASSUME s # <<>> PROVE LastOf(s) \in Range(s) /\ LastOf(s) # NULL
  <2>1. Len(s) \in DOMAIN s /\ Len(s) \in 1 .. Len(s) /\ LastOf(s) = s[Len(s)]
    BY <1>1 DEF LastOf
  <2>2. s[Len(s)] \in AnyTask
    BY <2>1
  <2> QED BY <2>1, <2>2, TasksFinite DEF Range
<1> QED BY <1>1 DEF LastOf

\* A thread puts a task into its empty hand, or puts it away.
LEMMA HandChanges ==
    ASSUME task \in [Thread -> AnyTask \cup {NULL}], NEW th \in Thread,
           \A a, b \in Thread : task[a] = task[b] /\ task[a] # NULL => a = b
    PROVE  /\ \A t \in AnyTask :
                 task[th] = NULL /\ task' = [task EXCEPT ![th] = t]
                    => Held' = Held \cup {t}
           /\ task' = [task EXCEPT ![th] = NULL] => Held' = Held \ {task[th]}
<1>1. NULL \notin AnyTask
  BY TasksFinite
<1>2. ASSUME NEW t \in AnyTask, task[th] = NULL, task' = [task EXCEPT ![th] = t]
      PROVE  Held' = Held \cup {t}
  <2>1. task'[th] = t /\ \A a \in Thread : a # th => task'[a] = task[a]
    BY <1>2
  <2> QED BY <1>1, <1>2, <2>1 DEF Held
<1>3. ASSUME task' = [task EXCEPT ![th] = NULL]
      PROVE  Held' = Held \ {task[th]}
  <2>1. task'[th] = NULL /\ \A a \in Thread : a # th => task'[a] = task[a]
    BY <1>3
  <2> QED BY <1>1, <2>1 DEF Held
<1> QED BY <1>2, <1>3

\* A thread takes a task: the counter was lowered for it, now or before it
\* waited.
LEMMA TakesTask ==
    ASSUME PoolInv, NEW th \in Thread, pc[th] \in {"lock", "cond"},
           th \notin asleep, queue.first # NULL,
           waiting' = IF pc[th] = "lock" THEN waiting - 1 ELSE waiting,
           task' = [task EXCEPT ![th] = queue.first],
           queue' = IF next[queue.first] = NULL
                    THEN EmptyList
                    ELSE [queue EXCEPT !.first = next[queue.first]],
           pc' = [pc EXCEPT ![th] = "run"],
           UNCHANGED <<asleep, next, active, done, mainvars>>
    PROVE  PoolInv'
<1> DEFINE f == queue.first
<1>1. /\ PoolTyped /\ Lists /\ Apart /\ Hands /\ Exits /\ ExitsCounted
      /\ Counted /\ NoSleepOverQueue
      /\ UNCHANGED <<main, chain, lock, exits>>
  BY DEF PoolInv, mainvars
<1>2. /\ Queued # <<>> /\ f \in AnyTask /\ f \in Range(Queued)
      /\ Done' = Done /\ Rest' = Rest
      /\ IsList(queue.first, Queued)' /\ queue'.last = LastOf(Queued')
      /\ Range(Queued') = Range(Queued) \ {f}
      /\ Len(Queued') = Len(Queued) - 1
      /\ LastOf(Queued') = IF next[f] = NULL THEN NULL ELSE LastOf(Queued)
      /\ Len(Queued) \in Nat /\ Len(Queued') \in Nat
  BY <1>1, DequeueLists
<1>3. task[th] = NULL /\ task \in [Thread -> AnyTask \cup {NULL}]
  BY <1>1 DEF Hands, PoolTyped, AnyOrNull
<1>4. Held' = Held \cup {f}
  BY <1>1, <1>2, <1>3, HandChanges, ZenonT(30) DEF Hands
<1>5. /\ pc \in [Thread -> {"lock", "cond", "run", "append", "notify", "exited"}]
      /\ pc'[th] = "run" /\ \A a \in Thread : a # th => pc'[a] = pc[a]
      /\ task'[th] = f /\ \A a \in Thread : a # th => task'[a] = task[a]
  BY <1>1, <1>3 DEF PoolTyped
<1>6. /\ Expecting' = Expecting \ {th} /\ Exited' = Exited
      /\ Woken' = Woken \ {th} /\ Expecting \subseteq Thread /\ Woken \subseteq Thread
  BY <1>5 DEF Expecting, Exited, Woken
<1>7. /\ waiting \in Int /\ MAX_QUEUE \in Nat
      /\ IsFiniteSet(Expecting) /\ IsFiniteSet(Woken)
      /\ Cardinality(Expecting) \in Nat /\ Cardinality(Woken) \in Nat
  BY <1>1, <1>6, ThreadsFinite, PoolAssumption DEF PoolTyped
<1>8. PoolTyped'
  <2>1. queue' \in [first : AnyOrNull, last : AnyOrNull]
    BY <1>1, <1>2 DEF PoolTyped, EmptyList, AnyOrNull
  <2>2. asleep' \subseteq Expecting' /\ waiting' \in Int
    BY <1>1, <1>6, <1>7 DEF PoolTyped
  <2>3. task' \in [Thread -> AnyOrNull]
    BY <1>1, <1>2 DEF PoolTyped, AnyOrNull
  <2>4. pc' \in [Thread -> {"lock", "cond", "run", "append", "notify", "exited"}]
    BY <1>5
  <2> QED BY <1>1, <2>1, <2>2, <2>3, <2>4 DEF PoolTyped
<1>9. Lists'
  BY <1>1, <1>2 DEF Lists, IsList
<1>10. Apart'
  BY <1>1, <1>2, <1>4 DEF Apart
<1>11. Hands'
  <2>1. \A a \in Thread : task[a] # f
    BY <1>1, <1>2 DEF Apart, Held
  <2>2. f # NULL
    OBVIOUS
  <2> HIDE DEF f
  <2> QED BY <1>1, <1>5, <2>1, <2>2 DEF Hands
<1>12. Exits'
  <2>2. /\ Queued' = <<>> \/ LastOf(Queued') = LastOf(Queued)
        /\ Queued' # <<>> => LastOf(Queued') \in Range(Queued')
    <3>1. Queued' \in Seq(AnyTask)
      BY <1>2 DEF IsList
    <3> QED BY <1>2, <3>1, LastIn
  <2>3. Exit \in Range(Queued') => Queued' # <<>>
    BY EmptyLists
  <2>4. Exit \in Range(Queued') => LastOf(Queued') = Exit
    BY <1>1, <1>2, <2>2, <2>3 DEF Exits
  <2>5. main = "yield" /\ Exit \notin Range(Queued') => Queued' = <<>>
    BY <1>1, <1>2, <2>2 DEF Exits
  <2>6. /\ ~(main = "destroy" /\ exits > 0) /\ main # "destroyed"
        /\ Exit \notin Range(Done) \cup Range(Rest)
    BY <1>1, <1>2 DEF Exits
  <2>7. Exit \in Range(Queued') \cup Held' <=> main = "yield" /\ lock
    BY <1>1, <1>2, <1>4 DEF Exits
  <2> QED BY <1>1, <1>2, <2>4, <2>5, <2>6, <2>7 DEF Exits
<1>13. ExitsCounted'
  BY <1>1, <1>6 DEF ExitsCounted
<1>14. Counted' /\ NoSleepOverQueue'
  <2>1. CASE pc[th] = "lock"
    <3>1. Expecting' = Expecting /\ Woken' = Woken /\ waiting' = waiting - 1
      BY <1>6, <2>1 DEF Expecting, Woken
    <3>2. Counted'
      BY <1>1, <1>2, <1>7, <3>1 DEF Counted
    <3> QED BY <1>1, <1>2, <1>7, <3>1, <3>2 DEF NoSleepOverQueue
  <2>2. CASE pc[th] = "cond"
    <3>1. th \in Expecting /\ th \in Woken /\ waiting' = waiting
      BY <2>2 DEF Expecting, Woken
    <3>2. /\ Cardinality(Expecting') = Cardinality(Expecting) - 1
          /\ Cardinality(Woken') = Cardinality(Woken) - 1
      BY <1>6, <1>7, <3>1, FS_RemoveElement, ZenonT(30)
    <3>3. Counted'
      BY <1>1, <1>2, <1>7, <3>1, <3>2 DEF Counted
    <3> QED BY <1>1, <1>2, <1>7, <3>2, <3>3 DEF NoSleepOverQueue
  <2> QED BY <2>1, <2>2
<1> QED BY <1>8, <1>9, <1>10, <1>11, <1>12, <1>13, <1>14 DEF PoolInv

\* A thread finds the queue empty and waits.
LEMMA WaitsForTask ==
    ASSUME PoolInv, NEW th \in Thread, pc[th] \in {"lock", "cond"},
           queue.first = NULL,
           waiting' = IF pc[th] = "lock" THEN waiting - 1 ELSE waiting,
           asleep' = asleep \cup {th}, pc' = [pc EXCEPT ![th] = "cond"],
           UNCHANGED <<queue, task, next, active, done, mainvars>>
    PROVE  PoolInv'
<1>1. /\ PoolTyped /\ Lists /\ Apart /\ Hands /\ Exits /\ ExitsCounted
      /\ Counted /\ NoSleepOverQueue
      /\ UNCHANGED <<main, chain, lock, exits>>
  BY DEF PoolInv, mainvars
<1>2. Queued' = Queued /\ Done' = Done /\ Rest' = Rest /\ Held' = Held
  BY <1>1, SameLists, ZenonT(30) DEF Held
<1>3. Len(Queued) = 0
  BY <1>1, QueueLength
<1>4. /\ pc \in [Thread -> {"lock", "cond", "run", "append", "notify", "exited"}]
      /\ pc'[th] = "cond" /\ \A a \in Thread : a # th => pc'[a] = pc[a]
  BY <1>1 DEF PoolTyped
<1>5. /\ Expecting' = Expecting \cup {th} /\ Exited' = Exited
      /\ Expecting \subseteq Thread /\ Woken' \subseteq Thread
  BY <1>4 DEF Expecting, Exited, Woken
<1>6. /\ waiting \in Int /\ MAX_QUEUE \in Nat /\ IsFiniteSet(Expecting)
      /\ Cardinality(Expecting) \in Nat /\ Cardinality(Woken') \in Nat
  BY <1>1, <1>5, ThreadsFinite, PoolAssumption, ZenonT(30) DEF PoolTyped
<1>7. PoolTyped'
  <2>1. asleep' \subseteq Expecting' /\ waiting' \in Int
    BY <1>1, <1>5, <1>6 DEF PoolTyped
  <2>2. pc' \in [Thread -> {"lock", "cond", "run", "append", "notify", "exited"}]
    BY <1>4, SMTT(30)
  <2> QED BY <1>1, <2>1, <2>2 DEF PoolTyped
<1>8. Lists' /\ Apart'
  BY <1>1, <1>2, ZenonT(30) DEF Lists, IsList, Apart
<1>9. Hands'
  BY <1>1, <1>4, ZenonT(30) DEF Hands
<1>10. Exits' /\ ExitsCounted'
  BY <1>1, <1>2, <1>5, ZenonT(30) DEF Exits, ExitsCounted
<1>11. NoSleepOverQueue'
  BY <1>2, <1>3, <1>6 DEF NoSleepOverQueue
<1>12. Counted'
  <2>1. CASE pc[th] = "lock"
    <3>1. th \notin Expecting /\ waiting' = waiting - 1
      BY <2>1 DEF Expecting
    <3>2. Cardinality(Expecting') = Cardinality(Expecting) + 1
      BY <1>5, <1>6, <3>1, FS_AddElement, ZenonT(30)
    <3> QED BY <1>1, <1>2, <1>3, <1>6, <3>1, <3>2 DEF Counted
  <2>2. CASE pc[th] = "cond"
    <3>1. Expecting' = Expecting /\ waiting' = waiting
      BY <1>5, <2>2 DEF Expecting
    <3> QED BY <1>1, <1>2, <3>1 DEF Counted
  <2> QED BY <2>1, <2>2
<1> QED BY <1>7, <1>8, <1>9, <1>10, <1>11, <1>12 DEF PoolInv

\* The main thread moves on and touches nothing that the threads share.
LEMMA MoveKeeps ==
    ASSUME PoolInv, UNCHANGED <<next, queue, done, chain, task, waiting, pc,
                                asleep, active>>,
           main' \in {"loop", "handler", "destroy", "yield", "destroyed", "failed"},
           lock' \in BOOLEAN, exits' \in Nat, chain = NULL, Exits', ExitsCounted'
    PROVE  PoolInv'
<1>1. /\ Queued' = Queued
      /\ IsList(queue.first, Queued)' /\ queue'.last = LastOf(Queued')
      /\ IsList(done.first, Done)' /\ done'.last = LastOf(Done')
      /\ IsList(chain, Rest)' /\ Apart' /\ Counted' /\ Expecting' = Expecting
  BY QuietKeeps, ZenonT(30)
<1>2. PoolTyped'
  BY <1>1 DEF PoolInv, PoolTyped
<1>3. Lists' /\ Hands'
  BY <1>1, ZenonT(30) DEF PoolInv, Lists, Hands
<1>4. NoSleepOverQueue'
  BY <1>1, ZenonT(30) DEF PoolInv, NoSleepOverQueue, Woken
<1> QED BY <1>1, <1>2, <1>3, <1>4, ZenonT(30) DEF PoolInv

\* ngx_thread_pool_handler ends, and ngx_thread_pool_destroy begins or ends.
LEMMA MainKeeps ==
    ASSUME PoolInv, HandlerEnds \/ ExitWorker \/ DestroyWait \/ DestroyEnds
    PROVE  PoolInv'
<1>1. /\ UNCHANGED <<next, queue, done, chain, task, waiting, pc, asleep>>
      /\ main \in {"handler", "loop", "yield", "destroy"} /\ exits \in Nat
      /\ PoolTyped /\ Lists /\ Apart /\ Hands /\ Exits /\ ExitsCounted
  BY ZenonT(30) DEF HandlerEnds, ExitWorker, DestroyWait, DestroyEnds, pool, PoolInv, PoolTyped
<1>2. /\ Queued' = Queued /\ Done' = Done /\ Rest' = Rest /\ Held' = Held
      /\ Exited' = Exited
  BY <1>1, QuietKeeps, ZenonT(30)
<1>3. CASE HandlerEnds \/ ExitWorker \/ DestroyEnds
  <2>1. UNCHANGED <<active, lock, exits>> /\ chain = NULL
    BY <1>1, <1>3, ZenonT(30) DEF HandlerEnds, ExitWorker, DestroyEnds, Lists
  <2>2. ExitsCounted'
    BY <1>1, <1>2, <1>3, <2>1, ZenonT(30) DEF HandlerEnds, ExitWorker, DestroyEnds, ExitsCounted
  <2>3. CASE HandlerEnds
    <3>1. Exits' /\ main' = "loop"
      BY <1>1, <1>2, <2>1, <2>3, ZenonT(30) DEF HandlerEnds, Exits
    <3> QED BY <1>1, <2>1, <2>2, <3>1, MoveKeeps, SMTT(30) DEF PoolTyped
  <2>4. CASE ExitWorker
    <3>1. exits = 0
      BY <1>1, <2>4 DEF ExitWorker, Exits
    <3>2. Exits' /\ main' = "destroy"
      BY <1>1, <1>2, <2>1, <2>4, <3>1 DEF ExitWorker, Exits
    <3> QED BY <1>1, <2>1, <2>2, <3>2, MoveKeeps DEF PoolTyped
  <2>5. CASE DestroyEnds
    <3>1. exits = Cardinality(Thread) /\ exits > 0
      BY <2>5, ThreadsFinite DEF DestroyEnds
    <3>2. Exits' /\ main' = "destroyed"
      BY <1>1, <1>2, <2>1, <2>5, <3>1, ZenonT(30) DEF DestroyEnds, Exits
    <3> QED BY <1>1, <2>1, <2>2, <3>2, MoveKeeps DEF PoolTyped
  <2> QED BY <1>3, <2>3, <2>4, <2>5, SMTT(30)
<1>4. CASE DestroyWait
  <2>1. /\ main = "yield" /\ ~lock /\ active' = [active EXCEPT ![Exit] = FALSE]
        /\ exits' = exits + 1 /\ main' = "destroy" /\ lock' = lock
    BY <1>4 DEF DestroyWait
  <2>2. Queued = <<>>
    BY <1>1, <2>1 DEF Exits
  <2>3. Exits'
    BY <1>1, <1>2, <2>1, <2>2, ZenonT(30) DEF Exits
  <2>4. ExitsCounted'
    BY <1>1, <1>2, <2>1 DEF ExitsCounted
  <2>5. /\ IsList(queue.first, Queued)' /\ queue'.last = LastOf(Queued')
        /\ IsList(done.first, Done)' /\ done'.last = LastOf(Done')
        /\ IsList(chain, Rest)' /\ Counted' /\ Expecting' = Expecting
    BY <1>1, QuietKeeps, ZenonT(30)
  <2>6. PoolTyped'
    <3>1. active \in [AnyTask -> BOOLEAN]
      BY <1>1 DEF PoolTyped
    <3>2. active' \in [AnyTask -> BOOLEAN]
      BY <2>1, <3>1, ZenonT(30)
    <3>3. exits' \in Nat
      BY <1>1, <2>1
    <3> QED BY <1>1, <2>1, <2>5, <3>2, <3>3, ZenonT(30) DEF PoolTyped
  <2>7. Lists' /\ Hands'
    BY <1>1, <2>1, <2>5, ZenonT(30) DEF Lists, Hands
  <2>8. Apart'
    <3>1. \A t \in Task : active'[t] <=> active[t]
      BY <1>1, <2>1, PoolAssumption, ZenonT(30) DEF PoolTyped, AnyTask
    <3> QED BY <1>1, <1>2, <3>1, ZenonT(30) DEF Apart
  <2>9. NoSleepOverQueue'
    BY <1>1, <1>2, <2>5, ZenonT(30) DEF PoolInv, NoSleepOverQueue, Woken
  <2> QED BY <2>3, <2>4, <2>5, <2>6, <2>7, <2>8, <2>9, ZenonT(30) DEF PoolInv
<1> QED BY <1>3, <1>4

\* ngx_thread_pool_handler takes the tasks done.
LEMMA TakeKeeps ==
    ASSUME PoolInv, Take
    PROVE  PoolInv'
<1>1. /\ PoolTyped /\ Lists /\ Apart /\ Hands /\ Exits /\ ExitsCounted
      /\ Counted /\ NoSleepOverQueue
      /\ main = "loop" /\ main' = "handler" /\ chain' = done.first
      /\ done' = EmptyList
      /\ UNCHANGED <<next, queue, waiting, asleep, active, pc, task, lock, exits>>
  BY DEF PoolInv, Take, pool
<1>2. /\ Queued' = Queued /\ Done' = <<>> /\ Rest' = Done
      /\ IsList(done.first, Done)' /\ done'.last = LastOf(Done')
      /\ IsList(chain, Rest)' /\ Range(Done') = {}
  BY <1>1, TakeLists
<1>3. Held' = Held /\ Exited' = Exited /\ Expecting' = Expecting /\ Woken' = Woken
  BY <1>1, ZenonT(30) DEF Held, Exited, Expecting, Woken
<1>4. Range(Rest) = {}
  <2>1. chain = NULL
    BY <1>1, ZenonT(30) DEF Lists
  <2> QED BY <2>1, EmptyLists DEF Rest
<1>5. PoolTyped'
  <2>1. done' \in [first : AnyOrNull, last : AnyOrNull] /\ chain' \in AnyOrNull
    BY <1>1, ZenonT(30) DEF PoolTyped, EmptyList, AnyOrNull
  <2> QED BY <1>1, <1>3, <2>1 DEF PoolTyped
<1>6. Lists'
  BY <1>1, <1>2, ZenonT(30) DEF Lists, IsList
<1>7. Apart'
  BY <1>1, <1>2, <1>3, <1>4, ZenonT(30) DEF Apart
<1>8. Hands' /\ ExitsCounted' /\ Counted'
  BY <1>1, <1>2, <1>3, ZenonT(30) DEF Hands, ExitsCounted, Counted
<1>9. Exits'
  BY <1>1, <1>2, <1>3, ZenonT(30) DEF Exits
<1>10. NoSleepOverQueue'
  BY <1>1, <1>2, <1>3, ZenonT(30) DEF NoSleepOverQueue
<1> QED BY <1>5, <1>6, <1>7, <1>8, <1>9, <1>10 DEF PoolInv

\* It completes one of them.
LEMMA CompleteKeeps ==
    ASSUME PoolInv, Complete
    PROVE  PoolInv'
<1>1. /\ PoolTyped /\ Lists /\ Apart /\ Hands /\ Exits /\ ExitsCounted
      /\ Counted /\ NoSleepOverQueue
      /\ main = "handler" /\ chain # NULL /\ chain' = next[chain]
      /\ active' = [active EXCEPT ![chain] = FALSE]
      /\ UNCHANGED <<next, queue, waiting, asleep, done, pc, task, main, lock, exits>>
  BY DEF PoolInv, Complete, pool
<1>2. /\ Queued' = Queued /\ Done' = Done
      /\ chain \in AnyTask /\ chain \in Range(Rest)
      /\ IsList(chain, Rest)' /\ Range(Rest') = Range(Rest) \ {chain}
  BY <1>1, CompleteLists, ZenonT(30)
<1>3. Held' = Held /\ Exited' = Exited /\ Expecting' = Expecting /\ Woken' = Woken
  BY <1>1 DEF Held, Exited, Expecting, Woken
<1>4. PoolTyped'
  <2>1. active' \in [AnyTask -> BOOLEAN] /\ chain' \in AnyOrNull
    BY <1>1, <1>2, SMTT(30) DEF PoolTyped
  <2> QED BY <1>1, <1>3, <2>1 DEF PoolTyped
<1>5. Lists'
  BY <1>1, <1>2, ZenonT(30) DEF Lists, IsList
<1>6. Apart'
  <2>1. \A t \in Task : active'[t] <=> active[t] /\ t # chain
    BY <1>1, <1>2, ZenonT(30) DEF PoolTyped, AnyTask
  <2> QED BY <1>1, <1>2, <1>3, <2>1, ZenonT(30) DEF Apart
<1>7. Hands' /\ ExitsCounted' /\ Counted'
  BY <1>1, <1>2, <1>3, ZenonT(30) DEF Hands, ExitsCounted, Counted
<1>8. Exits'
  BY <1>1, <1>2, <1>3, ZenonT(30) DEF Exits
<1>9. NoSleepOverQueue'
  BY <1>1, <1>2, <1>3, ZenonT(30) DEF NoSleepOverQueue
<1> QED BY <1>4, <1>5, <1>6, <1>7, <1>8, <1>9 DEF PoolInv

\* A thread is woken by nothing.
LEMMA SpuriousKeeps ==
    ASSUME PoolInv, NEW th \in Thread, Spurious(th)
    PROVE  PoolInv'
<1>1. /\ PoolTyped /\ Lists /\ Apart /\ Hands /\ Exits /\ ExitsCounted
      /\ Counted /\ NoSleepOverQueue
      /\ th \in asleep /\ asleep' = asleep \ {th}
      /\ UNCHANGED <<next, active, queue, waiting, done, pc, task, main, chain,
                     lock, exits>>
  BY ZenonT(30) DEF PoolInv, Spurious, mainvars
<1>2. /\ Queued' = Queued /\ Done' = Done /\ Rest' = Rest /\ Held' = Held
      /\ IsList(queue.first, Queued)' /\ queue'.last = LastOf(Queued')
      /\ IsList(done.first, Done)' /\ done'.last = LastOf(Done')
      /\ IsList(chain, Rest)' /\ Apart' /\ Counted'
      /\ Expecting' = Expecting /\ Exited' = Exited
  BY <1>1, QuietKeeps, ZenonT(30)
<1>3. PoolTyped'
  BY <1>1, <1>2, ZenonT(30) DEF PoolTyped
<1>4. Lists' /\ Hands'
  BY <1>1, <1>2, ZenonT(30) DEF Lists, Hands
<1>5. Exits' /\ ExitsCounted'
  BY <1>1, <1>2, ZenonT(30) DEF Exits, ExitsCounted
<1>6. NoSleepOverQueue'
  <2>1. /\ Woken' = Woken \cup {th} /\ Woken \subseteq Thread /\ th \notin Woken
        /\ IsFiniteSet(Woken)
    BY <1>1, <1>2, ThreadsFinite DEF Woken, PoolTyped, Expecting
  <2>2. Cardinality(Woken') = Cardinality(Woken) + 1 /\ Cardinality(Woken) \in Nat
    BY <2>1, FS_AddElement, FS_CardinalityType, ZenonT(30)
  <2>3. Len(Queued) \in Nat /\ Len(Queued) <= Cardinality(Woken)
    BY <1>1, QueueLength DEF NoSleepOverQueue
  <2> QED BY <1>2, <2>2, <2>3 DEF NoSleepOverQueue
<1> QED BY <1>2, <1>3, <1>4, <1>5, <1>6, ZenonT(30) DEF PoolInv

\* The handler of a task of a request has run.
LEMMA RunKeeps ==
    ASSUME PoolInv, NEW th \in Thread, Run(th)
    PROVE  PoolInv'
<1>1. /\ PoolTyped /\ Lists /\ Apart /\ Hands /\ Exits /\ ExitsCounted
      /\ Counted /\ NoSleepOverQueue
      /\ pc[th] = "run"
      /\ UNCHANGED <<next, queue, waiting, asleep, active, done, main, chain, exits>>
  BY ZenonT(30) DEF PoolInv, Run, pool
<1>2. Queued' = Queued /\ Done' = Done /\ Rest' = Rest
  BY <1>1, SameLists
<1>3. pc \in [Thread -> {"lock", "cond", "run", "append", "notify", "exited"}]
  BY <1>1, ZenonT(30) DEF PoolTyped
<1>4. ASSUME NEW to \in {"append", "exited"}, pc' = [pc EXCEPT ![th] = to]
      PROVE  /\ pc'[th] = to /\ \A a \in Thread : a # th => pc'[a] = pc[a]
             /\ pc' \in [Thread -> {"lock", "cond", "run", "append", "notify", "exited"}]
             /\ Expecting' = Expecting /\ Woken' = Woken
             /\ Exited' = IF to = "exited" THEN Exited \cup {th} ELSE Exited
             /\ Counted' /\ NoSleepOverQueue' /\ Lists'
  <2>1. /\ pc'[th] = to /\ \A a \in Thread : a # th => pc'[a] = pc[a]
        /\ pc' \in [Thread -> {"lock", "cond", "run", "append", "notify", "exited"}]
    BY <1>3, <1>4
  <2>2. Expecting' = Expecting
    BY <1>1, <2>1, ZenonT(30) DEF Expecting
  <2>3. Woken' = Woken
    BY <1>1, <2>2, ZenonT(30) DEF Woken
  <2>4. Exited' = IF to = "exited" THEN Exited \cup {th} ELSE Exited
    BY <1>1, <2>1, ZenonT(30) DEF Exited
  <2>5. Counted' /\ NoSleepOverQueue'
    BY <1>1, <1>2, <2>2, <2>3, SMTT(30) DEF Counted, NoSleepOverQueue
  <2>6. Lists'
    BY <1>1, <1>2, ZenonT(30) DEF Lists, IsList
  <2> QED BY <2>1, <2>2, <2>3, <2>4, <2>5, <2>6, ZenonT(30)
<1>5. CASE task[th] # Exit /\ Goto(th, "append") /\ UNCHANGED <<task, lock>>
  <2>1. pc' = [pc EXCEPT ![th] = "append"] /\ Held' = Held
    BY <1>5 DEF Goto, Held
  <2>2. /\ pc'[th] = "append" /\ \A a \in Thread : a # th => pc'[a] = pc[a]
        /\ pc' \in [Thread -> {"lock", "cond", "run", "append", "notify", "exited"}]
        /\ Expecting' = Expecting /\ Exited' = Exited
        /\ Counted' /\ NoSleepOverQueue' /\ Lists'
    BY <1>4, <2>1, ZenonT(30)
  <2>3. PoolTyped'
    BY <1>1, <1>5, <2>2, ZenonT(30) DEF PoolTyped
  <2>4. Apart' /\ Exits' /\ ExitsCounted'
    BY <1>1, <1>2, <1>5, <2>1, <2>2, ZenonT(30) DEF Apart, Exits, ExitsCounted
  <2>5. Hands'
    BY <1>1, <1>5, <2>2, ZenonT(30) DEF Hands
  <2> QED BY <2>2, <2>3, <2>4, <2>5 DEF PoolInv
<1>6. CASE /\ task[th] = Exit /\ lock' = FALSE
           /\ task' = [task EXCEPT ![th] = NULL] /\ Goto(th, "exited")
  <2>1. /\ task \in [Thread -> AnyTask \cup {NULL}]
        /\ pc' = [pc EXCEPT ![th] = "exited"]
    BY <1>1, <1>6, ZenonT(30) DEF PoolTyped, AnyOrNull, Goto
  <2>2. /\ pc'[th] = "exited" /\ \A a \in Thread : a # th => pc'[a] = pc[a]
        /\ pc' \in [Thread -> {"lock", "cond", "run", "append", "notify", "exited"}]
        /\ Expecting' = Expecting /\ Exited' = Exited \cup {th}
        /\ Counted' /\ NoSleepOverQueue' /\ Lists'
    BY <1>4, <2>1
  <2>3. Held' = Held \ {Exit} /\ Exit \in Held
    <3>1. Exit \in Held
      BY <1>6 DEF Held, AnyTask
    <3> QED BY <1>1, <1>6, <2>1, <3>1, HandChanges, ZenonT(30) DEF Hands
  <2>4. main = "yield" /\ lock /\ Exit \notin Range(Queued) /\ Queued = <<>>
    BY <1>1, <2>3, ZenonT(30) DEF Exits, Apart
  <2>5. task'[th] = NULL /\ \A a \in Thread : a # th => task'[a] = task[a]
    BY <1>6, <2>1
  <2>6. PoolTyped'
    <3>1. task' \in [Thread -> AnyOrNull]
      BY <1>6, <2>1 DEF AnyOrNull
    <3> QED BY <1>1, <1>6, <2>2, <3>1, ZenonT(30) DEF PoolTyped
  <2>7. Apart'
    <3>1. \A t \in Task : t # Exit
      BY PoolAssumption
    <3> QED BY <1>1, <1>2, <2>3, <3>1, ZenonT(30) DEF Apart
  <2>8. Hands'
    <3>1. \A a \in Thread : task'[a] # NULL <=> pc'[a] \in {"run", "append"}
      BY <1>1, <2>2, <2>5, ZenonT(30) DEF Hands
    <3>2. \A a \in Thread : pc'[a] = "append" => task'[a] # Exit
      BY <1>1, <2>2, <2>5, ZenonT(30) DEF Hands
    <3>3. ASSUME NEW a \in Thread, NEW b \in Thread,
                 task'[a] = task'[b], task'[a] # NULL
          PROVE  a = b
      <4>1. a # th /\ b # th
        BY <2>5, <3>3
      <4>2. task[a] = task[b] /\ task[a] # NULL
        BY <2>5, <3>3, <4>1
      <4> QED BY <1>1, <4>2, ZenonT(30) DEF Hands
    <3> QED BY <3>1, <3>2, <3>3, ZenonT(30) DEF Hands
  <2>9. Exits'
    BY <1>1, <1>2, <1>6, <2>3, <2>4, ZenonT(30) DEF Exits
  <2>10. ExitsCounted'
    <3>1. th \notin Exited /\ Exited \subseteq Thread
      BY <1>1, SMTT(30) DEF Exited
    <3>2. Cardinality(Exited') = Cardinality(Exited) + 1
      BY <2>2, <3>1, ThreadsFinite, FS_AddElement, ZenonT(30)
    <3>3. Cardinality(Exited) = exits /\ exits \in Nat
      BY <1>1, <2>4 DEF ExitsCounted, PoolTyped
    <3> QED BY <1>1, <1>6, <2>4, <3>2, <3>3 DEF ExitsCounted
  <2> QED BY <2>2, <2>6, <2>7, <2>8, <2>9, <2>10, ZenonT(30) DEF PoolInv
<1> QED BY <1>5, <1>6, ZenonT(30) DEF Run

\* A thread puts the task it has run among those done.
LEMMA FinishKeeps ==
    ASSUME PoolInv, NEW th \in Thread, Finish(th)
    PROVE  PoolInv'
<1> DEFINE t == task[th]
<1>1. /\ PoolTyped /\ Lists /\ Apart /\ Hands /\ Exits /\ ExitsCounted
      /\ Counted /\ NoSleepOverQueue
      /\ pc[th] = "append" /\ next' = Linked(done, t) /\ done' = Added(done, t)
      /\ task' = [task EXCEPT ![th] = NULL] /\ pc' = [pc EXCEPT ![th] = "notify"]
      /\ UNCHANGED <<active, queue, waiting, asleep, main, chain, lock, exits>>
  BY DEF PoolInv, Finish, Goto, mainvars
<1>2. /\ pc \in [Thread -> {"lock", "cond", "run", "append", "notify", "exited"}]
      /\ task \in [Thread -> AnyTask \cup {NULL}]
  BY <1>1, ZenonT(30) DEF PoolTyped, AnyOrNull
<1>3. t \in AnyTask /\ t # Exit /\ t # NULL /\ t \in Held
  BY <1>1, <1>2, ZenonT(30) DEF Hands, Held
<1>4. t \notin Range(Queued) \cup Range(Done) \cup Range(Rest)
  BY <1>1, <1>3, ZenonT(30) DEF Apart
<1>5. /\ Queued' = Queued /\ Rest' = Rest
      /\ IsList(done.first, Done)' /\ done'.last = LastOf(Done')
      /\ IsList(queue.first, Queued)' /\ IsList(chain, Rest)'
      /\ Range(Done') = Range(Done) \cup {t}
  BY <1>1, <1>3, <1>4, FinishLists, ZenonT(30)
<1>6. Held' = Held \ {t}
  BY <1>1, <1>2, HandChanges, ZenonT(30) DEF Hands
<1>7. /\ pc'[th] = "notify" /\ \A a \in Thread : a # th => pc'[a] = pc[a]
      /\ task'[th] = NULL /\ \A a \in Thread : a # th => task'[a] = task[a]
  BY <1>1, <1>2, ZenonT(30)
<1>8. Expecting' = Expecting /\ Exited' = Exited /\ Woken' = Woken
  <2>1. Expecting' = Expecting /\ Exited' = Exited
    BY <1>1, <1>7, ZenonT(30) DEF Expecting, Exited
  <2> QED BY <1>1, <2>1 DEF Woken
<1>9. PoolTyped'
  <2>1. next' \in [AnyTask -> AnyOrNull]
    BY <1>1, <1>3 DEF PoolTyped, Linked, AnyOrNull
  <2>2. done' \in [first : AnyOrNull, last : AnyOrNull]
    BY <1>1, <1>3, ZenonT(30) DEF PoolTyped, Added, AnyOrNull
  <2>3. task' \in [Thread -> AnyOrNull]
    BY <1>1, <1>2, ZenonT(30) DEF AnyOrNull
  <2>4. pc' \in [Thread -> {"lock", "cond", "run", "append", "notify", "exited"}]
    BY <1>1, <1>2, ZenonT(30)
  <2> QED BY <1>1, <1>8, <2>1, <2>2, <2>3, <2>4, ZenonT(30) DEF PoolTyped
<1> HIDE DEF t
<1>10. Lists'
  BY <1>1, <1>5, ZenonT(30) DEF Lists
<1>11. Apart'
  <2>1. t \in Held /\ t \notin Range(Queued) /\ t \notin Range(Done) /\ t \notin Range(Rest)
    BY <1>3, <1>4, ZenonT(30)
  <2>2. /\ Range(Queued') = Range(Queued) /\ Range(Rest') = Range(Rest)
        /\ active' = active
    BY <1>1, <1>5
  <2>3. /\ Range(Queued) \cap (Range(Done) \cup Range(Rest) \cup Held) = {}
        /\ Range(Done) \cap (Range(Rest) \cup Held) = {}
        /\ Range(Rest) \cap Held = {}
        /\ \A x \in Task : active[x] <=>
              x \in Range(Queued) \cup Range(Done) \cup Range(Rest) \cup Held
    BY <1>1 DEF Apart
  <2>4. /\ Range(Queued) \cap (Range(Done') \cup Range(Rest) \cup Held') = {}
        /\ Range(Done') \cap (Range(Rest) \cup Held') = {}
        /\ Range(Rest) \cap Held' = {}
    BY <1>5, <1>6, <2>1, <2>3
  <2>5. \A x \in Task : active'[x] <=>
           x \in Range(Queued) \cup Range(Done') \cup Range(Rest) \cup Held'
    BY <1>5, <1>6, <2>1, <2>2, <2>3
  <2> QED BY <2>2, <2>4, <2>5, ZenonT(30) DEF Apart
<1>12. Hands'
  BY <1>1, <1>7 DEF Hands
<1>13. Exits' /\ ExitsCounted' /\ Counted'
  <2>1. Exits'
    BY <1>1, <1>3, <1>5, <1>6, ZenonT(30) DEF Exits
  <2> QED BY <1>1, <1>5, <1>8, <2>1, ZenonT(30) DEF ExitsCounted, Counted
<1>14. NoSleepOverQueue'
  BY <1>1, <1>5, <1>8, ZenonT(30) DEF NoSleepOverQueue
<1> QED BY <1>9, <1>10, <1>11, <1>12, <1>13, <1>14 DEF PoolInv

\* It notifies the main thread.
LEMMA NotifyKeeps ==
    ASSUME PoolInv, NEW th \in Thread, Notify(th)
    PROVE  PoolInv'
<1>1. /\ PoolTyped /\ Lists /\ Apart /\ Hands /\ Exits /\ ExitsCounted
      /\ Counted /\ NoSleepOverQueue
      /\ pc[th] = "notify" /\ pc' = [pc EXCEPT ![th] = "lock"]
      /\ UNCHANGED <<next, queue, waiting, asleep, active, done, task, main,
                     chain, lock, exits>>
  BY SMTT(30) DEF PoolInv, Notify, Goto, pool, mainvars
<1>2. /\ Queued' = Queued /\ Done' = Done /\ Rest' = Rest /\ Held' = Held
      /\ Lists' /\ Apart'
  <2>1. /\ Queued' = Queued /\ Done' = Done /\ Rest' = Rest /\ Held' = Held
        /\ IsList(queue.first, Queued)' /\ queue'.last = LastOf(Queued')
        /\ IsList(done.first, Done)' /\ done'.last = LastOf(Done')
        /\ IsList(chain, Rest)' /\ Apart'
    BY <1>1, QuietKeeps, ZenonT(30)
  <2> QED BY <1>1, <2>1, ZenonT(30) DEF Lists
<1>3. /\ pc \in [Thread -> {"lock", "cond", "run", "append", "notify", "exited"}]
      /\ pc'[th] = "lock" /\ \A a \in Thread : a # th => pc'[a] = pc[a]
  BY <1>1 DEF PoolTyped
<1>4. Expecting' = Expecting /\ Exited' = Exited /\ Woken' = Woken
  <2>1. Expecting' = Expecting /\ Exited' = Exited
    BY <1>1, <1>3, ZenonT(30) DEF Expecting, Exited
  <2> QED BY <1>1, <2>1 DEF Woken
<1>5. PoolTyped'
  <2>1. pc' \in [Thread -> {"lock", "cond", "run", "append", "notify", "exited"}]
    BY <1>1, <1>3
  <2> QED BY <1>1, <1>4, <2>1, ZenonT(30) DEF PoolTyped
<1>6. Hands'
  BY <1>1, <1>3, ZenonT(30) DEF Hands
<1>7. Exits' /\ ExitsCounted' /\ Counted'
  BY <1>1, <1>2, <1>4, ZenonT(30) DEF Exits, ExitsCounted, Counted
<1>8. NoSleepOverQueue'
  BY <1>1, <1>2, <1>4, ZenonT(30) DEF NoSleepOverQueue
<1> QED BY <1>2, <1>5, <1>6, <1>7, <1>8 DEF PoolInv

\* A new pool: the lists are empty, and no thread has done anything.
LEMMA PoolInit == Init => PoolInv
<1> SUFFICES ASSUME Init PROVE PoolInv
  OBVIOUS
<1>1. /\ Expecting = {} /\ Exited = {} /\ Held = {}
      /\ queue.first = NULL /\ done.first = NULL /\ chain = NULL
  BY TasksFinite, ZenonT(30) DEF Init, Expecting, Exited, Held, EmptyList
<1>2. Queued = <<>> /\ Done = <<>> /\ Rest = <<>>
  BY <1>1, EmptyLists, ZenonT(30) DEF Queued, Done, Rest
<1>3. PoolTyped
  <2>1. /\ EmptyList \in [first : AnyOrNull, last : AnyOrNull] /\ NULL \in AnyOrNull
    BY DEF EmptyList, AnyOrNull
  <2>2. /\ next \in [AnyTask -> AnyOrNull] /\ active \in [AnyTask -> BOOLEAN]
        /\ task \in [Thread -> AnyOrNull]
        /\ pc \in [Thread -> {"lock", "cond", "run", "append", "notify", "exited"}]
    BY <2>1 DEF Init
  <2>3. waiting \in Int /\ exits \in Nat /\ main = "loop" /\ asleep \subseteq Expecting
    BY DEF Init
  <2>4. queue = EmptyList /\ done = EmptyList /\ chain = NULL /\ lock \in BOOLEAN
    BY ZenonT(30) DEF Init
  <2> QED BY <2>1, <2>2, <2>3, <2>4 DEF PoolTyped
<1>4. /\ Chained(next, NULL, <<>>) /\ IsInjective(<<>>) /\ Range(<<>>) = {}
      /\ LastOf(<<>>) = NULL /\ <<>> \in Seq(AnyTask) /\ Len(<<>>) = 0
  BY EmptyLists
<1>5. Lists
  BY <1>1, <1>2, <1>4, ZenonT(30) DEF Init, Lists, IsList, EmptyList
<1>6. Apart
  <2>1. \A t \in Task : ~active[t]
    BY DEF Init, AnyTask
  <2> QED BY <1>1, <1>2, <1>4, <2>1, ZenonT(30) DEF Apart
<1>7. Hands
  BY DEF Init, Hands
<1>8. Exits
  BY <1>1, <1>2, <1>4, ZenonT(30) DEF Init, Exits
<1>9. ExitsCounted /\ Counted
  BY <1>1, <1>2, <1>4, FS_EmptySet, PoolAssumption DEF Init, ExitsCounted, Counted
<1>10. NoSleepOverQueue
  BY DEF Init, NoSleepOverQueue
<1> QED BY <1>3, <1>5, <1>6, <1>7, <1>8, <1>9, <1>10 DEF PoolInv

\* Each step keeps the invariant.
LEMMA PoolNext == PoolInv /\ [Next]_vars => PoolInv'
<1> SUFFICES ASSUME PoolInv, [Next]_vars PROVE PoolInv'
  OBVIOUS
<1>1. ASSUME NEW t \in Task, Post(t) PROVE PoolInv'
  BY <1>1, PostKeeps
<1>2. CASE MainLoop
  BY <1>2, TakeKeeps, CompleteKeeps, MainKeeps DEF MainLoop
<1>3. CASE ExitWorker
  BY <1>3, MainKeeps
<1>4. CASE Destroy
  BY <1>4, DestroyPostKeeps, MainKeeps DEF Destroy
<1>5. ASSUME NEW th \in Thread, Lock(th) \/ Wake(th) PROVE PoolInv'
  <2>1. /\ pc[th] \in {"lock", "cond"} /\ th \notin asleep /\ WaitOrTake(th)
        /\ waiting' = IF pc[th] = "lock" THEN waiting - 1 ELSE waiting
        /\ UNCHANGED <<next, active, done, mainvars>>
    BY <1>5, ZenonT(30) DEF Lock, Wake, PoolInv, PoolTyped, Expecting
  <2>2. CASE queue.first = NULL
    <3>1. /\ asleep' = asleep \cup {th} /\ pc' = [pc EXCEPT ![th] = "cond"]
          /\ UNCHANGED <<queue, task>>
      BY <2>1, <2>2 DEF WaitOrTake, Goto
    <3> QED BY <2>1, <2>2, <3>1, WaitsForTask, ZenonT(30)
  <2>3. CASE queue.first # NULL
    <3>1. /\ task' = [task EXCEPT ![th] = queue.first]
          /\ queue' = IF next[queue.first] = NULL
                      THEN EmptyList
                      ELSE [queue EXCEPT !.first = next[queue.first]]
          /\ pc' = [pc EXCEPT ![th] = "run"] /\ UNCHANGED asleep
      BY <2>1, <2>3 DEF WaitOrTake, Goto
    <3> QED BY <2>1, <2>3, <3>1, TakesTask, ZenonT(30)
  <2> QED BY <2>2, <2>3
<1>6. ASSUME NEW th \in Thread, Cycle(th) PROVE PoolInv'
  BY <1>5, <1>6, RunKeeps, FinishKeeps, NotifyKeeps DEF Cycle
<1>7. ASSUME NEW th \in Thread, Spurious(th) PROVE PoolInv'
  BY <1>7, SpuriousKeeps
<1>8. CASE UNCHANGED vars
  <2>1. UNCHANGED <<next, queue, waiting, asleep, active, done, task, main, pc,
                    chain, lock, exits>>
    BY <1>8, SMTT(30) DEF vars
  <2>2. /\ Queued' = Queued /\ Done' = Done /\ Rest' = Rest /\ Held' = Held
        /\ IsList(queue.first, Queued)' /\ queue'.last = LastOf(Queued')
        /\ IsList(done.first, Done)' /\ done'.last = LastOf(Done')
        /\ IsList(chain, Rest)' /\ Apart' /\ Counted'
        /\ Expecting' = Expecting /\ Exited' = Exited
    BY <2>1, QuietKeeps, ZenonT(30)
  <2>3. PoolTyped'
    BY <2>1, <2>2, ZenonT(30) DEF PoolInv, PoolTyped
  <2>4. Lists' /\ Hands'
    BY <2>1, <2>2, ZenonT(30) DEF PoolInv, Lists, Hands
  <2>5. Exits' /\ ExitsCounted'
    BY <2>1, <2>2, ZenonT(30) DEF PoolInv, Exits, ExitsCounted
  <2>6. NoSleepOverQueue'
    BY <2>1, <2>2, ZenonT(30) DEF PoolInv, NoSleepOverQueue, Woken
  <2> QED BY <2>2, <2>3, <2>4, <2>5, <2>6, ZenonT(30) DEF PoolInv
<1> QED BY <1>1, <1>2, <1>3, <1>4, <1>6, <1>7, <1>8 DEF Next

\* What holds in every state of the pool, for any numbers of threads and tasks.
THEOREM PoolInvariant == Spec => []PoolInv
BY PoolInit, PoolNext, PTL DEF Spec

\* ngx_thread_pool.c: the lists that share task->next end where they should,
\* and a task is in one of them, or in the hands of one thread, from its post
\* until its completion handler, and nowhere else.
THEOREM PoolOnePlace == Spec => []OnePlace
<1>1. PoolInv => OnePlace
  <2> SUFFICES ASSUME PoolInv PROVE OnePlace
    BY SMTT(30)
  <2>1. /\ Chained(next, queue.first, Queued) /\ Chained(next, done.first, Done)
        /\ Chained(next, chain, Rest)
        /\ queue.last = LastOf(Queued) /\ done.last = LastOf(Done)
    BY ZenonT(30) DEF PoolInv, Lists, IsList
  <2>2. ASSUME NEW t \in Task
        PROVE  IF active[t] THEN \E h \in Homes(t) : Homes(t) = {h} ELSE Homes(t) = {}
    <3> DEFINE H == {x \in Thread : task[x] = t}
               L == {x \in {"queue", "done", "rest"} :
                        t \in Range(CASE x = "queue" -> Queued
                                      [] x = "done" -> Done
                                      [] x = "rest" -> Rest)}
    <3>1. Homes(t) = {<<"thread", th>> : th \in H} \cup {<<"list", l>> : l \in L}
      BY DEF Homes
    <3>2. /\ "queue" \in L <=> t \in Range(Queued)
          /\ "done" \in L <=> t \in Range(Done)
          /\ "rest" \in L <=> t \in Range(Rest)
          /\ L \subseteq {"queue", "done", "rest"}
      OBVIOUS
    <3>3. t \in Held <=> H # {}
      BY DEF Held, AnyTask
    <3>4. \A a, b \in H : a = b
      BY TasksFinite, ZenonT(30) DEF PoolInv, Hands, AnyTask
    <3> HIDE DEF H, L
    <3>5. /\ active[t] <=> t \in Range(Queued) \cup Range(Done) \cup Range(Rest) \cup Held
          /\ t \in Range(Queued) => t \notin Range(Done) \cup Range(Rest) \cup Held
          /\ t \in Range(Done) => t \notin Range(Rest) \cup Held
          /\ t \in Range(Rest) => t \notin Held
      BY ZenonT(30) DEF PoolInv, Apart
    <3>6. CASE ~active[t]
      BY <3>1, <3>2, <3>3, <3>5, <3>6, ZenonT(30)
    <3>7. CASE t \in Held
      <4>1. L = {} /\ active[t]
        BY <3>2, <3>5, <3>7
      <4>2. PICK th : H = {th}
        BY <3>3, <3>4, <3>7
      <4>3. Homes(t) = {<<"thread", th>>}
        BY <3>1, <4>1, <4>2
      <4> QED BY <4>1, <4>3, SMTT(30)
    <3>8. CASE t \in Range(Queued) \cup Range(Done) \cup Range(Rest)
      <4>1. H = {} /\ active[t]
        BY <3>3, <3>5, <3>8, SMTT(30)
      <4>2. PICK l : L = {l}
        <5>1. CASE t \in Range(Queued)
          <6>1. L = {"queue"}
            BY <3>2, <3>5, <5>1, ZenonT(30)
          <6> QED BY <6>1
        <5>2. CASE t \in Range(Done)
          <6>1. L = {"done"}
            BY <3>2, <3>5, <5>2, ZenonT(30)
          <6> QED BY <6>1
        <5>3. CASE t \in Range(Rest)
          <6>1. L = {"rest"}
            BY <3>2, <3>5, <5>3, ZenonT(30)
          <6> QED BY <6>1
        <5> QED BY <3>8, <5>1, <5>2, <5>3, ZenonT(30)
      <4>3. Homes(t) = {<<"list", l>>}
        BY <3>1, <4>1, <4>2
      <4> QED BY <4>1, <4>3, SMTT(30)
    <3> QED BY <3>5, <3>6, <3>7, <3>8, ZenonT(30)
  <2> QED BY <2>1, <2>2, ZenonT(30) DEF OnePlace
<1> QED BY <1>1, PoolInvariant, PTL

\* tp->waiting, which decides whether the queue is full, is the length of the
\* queue less the threads that wait, and bounds the queue.
THEOREM PoolWaitingExact == Spec => []WaitingExact
<1>1. PoolInv => WaitingExact
  <2> SUFFICES ASSUME PoolInv PROVE WaitingExact
    OBVIOUS
  <2>1. /\ Expecting \subseteq Thread /\ Len(Queued) \in Nat /\ MAX_QUEUE \in Nat
        /\ Cardinality(Expecting) \in Nat
    BY QueueLength, ThreadsFinite, PoolAssumption DEF Expecting, PoolInv
  <2> QED BY <2>1 DEF PoolInv, Counted, WaitingExact
<1> QED BY <1>1, PoolInvariant, PTL

\* No thread sleeps on tp->cond over a task that no woken thread will take.
THEOREM PoolNoSleep == Spec => []NoSleepOverQueue
<1>1. PoolInv => NoSleepOverQueue
  BY DEF PoolInv
<1> QED BY <1>1, PoolInvariant, PTL

\* ngx_thread_pool_destroy: the mutex and the condition are destroyed when all
\* threads have left, and no task is in the queue.
THEOREM PoolDestroyedQuietly == Spec => []DestroyedQuietly
<1>1. PoolInv => DestroyedQuietly
  <2> SUFFICES ASSUME PoolInv, main = "destroyed"
               PROVE  (\A th \in Thread : pc[th] = "exited") /\ queue.first = NULL
    BY DEF DestroyedQuietly
  <2>1. exits = Cardinality(Thread) /\ Queued = <<>>
    BY DEF PoolInv, Exits
  <2>2. queue.first = NULL
    BY <2>1, QueueLength DEF PoolInv
  <2>3. Cardinality(Exited) = Cardinality(Thread) /\ Exited \subseteq Thread
    BY <2>1, ThreadsFinite DEF PoolInv, ExitsCounted, Exited
  <2>4. Exited = Thread
    BY <2>3, ThreadsFinite, FS_Subset
  <2> QED BY <2>2, <2>4 DEF Exited
<1> QED BY <1>1, PoolInvariant, PTL
-----------------------------------------------------------------------------
(* The pool as a task service *)

Running == {task[th] : th \in Thread} \ {NULL, Exit}

\* The tasks being run are those in the hands, the exit task aside; a thread
\* with an empty hand can take one more.
LEMMA RunningHeld ==
    ASSUME task \in [Thread -> AnyTask \cup {NULL}]
    PROVE  /\ Running = Held \ {Exit}
           /\ \A th \in Thread :
                 task[th] = NULL => Cardinality(Running) < Cardinality(Thread)
<1>1. Running = Held \ {Exit}
  BY TasksFinite DEF Running, Held
<1>2. ASSUME NEW th \in Thread, task[th] = NULL
      PROVE  Cardinality(Running) < Cardinality(Thread)
  <2> DEFINE B == {x \in Thread : task[x] \in Running}
             g == [x \in B |-> task[x]]
  <2>1. g \in Surjection(B, Running)
    BY DEF Surjection, Running
  <2>2. B \subseteq Thread \ {th}
    BY <1>2 DEF Running
  <2>3. /\ IsFiniteSet(Thread \ {th})
        /\ Cardinality(Thread \ {th}) = Cardinality(Thread) - 1
    BY ThreadsFinite, FS_RemoveElement
  <2> HIDE DEF B, g
  <2>4. IsFiniteSet(B) /\ Cardinality(B) <= Cardinality(Thread) - 1
    BY <2>2, <2>3, FS_Subset, ZenonT(30)
  <2>5. Cardinality(Running) <= Cardinality(B) /\ IsFiniteSet(Running)
    BY <2>1, <2>4, FS_Surjection, ZenonT(30)
  <2> QED BY <2>4, <2>5, ThreadsFinite, FS_CardinalityType, SMTT(30)
<1> QED BY <1>1, <1>2

\* The queue without the exit task.
LEMMA StrippedIs ==
    ASSUME PoolInv
    PROVE  /\ Exit \notin Range(Queued) => Stripped = Queued
           /\ Exit \in Range(Queued) => Queued # <<>> /\ Stripped = ButLast(Queued)
           /\ Service!Queued \subseteq Range(Queued)
           /\ Len(Stripped) \in Nat /\ Len(Stripped) <= Len(Queued)
<1>1. Queued \in Seq(AnyTask) /\ Exit # NULL
  BY PoolAssumption, ZenonT(30) DEF PoolInv, Lists, IsList
<1>2. Exit \in Range(Queued) <=> LastOf(Queued) = Exit
  BY <1>1, LastIn DEF PoolInv, Exits
<1>3. Exit \in Range(Queued) => Queued # <<>>
  BY EmptyLists
<1>4. Stripped = IF Exit \in Range(Queued) THEN ButLast(Queued) ELSE Queued
  BY <1>2 DEF Stripped
<1>5. Service!Queued = {Stripped[i] : i \in DOMAIN Stripped}
  BY DEF Service!Queued
<1>6. CASE Exit \in Range(Queued)
  <2>1. /\ Len(Queued) \in Nat \ {0} /\ Stripped = SubSeq(Queued, 1, Len(Queued) - 1)
    BY <1>1, <1>3, <1>4, <1>6 DEF ButLast
  <2>2. /\ Len(Stripped) = Len(Queued) - 1 /\ DOMAIN Stripped = 1 .. Len(Queued) - 1
        /\ \A i \in 1 .. Len(Queued) - 1 : Stripped[i] = Queued[i] /\ i \in DOMAIN Queued
    <3> DEFINE m == Len(Queued) - 1
    <3>1. m \in Nat /\ m <= Len(Queued) /\ Stripped = SubSeq(Queued, 1, m)
      BY <2>1
    <3> HIDE DEF m
    <3>2. Len(Stripped) = m /\ \A i \in 1 .. m : Stripped[i] = Queued[i]
      BY <1>1, <3>1
    <3>3. DOMAIN Stripped = 1 .. m /\ \A i \in 1 .. m : i \in DOMAIN Queued
      BY <1>1, <3>1
    <3> QED BY <3>2, <3>3 DEF m
  <2>3. Service!Queued \subseteq Range(Queued)
    BY <1>5, <2>2 DEF Range
  <2> QED BY <1>3, <1>4, <1>6, <2>1, <2>2, <2>3
<1>7. CASE Exit \notin Range(Queued)
  BY <1>1, <1>4, <1>5, <1>7 DEF Range
<1> QED BY <1>6, <1>7, SMTT(30)

\* The front of a sequence and its tail.
LEMMA FrontTail ==
    ASSUME NEW s \in Seq(AnyTask), Len(s) >= 2
    PROVE  /\ ButLast(s) # <<>> /\ Head(ButLast(s)) = Head(s)
           /\ ButLast(Tail(s)) = Tail(ButLast(s))
<1> DEFINE n == Len(s)
<1>1. n \in Nat /\ n >= 2
  OBVIOUS
<1>2. /\ ButLast(s) \in Seq(AnyTask) /\ Len(ButLast(s)) = n - 1
      /\ \A i \in 1 .. n - 1 : ButLast(s)[i] = s[i]
  BY <1>1 DEF ButLast
<1>3. /\ Tail(s) \in Seq(AnyTask) /\ Len(Tail(s)) = n - 1
      /\ \A i \in 1 .. n - 1 : Tail(s)[i] = s[i + 1]
  BY <1>1
<1> DEFINE a == ButLast(Tail(s))
           b == Tail(ButLast(s))
<1>4. /\ a \in Seq(AnyTask) /\ Len(a) = n - 2
      /\ \A i \in 1 .. n - 2 : a[i] = s[i + 1]
  BY <1>1, <1>3 DEF ButLast
<1>5. /\ b \in Seq(AnyTask) /\ Len(b) = n - 2
      /\ \A i \in 1 .. n - 2 : b[i] = s[i + 1]
  BY <1>1, <1>2
<1>6. ButLast(s) # <<>> /\ Head(ButLast(s)) = Head(s)
  BY <1>1, <1>2
<1> HIDE DEF a, b
<1>7. a = b
  BY <1>1, <1>4, <1>5, SMTT(30)
<1> QED BY <1>6, <1>7 DEF a, b

Finished == Range(Done) \cup Range(Rest)

\* The service counts as FiniteSets does.
LEMMA ServiceCardinality == \A S : Service!Cardinality(S) = Cardinality(S)
BY DEF Service!Cardinality, Cardinality, Service!IsFiniteSet, IsFiniteSet

\* A step that shows no change to the users of the service.
LEMMA ServiceSame ==
    ASSUME Stripped' = Stripped, Running' = Running, Finished' = Finished
    PROVE  UNCHANGED Service!avars
BY ZenonT(30) DEF Service!avars, Running, Finished

\* A post is a submission: the task is nowhere, and the queue has room.
LEMMA PostSubmits ==
    ASSUME PoolInv, NEW t \in Task, Post(t)
    PROVE  Service!Submit(t)
<1>1. /\ main \in {"loop", "handler"} /\ ~active[t] /\ ~Overflow
      /\ next' = Linked(queue, t) /\ queue' = Added(queue, t)
      /\ UNCHANGED <<done, task, chain>>
  BY DEF Post, Enqueue, mainvars
<1>2. /\ PoolTyped /\ Lists /\ Apart /\ Exits /\ Counted /\ t \in AnyTask /\ t # Exit
  BY PoolAssumption DEF PoolInv, AnyTask
<1>3. t \notin Range(Queued) \cup Range(Done) \cup Range(Rest) \cup Held
  BY <1>1, <1>2, ZenonT(30) DEF Apart
<1>4. /\ Queued' = Append(Queued, t) /\ Done' = Done /\ Rest' = Rest
      /\ LastOf(Queued') = t
  BY <1>1, <1>2, <1>3, EnqueueLists, ZenonT(30)
<1>5. Stripped = Queued /\ Stripped' = Append(Stripped, t)
  <2>1. Stripped = Queued
    BY <1>1, <1>2, StrippedIs, ZenonT(30) DEF Exits
  <2> QED BY <1>2, <1>4, <2>1 DEF Stripped
<1>6. t \notin Service!Queued
  BY <1>3, StrippedIs, SMTT(30)
<1>7. t \notin Running /\ Running' = Running
  <2>1. Running = Held \ {Exit}
    BY <1>2, RunningHeld, ZenonT(30) DEF PoolTyped, AnyOrNull
  <2> QED BY <1>1, <1>3, <2>1, ZenonT(30) DEF Running
<1>8. Len(Stripped) < MAX_QUEUE + Cardinality(Thread)
  <2>1. /\ Expecting \subseteq Thread /\ Len(Queued) \in Nat /\ MAX_QUEUE \in Nat
        /\ Cardinality(Expecting) \in Nat /\ Cardinality(Thread) \in Nat
        /\ Cardinality(Expecting) <= Cardinality(Thread)
    BY <1>2, QueueLength, ThreadsFinite, FS_Subset, PoolAssumption, ZenonT(30) DEF Expecting
  <2> QED BY <1>1, <1>2, <1>5, <2>1, SMTT(30) DEF Counted, Overflow
<1>9. t \notin Finished /\ Finished' = Finished
  BY <1>3, <1>4 DEF Finished
<1> QED BY <1>5, <1>6, <1>7, <1>8, <1>9, ZenonT(30) DEF Service!Submit, Running, Finished

\* A thread takes the first task of the queue: it starts, unless it is the exit
\* task, of which the service knows nothing.
LEMMA TakeStarts ==
    ASSUME PoolInv, NEW th \in Thread, pc[th] \in {"lock", "cond"},
           queue.first # NULL, task' = [task EXCEPT ![th] = queue.first],
           queue' = IF next[queue.first] = NULL
                    THEN EmptyList
                    ELSE [queue EXCEPT !.first = next[queue.first]],
           UNCHANGED <<next, done, chain>>
    PROVE  Service!Start \/ UNCHANGED Service!avars
<1> DEFINE f == queue.first
<1>1. PoolTyped /\ Lists /\ Apart /\ Hands /\ Exits
  BY DEF PoolInv
<1>2. /\ Queued # <<>> /\ f = Head(Queued) /\ f \in AnyTask /\ f \in Range(Queued)
      /\ Queued' = Tail(Queued) /\ Done' = Done /\ Rest' = Rest
      /\ Range(Queued') = Range(Queued) \ {f}
      /\ Len(Queued') = Len(Queued) - 1
      /\ LastOf(Queued') = IF next[f] = NULL THEN NULL ELSE LastOf(Queued)
      /\ Len(Queued) \in Nat /\ Len(Queued') \in Nat
      /\ IsList(queue.first, Queued)'
  BY <1>1, DequeueLists
<1>3. /\ task[th] = NULL /\ task \in [Thread -> AnyTask \cup {NULL}]
      /\ task' \in [Thread -> AnyTask \cup {NULL}]
  BY <1>1, <1>2 DEF Hands, PoolTyped, AnyOrNull
<1>4. Held' = Held \cup {f}
  BY <1>1, <1>2, <1>3, HandChanges, ZenonT(30) DEF Hands
<1>5. /\ Running = Held \ {Exit} /\ Running' = Held' \ {Exit}
      /\ Cardinality(Running) < Cardinality(Thread)
  <2>1. Running' = Held' \ {Exit}
    BY <1>3, TasksFinite DEF Running, Held
  <2> QED BY <1>3, <2>1, RunningHeld
<1>6. Finished' = Finished
  BY <1>2 DEF Finished
<1>7. /\ Exit # NULL /\ Queued \in Seq(AnyTask) /\ Queued' \in Seq(AnyTask)
      /\ Queued' = <<>> => LastOf(Queued') = NULL
      /\ Queued' # <<>> => LastOf(Queued') \in Range(Queued') /\ LastOf(Queued') # NULL
  <2>1. Queued \in Seq(AnyTask) /\ Queued' \in Seq(AnyTask)
    BY <1>1, <1>2 DEF Lists, IsList
  <2> QED BY <2>1, LastIn, PoolAssumption
<1> HIDE DEF f
<1>8. CASE f = Exit
  <2>1. Exit \in Range(Queued) /\ LastOf(Queued) = Exit /\ Exit \notin Range(Queued')
    BY <1>1, <1>2, <1>8 DEF Exits
  <2>2. Queued' = <<>>
    BY <1>2, <1>7, <2>1
  <2>3. Len(Queued) = 1
    <3>1. Len(Queued') = 0
      BY <2>2
    <3>2. Len(Queued') = Len(Queued) - 1 /\ Len(Queued) \in Nat
      BY <1>2
    <3> QED BY <3>1, <3>2
  <2>4. Stripped = <<>> /\ Stripped' = <<>>
    <3>1. Stripped = ButLast(Queued)
      BY <2>1, StrippedIs
    <3>2. ButLast(Queued) = <<>>
      BY <1>7, <2>3 DEF ButLast
    <3>3. Stripped' = Queued'
      BY <1>7, <2>2 DEF Stripped
    <3> QED BY <2>2, <3>1, <3>2, <3>3
  <2>5. Running' = Running
    BY <1>4, <1>5, <1>8
  <2> QED BY <1>6, <2>4, <2>5, ServiceSame
<1>9. CASE f # Exit
  <2>1. /\ Stripped # <<>> /\ Head(Stripped) = f /\ Stripped' = Tail(Stripped)
    <3>1. CASE Exit \in Range(Queued)
      <4>1. Exit \in Range(Queued') /\ LastOf(Queued) = Exit
        BY <1>1, <1>2, <1>9, <3>1 DEF Exits
      <4>2. Queued' # <<>>
        BY <4>1, EmptyLists
      <4>3. LastOf(Queued') = Exit /\ Len(Queued) >= 2
        BY <1>2, <1>7, <4>1, <4>2
      <4>4. Stripped = ButLast(Queued) /\ Stripped' = ButLast(Tail(Queued))
        BY <1>2, <3>1, <4>3, StrippedIs DEF Stripped
      <4> QED BY <1>2, <1>7, <4>3, <4>4, FrontTail, SMTT(30)
    <3>2. CASE Exit \notin Range(Queued)
      <4>1. LastOf(Queued') # Exit
        BY <1>2, <1>7, <3>2
      <4>2. Stripped = Queued /\ Stripped' = Tail(Queued)
        BY <1>2, <3>2, <4>1, StrippedIs DEF Stripped
      <4> QED BY <1>2, <4>2
    <3> QED BY <3>1, <3>2
  <2>2. Running' = Running \cup {f}
    BY <1>4, <1>5, <1>9
  <2>3. Service!Start
    <3>1. Cardinality({task[x] : x \in Thread} \ {NULL, Exit}) < Cardinality(Thread)
      BY <1>5 DEF Running
    <3>2. ({task[x] : x \in Thread} \ {NULL, Exit})'
             = ({task[x] : x \in Thread} \ {NULL, Exit}) \cup {Head(Stripped)}
      BY <2>1, <2>2, ZenonT(30) DEF Running
    <3>3. UNCHANGED (Range(Done) \cup Range(Rest))
      BY <1>6 DEF Finished
    <3> QED BY <2>1, <3>1, <3>2, <3>3, ServiceCardinality, ZenonT(30) DEF Service!Start
  <2> QED BY <2>3
<1> QED BY <1>8, <1>9

\* A task that was run is finished.
LEMMA FinishFinishes ==
    ASSUME PoolInv, NEW th \in Thread, Finish(th)
    PROVE  \E t \in Task : Service!Finish(t)
<1> PICK u \in AnyTask \cup {NULL} : u = task[th]
  BY ZenonT(30) DEF PoolInv, PoolTyped, AnyOrNull
<1>1. /\ PoolTyped /\ Lists /\ Apart /\ Hands
      /\ pc[th] = "append" /\ next' = Linked(done, u) /\ done' = Added(done, u)
      /\ task' = [task EXCEPT ![th] = NULL]
      /\ UNCHANGED <<queue, chain>>
  BY ZenonT(30) DEF PoolInv, Finish, mainvars
<1>2. /\ task \in [Thread -> AnyTask \cup {NULL}]
      /\ task' \in [Thread -> AnyTask \cup {NULL}]
  BY <1>1, ZenonT(30) DEF PoolTyped, AnyOrNull
<1>3. u \in Task /\ u \in AnyTask /\ u # Exit /\ u \in Held
  BY <1>1, <1>2, ZenonT(30) DEF Hands, Held, AnyTask
<1>4. u \notin Range(Queued) \cup Range(Done) \cup Range(Rest)
  BY <1>1, <1>3, ZenonT(30) DEF Apart
<1>5. Queued' = Queued /\ Rest' = Rest /\ Range(Done') = Range(Done) \cup {u}
  BY <1>1, <1>3, <1>4, FinishLists, ZenonT(30)
<1>6. Held' = Held \ {u}
  BY <1>1, <1>2, HandChanges, ZenonT(30) DEF Hands
<1>7. Running = Held \ {Exit} /\ Running' = Held' \ {Exit}
  BY <1>2, RunningHeld, TasksFinite DEF Running, Held
<1>8. Stripped' = Stripped
  BY <1>5 DEF Stripped
<1>9. /\ u \in Running /\ Running' = Running \ {u}
      /\ Finished' = Finished \cup {u}
  BY <1>3, <1>5, <1>6, <1>7, ZenonT(30) DEF Finished
<1>10. Service!Finish(u)
  BY <1>8, <1>9, ZenonT(30) DEF Service!Finish, Running, Finished
<1> QED BY <1>3, <1>10

\* The completion of a task is delivered.
LEMMA CompleteDelivers ==
    ASSUME PoolInv, Complete
    PROVE  \E t \in Task : Service!Deliver(t)
<1>1. /\ Lists /\ Apart /\ Exits /\ chain # NULL /\ chain' = next[chain]
      /\ UNCHANGED <<next, queue, done, task>>
  BY DEF PoolInv, Complete, pool
<1>2. /\ Queued' = Queued /\ Done' = Done
      /\ chain \in AnyTask /\ chain \in Range(Rest)
      /\ Range(Rest') = Range(Rest) \ {chain}
  BY <1>1, CompleteLists, SMTT(30)
<1>3. chain \in Task /\ chain \notin Range(Done)
  BY <1>1, <1>2, ZenonT(30) DEF Exits, Apart, AnyTask
<1>4. Stripped' = Stripped /\ Running' = Running
  BY <1>1, <1>2, ZenonT(30) DEF Stripped, Running
<1>5. chain \in Finished /\ Finished' = Finished \ {chain}
  BY <1>2, <1>3, SMTT(30) DEF Finished
<1>6. Service!Deliver(chain)
  BY <1>4, <1>5, ZenonT(30) DEF Service!Deliver, Running, Finished
<1> QED BY <1>3, <1>6

\* A new pool is a new service.
LEMMA ServiceInit == Init => Service!Init
<1> SUFFICES ASSUME Init PROVE Service!Init
  OBVIOUS
<1>1. queue.first = NULL /\ done.first = NULL /\ chain = NULL
  BY DEF Init, EmptyList
<1>2. Queued = <<>> /\ Done = <<>> /\ Rest = <<>>
  BY <1>1, EmptyLists, ZenonT(30) DEF Queued, Done, Rest
<1>3. Stripped = <<>>
  BY <1>2, PoolAssumption DEF Stripped, LastOf
<1>4. {task[th] : th \in Thread} \ {NULL, Exit} = {}
  BY DEF Init
<1>5. Range(Done) \cup Range(Rest) = {}
  BY <1>2, EmptyLists
<1> QED BY <1>3, <1>4, <1>5, ZenonT(30) DEF Service!Init

\* The steps that show nothing to the users of the service.
LEMMA QuietSame ==
    ASSUME PoolInv,
           \/ HandlerEnds \/ ExitWorker \/ Destroy \/ Take \/ UNCHANGED vars
           \/ \E th \in Thread : Run(th) \/ Notify(th) \/ Spurious(th)
    PROVE  UNCHANGED Service!avars
<1>1. CASE UNCHANGED <<next, queue, done, chain, task>>
  <2>1. Queued' = Queued /\ Done' = Done /\ Rest' = Rest
    BY <1>1, SameLists, SMTT(30)
  <2>2. Stripped' = Stripped /\ Running' = Running /\ Finished' = Finished
    BY <1>1, <2>1, ZenonT(30) DEF Stripped, Running, Finished
  <2> QED BY <2>2, ServiceSame
<1>2. CASE HandlerEnds \/ ExitWorker \/ DestroyWait \/ DestroyEnds \/ UNCHANGED vars
  BY <1>1, <1>2, ZenonT(30) DEF HandlerEnds, ExitWorker, DestroyWait, DestroyEnds, vars, pool
<1>3. ASSUME NEW th \in Thread, Notify(th) \/ Spurious(th)
      PROVE  UNCHANGED Service!avars
  BY <1>1, <1>3, ZenonT(30) DEF Notify, Spurious, pool, mainvars
<1>4. ASSUME NEW th \in Thread, Run(th) PROVE UNCHANGED Service!avars
  <2>1. UNCHANGED <<next, queue, done, chain>> /\ pc[th] = "run"
    BY <1>4, ZenonT(30) DEF Run, pool
  <2>2. CASE task' = task
    BY <1>1, <2>1, <2>2
  <2>3. CASE task[th] = Exit /\ task' = [task EXCEPT ![th] = NULL]
    <3>1. Queued' = Queued /\ Done' = Done /\ Rest' = Rest
      BY <2>1, SameLists
    <3>2. Running' = Running
      <4>1. task'[th] = NULL /\ \A a \in Thread : a # th => task'[a] = task[a]
        BY <2>3 DEF PoolInv, PoolTyped
      <4> QED BY <2>3, <4>1, ZenonT(30) DEF Running
    <3>3. Stripped' = Stripped /\ Finished' = Finished
      BY <3>1, SMTT(30) DEF Stripped, Finished
    <3> QED BY <3>2, <3>3, ServiceSame
  <2> QED BY <1>4, <2>2, <2>3, ZenonT(30) DEF Run
<1>5. CASE Take
  <2>1. /\ Lists /\ main = "loop" /\ chain' = done.first /\ done' = EmptyList
        /\ UNCHANGED <<next, queue, task>>
    BY <1>5 DEF PoolInv, Take, pool
  <2>2. Queued' = Queued /\ Rest' = Done /\ Range(Done') = {}
    BY <2>1, TakeLists, ZenonT(30)
  <2>3. Range(Rest) = {}
    <3>1. chain = NULL
      BY <2>1, ZenonT(30) DEF Lists
    <3> QED BY <3>1, EmptyLists, SMTT(30) DEF Rest
  <2>4. Stripped' = Stripped /\ Running' = Running /\ Finished' = Finished
    BY <2>1, <2>2, <2>3, ZenonT(30) DEF Stripped, Running, Finished
  <2> QED BY <2>4, ServiceSame
<1>6. CASE DestroyPost
  <2>1. main = "destroy" /\ UNCHANGED <<done, task, chain>>
    BY <1>6 DEF DestroyPost
  <2>2. CASE UNCHANGED pool
    BY <1>1, <2>1, <2>2 DEF pool
  <2>3. CASE Enqueue(Exit)
    <3>1. /\ PoolTyped /\ Lists /\ Apart /\ Exit \in AnyTask
          /\ next' = Linked(queue, Exit) /\ queue' = Added(queue, Exit)
          /\ Exit \notin Range(Queued) \cup Range(Done) \cup Range(Rest)
      BY <2>1, <2>3, ZenonT(30) DEF PoolInv, Enqueue, Exits, AnyTask
    <3>2. /\ Queued' = Append(Queued, Exit) /\ Done' = Done /\ Rest' = Rest
          /\ LastOf(Queued') = Exit
      BY <2>1, <3>1, EnqueueLists, ZenonT(30)
    <3>3. Queued \in Seq(AnyTask)
      BY <3>1, ZenonT(30) DEF Lists, IsList
    <3>4. ButLast(Append(Queued, Exit)) = Queued
      BY <3>1, <3>3, SMTT(30) DEF ButLast
    <3>5. Stripped = Queued /\ Stripped' = Queued
      BY <3>1, <3>2, <3>4, StrippedIs, ZenonT(30) DEF Stripped
    <3>6. Running' = Running /\ Finished' = Finished
      BY <2>1, <3>2, ZenonT(30) DEF Running, Finished
    <3> QED BY <3>5, <3>6, ServiceSame, SMTT(30)
  <2> QED BY <1>6, <2>2, <2>3 DEF DestroyPost
<1> QED BY <1>2, <1>3, <1>4, <1>5, <1>6 DEF Destroy

\* ngx_thread_pool.c is a task service: the tasks posted start in the order of
\* their posts, each is run once by one of the threads, and its completion is
\* delivered once; the queue is bounded.
THEOREM PoolImplementsService == Spec => ImplementsService
<1>1. PoolInv /\ [Next]_vars => [Service!Next]_(Service!avars)
  <2> SUFFICES ASSUME PoolInv, [Next]_vars
               PROVE  Service!Next \/ UNCHANGED Service!avars
    OBVIOUS
  <2>1. ASSUME NEW t \in Task, Post(t) PROVE Service!Next
    BY <2>1, PostSubmits DEF Service!Next
  <2>2. CASE MainLoop
    BY <2>2, CompleteDelivers, QuietSame DEF MainLoop, Service!Next
  <2>3. CASE ExitWorker \/ Destroy \/ UNCHANGED vars
    BY <2>3, QuietSame
  <2>4. ASSUME NEW th \in Thread, Lock(th) \/ Wake(th)
        PROVE  Service!Next \/ UNCHANGED Service!avars
    <3>1. /\ pc[th] \in {"lock", "cond"} /\ WaitOrTake(th)
          /\ UNCHANGED <<next, done, chain>>
      BY <2>4, ZenonT(30) DEF Lock, Wake, mainvars
    <3>2. CASE queue.first = NULL
      <4>1. UNCHANGED <<next, queue, done, chain, task>>
        BY <3>1, <3>2 DEF WaitOrTake
      <4>2. Queued' = Queued /\ Done' = Done /\ Rest' = Rest
        BY <4>1, SameLists, SMTT(30)
      <4>3. Stripped' = Stripped /\ Running' = Running /\ Finished' = Finished
        BY <4>1, <4>2, ZenonT(30) DEF Stripped, Running, Finished
      <4> QED BY <4>3, ServiceSame
    <3>3. CASE queue.first # NULL
      <4>1. /\ task' = [task EXCEPT ![th] = queue.first]
            /\ queue' = IF next[queue.first] = NULL
                        THEN EmptyList
                        ELSE [queue EXCEPT !.first = next[queue.first]]
        BY <3>1, <3>3 DEF WaitOrTake
      <4>2. Service!Start \/ UNCHANGED Service!avars
        BY <3>1, <3>3, <4>1, TakeStarts, ZenonT(30)
      <4> QED BY <4>2 DEF Service!Next
    <3> QED BY <3>2, <3>3
  <2>5. ASSUME NEW th \in Thread, Finish(th) PROVE Service!Next
    BY <2>5, FinishFinishes DEF Service!Next
  <2>6. ASSUME NEW th \in Thread, Run(th) \/ Notify(th) \/ Spurious(th)
        PROVE  UNCHANGED Service!avars
    BY <2>6, QuietSame
  <2> QED BY <2>1, <2>2, <2>3, <2>4, <2>5, <2>6, SMTT(30) DEF Next, Cycle
<1> QED BY <1>1, ServiceInit, PoolInvariant, PTL
        DEF Spec, ImplementsService, Service!Spec
=============================================================================
