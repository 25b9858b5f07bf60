------------------------ MODULE EventDispatcherProofs ------------------------
(***************************************************************************)
(* Proofs about EventDispatcher for any number of messages and events.     *)
(* The inductive invariant ties dispatchScheduled to the drain it stands   *)
(* for: a drain that is queued or running has the flag set (Scheduled), and*)
(* - until a callback throws - a set flag has a drain (Backed).            *)
(***************************************************************************)
EXTENDS EventDispatcher, SequenceTheorems, WellFoundedInduction, TLAPS

\* The queue of a closing environment is empty, and stays so.
Quiesced == tsfnClosing => tsfnQueue = <<>> /\ phase = "idle"

BatchInCall == phase # "calling" => batch = <<>>

Scheduled == active /\ Outstanding => dispatchScheduled

Backed == active /\ ~tsfnClosing /\ ~thrown =>
              /\ dispatchScheduled => Outstanding
              /\ pendingEvents # <<>> => dispatchScheduled

DrainInv == Quiesced /\ Scheduled /\ OneDrain

-----------------------------------------------------------------------------
\* Where the elements of an appended or shortened sequence come from.
LEMMA AppendElems ==
    ASSUME NEW S, NEW s \in Seq(S), NEW e \in S
    PROVE  /\ Append(s, e) \in Seq(S)
           /\ Len(Append(s, e)) = Len(s) + 1
           /\ DOMAIN Append(s, e) = 1 .. Len(s) + 1
           /\ \A i \in 1 .. Len(s) : Append(s, e)[i] = s[i]
           /\ Append(s, e)[Len(s) + 1] = e
  OBVIOUS

LEMMA TailElems ==
    ASSUME NEW S, NEW s \in Seq(S), s # <<>>
    PROVE  /\ Tail(s) \in Seq(S)
           /\ Len(s) \in Nat \ {0}
           /\ DOMAIN s = 1 .. Len(s)
           /\ Head(s) = s[1]
           /\ Len(Tail(s)) = Len(s) - 1
           /\ DOMAIN Tail(s) = 1 .. Len(s) - 1
           /\ \A i \in 1 .. Len(s) - 1 : Tail(s)[i] = s[i + 1]
  OBVIOUS

\* Where the elements of q \o r come from.
LEMMA Joined ==
    ASSUME NEW S, NEW q \in Seq(S), NEW r \in Seq(S)
    PROVE  LET t == q \o r
           IN  /\ \A i \in DOMAIN t :
                     \/ i \in DOMAIN q /\ t[i] = q[i]
                     \/ i > Len(q) /\ i - Len(q) \in DOMAIN r /\ t[i] = r[i - Len(q)]
               /\ \A i \in DOMAIN q : i \in DOMAIN t /\ t[i] = q[i]
               /\ \A i \in DOMAIN r : i + Len(q) \in DOMAIN t /\ t[i + Len(q)] = r[i]
               /\ \A i \in DOMAIN t : i \in Nat
               /\ \A i \in DOMAIN q : i \in Nat /\ i <= Len(q)
               /\ \A i \in DOMAIN r : i \in Nat
               /\ Len(q) \in Nat
  <1> DEFINE t == q \o r
  <1>1. /\ DOMAIN t = 1 .. Len(q) + Len(r) /\ DOMAIN r = 1 .. Len(r)
        /\ DOMAIN q = 1 .. Len(q)
        /\ Len(q) \in Nat /\ Len(r) \in Nat
        /\ \A i \in 1 .. Len(q) : t[i] = q[i]
        /\ \A i \in 1 .. Len(q) + Len(r) : i > Len(q) => t[i] = r[i - Len(q)]
    BY ConcatProperties
  <1> HIDE DEF t
  <1>2. ASSUME NEW i \in DOMAIN t
        PROVE  \/ i \in DOMAIN q /\ t[i] = q[i]
               \/ i > Len(q) /\ i - Len(q) \in DOMAIN r /\ t[i] = r[i - Len(q)]
    BY <1>1
  <1>3. \A i \in DOMAIN q : i \in DOMAIN t /\ t[i] = q[i]
    BY <1>1
  <1>4. ASSUME NEW i \in DOMAIN r
        PROVE  i + Len(q) \in DOMAIN t /\ t[i + Len(q)] = r[i]
    <2>1. i + Len(q) \in 1 .. Len(q) + Len(r) /\ i + Len(q) > Len(q)
          /\ (i + Len(q)) - Len(q) = i
      BY <1>1
    <2> QED
      BY <1>1, <2>1
  <1>5. /\ \A i \in DOMAIN t : i \in Nat
        /\ \A i \in DOMAIN q : i \in Nat /\ i <= Len(q)
        /\ \A i \in DOMAIN r : i \in Nat
    BY <1>1
  <1> QED
    BY <1>1, <1>2, <1>3, <1>4, <1>5, Zenon DEF t

LEMMA Least ==
    ASSUME NEW T \in SUBSET Nat, T # {}
    PROVE  \E n \in T : \A m \in T : n <= m
  <1> DEFINE R == {ss \in Nat \X Nat : ss[1] < ss[2]}
  <1>1. IsWellFoundedOn(R, Nat)
    BY NatLessThanWellFounded DEF OpToRel
  <1> HIDE DEF R
  <1>2. PICK n \in T : \A m \in T : ~(<<m, n>> \in R)
    BY <1>1, WFMin
  <1>3. ASSUME NEW m \in T PROVE n <= m
    <2>1. n \in Nat /\ m \in Nat
      OBVIOUS
    <2>2. ~(<<m, n>> \in R)
      BY <1>2, <1>3
    <2>3. ~(m < n)
      <3> SUFFICES ASSUME m < n PROVE FALSE
        OBVIOUS
      <3>1. <<m, n>> \in {ss \in Nat \X Nat : ss[1] < ss[2]}
        BY <2>1
      <3> QED
        BY <2>2, <3>1 DEF R
    <2> QED
      BY <2>1, <2>3
  <1> QED
    BY <1>3

\* A filter by a recursive function: it is defined, ...
Filters(f, ns, own) ==
    f = [i \in 0 .. Len(ns) |->
           IF i = 0 THEN <<>>
           ELSE IF ns[i] \in own THEN Append(f[i - 1], ns[i])
           ELSE f[i - 1]]

LEMMA FilterDefined ==
    ASSUME NEW own, NEW ns, Len(ns) \in Nat
    PROVE  \E f : Filters(f, ns, own)
  <1> DEFINE Take(q, i) == IF ns[i] \in own THEN Append(q, ns[i]) ELSE q
             Upto(n, f) ==
               f = [i \in 0 .. n |-> IF i = 0 THEN <<>> ELSE Take(f[i - 1], i)]
             Missing == {n \in Nat : ~ \E f : Upto(n, f)}
  <1> HIDE DEF Take
  <1>1. Missing = {}
    <2> SUFFICES ASSUME Missing # {} PROVE FALSE
      OBVIOUS
    <2>1. PICK n \in Missing : \A m \in Missing : n <= m
      BY Least
    <2>2. n # 0
      <3> DEFINE g == [i \in 0 .. 0 |-> <<>>]
      <3>1. g = [i \in 0 .. 0 |-> IF i = 0 THEN <<>> ELSE Take(g[i - 1], i)]
        OBVIOUS
      <3> HIDE DEF g
      <3> QED
        BY <2>1, <3>1
    <2>3. n - 1 \in Nat /\ ~(n <= n - 1)
      BY <2>1, <2>2
    <2>4. n - 1 \notin Missing
      BY <2>1, <2>3
    <2>5. PICK f : Upto(n - 1, f)
      BY <2>3, <2>4
    <2> DEFINE g == [i \in 0 .. n |-> IF i < n THEN f[i] ELSE Take(f[n - 1], n)]
    <2>6. ASSUME NEW i \in 0 .. n
          PROVE  g[i] = IF i = 0 THEN <<>> ELSE Take(g[i - 1], i)
      <3>1. CASE i = 0
        BY <2>1, <2>2, <2>3, <2>5, <3>1
      <3>2. CASE i \in 1 .. (n - 1)
        <4>1. i - 1 \in 0 .. n /\ i - 1 < n /\ i < n /\ i \in 0 .. (n - 1) /\ i # 0
          BY <2>1, <3>2
        <4>2. g[i] = f[i] /\ g[i - 1] = f[i - 1]
          BY <4>1
        <4>3. f[i] = Take(f[i - 1], i)
          BY <2>5, <4>1
        <4> QED
          BY <4>1, <4>2, <4>3
      <3>3. CASE i = n
        <4>1. n - 1 \in 0 .. n /\ n - 1 < n /\ ~(n < n)
          BY <2>1, <2>2
        <4>2. g[n - 1] = f[n - 1] /\ g[n] = Take(f[n - 1], n)
          BY <4>1
        <4> QED
          BY <2>2, <3>3, <4>2
      <3> QED
        BY <2>1, <3>1, <3>2, <3>3
    <2>7. Upto(n, g)
      <3>1. g = [i \in 0 .. n |-> g[i]]
        OBVIOUS
      <3> HIDE DEF g
      <3> QED
        BY <2>6, <3>1
    <2> QED
      BY <2>1, <2>7
  <1>2. \E f : Upto(Len(ns), f)
    BY <1>1
  <1> QED
    BY <1>2, Zenon DEF Take, Filters

\* ... and keeps the elements of own, these and no others, in their order.
LEMMA Filtered ==
    ASSUME NEW own, NEW ns \in Seq(Nat), \A i, j \in DOMAIN ns : i < j => ns[i] < ns[j],
           NEW f, Filters(f, ns, own)
    PROVE  LET m == f[Len(ns)]
           IN  /\ m \in Seq(own)
               /\ \A k \in DOMAIN m : \E i \in DOMAIN ns : m[k] = ns[i]
               /\ \A i \in DOMAIN ns : ns[i] \in own => \E k \in DOMAIN m : m[k] = ns[i]
               /\ \A k, l \in DOMAIN m : k < l => m[k] < m[l]
  <1>1. Len(ns) \in Nat /\ DOMAIN ns = 1 .. Len(ns)
    OBVIOUS
  <1>2. f = [i \in 0 .. Len(ns) |->
               IF i = 0 THEN <<>>
               ELSE IF ns[i] \in own THEN Append(f[i - 1], ns[i])
               ELSE f[i - 1]]
    BY DEF Filters
  <1> DEFINE Right(q, n) ==
               /\ q \in Seq(own)
               /\ \A k \in DOMAIN q : \E i \in 1 .. n : q[k] = ns[i]
               /\ \A i \in 1 .. n : ns[i] \in own => \E k \in DOMAIN q : q[k] = ns[i]
               /\ \A k, l \in DOMAIN q : k < l => q[k] < q[l]
             Wrong == {n \in 0 .. Len(ns) : ~Right(f[n], n)}
  <1>3. Wrong = {}
    <2> SUFFICES ASSUME Wrong # {} PROVE FALSE
      OBVIOUS
    <2>1. PICK n \in Wrong : \A m \in Wrong : n <= m
      <3>1. Wrong \in SUBSET Nat
        BY <1>1
      <3> HIDE DEF Wrong
      <3> QED
        BY <3>1, Least
    <2>2. n # 0
      <3>1. f[0] = <<>>
        <4>1. 0 \in 0 .. Len(ns)
          BY <1>1
        <4> QED
          BY <1>2, <4>1, Zenon
      <3>2. Right(<<>>, 0)
        OBVIOUS
      <3> HIDE DEF Right
      <3> QED
        BY <2>1, <3>1, <3>2
    <2>3. /\ n \in 1 .. Len(ns) /\ n - 1 \in 0 .. Len(ns) /\ ~(n <= n - 1)
          /\ n \in Nat /\ n - 1 \in Nat
      BY <1>1, <2>1, <2>2
    <2>4. Right(f[n - 1], n - 1)
      BY <2>1, <2>3
    <2> DEFINE q == f[n - 1]
               x == ns[n]
    <2>5. f[n] = IF x \in own THEN Append(q, x) ELSE q
      <3>1. n \in 0 .. Len(ns)
        BY <2>3
      <3> QED
        BY <1>2, <2>2, <3>1, Zenon
    <2>6. x \in Nat /\ \A i \in 1 .. n - 1 : ns[i] \in Nat /\ ns[i] < x
      <3>1. \A i \in 1 .. n - 1 : i \in DOMAIN ns /\ n \in DOMAIN ns /\ i < n
        BY <1>1, <2>3
      <3>2. \A i \in DOMAIN ns : ns[i] \in Nat
        BY <1>1
      <3>3. n \in DOMAIN ns
        BY <1>1, <2>3
      <3> QED
        BY <3>1, <3>2, <3>3
    <2>7. \A i \in 1 .. n : i = n \/ i \in 1 .. n - 1
      BY <2>3
    <2>8. \A i \in 1 .. n - 1 : i \in 1 .. n
      BY <2>3
    <2>9. q \in Seq(own)
      BY <2>4
    <2>10. CASE x \notin own
      <3>1. Right(q, n)
        BY <2>4, <2>7, <2>8, <2>10, Zenon
      <3> QED
        BY <2>1, <2>5, <2>10, <3>1
    <2>11. CASE x \in own
      <3> DEFINE r == Append(q, x)
      <3>1. /\ r \in Seq(own) /\ Len(q) \in Nat /\ DOMAIN q = 1 .. Len(q)
            /\ DOMAIN r = 1 .. Len(q) + 1 /\ r[Len(q) + 1] = x
            /\ \A k \in 1 .. Len(q) : r[k] = q[k]
        BY <2>9, <2>11, AppendProperties
      <3> HIDE DEF r
      <3>2. \A k \in DOMAIN r : \/ k \in DOMAIN q /\ r[k] = q[k]
                                \/ k = Len(q) + 1 /\ r[k] = x
        <4>1. \A k \in 1 .. Len(q) + 1 : k \in 1 .. Len(q) \/ k = Len(q) + 1
          BY <3>1
        <4> QED
          BY <3>1, <4>1, Zenon
      <3>3. \A k \in DOMAIN r : \E i \in 1 .. n : r[k] = ns[i]
        <4>1. n \in 1 .. n
          BY <2>3
        <4>2. \A k \in DOMAIN q : \E i \in 1 .. n - 1 : q[k] = ns[i]
          BY <2>4
        <4> QED
          BY <2>8, <3>2, <4>1, <4>2, Zenon DEF x
      <3>4. \A i \in 1 .. n : ns[i] \in own => \E k \in DOMAIN r : r[k] = ns[i]
        <4>1. Len(q) + 1 \in DOMAIN r /\ \A k \in DOMAIN q : k \in DOMAIN r
          BY <3>1
        <4>2. ASSUME NEW i \in 1 .. n - 1, ns[i] \in own
              PROVE  \E k \in DOMAIN r : r[k] = ns[i]
          <5>1. PICK k \in DOMAIN q : q[k] = ns[i]
            BY <2>4, <4>2
          <5> QED
            BY <3>1, <4>1, <5>1
        <4> QED
          BY <2>7, <3>1, <4>1, <4>2
      <3>5. \A k, l \in DOMAIN r : k < l => r[k] < r[l]
        <4> SUFFICES ASSUME NEW k \in DOMAIN r, NEW l \in DOMAIN r, k < l
                     PROVE  r[k] < r[l]
          OBVIOUS
        <4>1. CASE l \in DOMAIN q
          <5>1. k \in DOMAIN q
            BY <3>1, <4>1
          <5> QED
            BY <2>4, <3>1, <4>1, <5>1
        <4>2. CASE l = Len(q) + 1
          <5>1. k \in DOMAIN q
            BY <3>1, <4>2
          <5>2. PICK i \in 1 .. n - 1 : q[k] = ns[i]
            BY <2>4, <5>1
          <5> QED
            BY <2>6, <3>1, <4>2, <5>1, <5>2
        <4> QED
          BY <3>2, <4>1, <4>2, Zenon
      <3>6. Right(r, n)
        BY <3>1, <3>3, <3>4, <3>5
      <3> HIDE DEF Right, q, x
      <3> QED
        BY <2>1, <2>5, <2>11, <3>6 DEF r
    <2> QED
      BY <2>10, <2>11
  <1>4. Right(f[Len(ns)], Len(ns))
    <2>1. Len(ns) \in 0 .. Len(ns)
      BY <1>1
    <2> HIDE DEF Right
    <2> QED
      BY <1>3, <2>1
  <1> QED
    BY <1>1, <1>2, <1>4

\* The two parts of a sequence.
LEMMA InTwo ==
    ASSUME NEW own \in SUBSET Nat, NEW ns \in Seq(own), NEW k \in 1 .. Len(ns)
    PROVE  LET p == SubSeq(ns, 1, k)
               q == SubSeq(ns, k + 1, Len(ns))
           IN  /\ \A i \in DOMAIN p : i \in DOMAIN ns /\ i <= k /\ p[i] = ns[i] /\ i \in Nat
               /\ \A i \in DOMAIN q :
                     i + k \in DOMAIN ns /\ k < i + k /\ q[i] = ns[i + k] /\ i \in Nat
               /\ \A i \in DOMAIN ns : \/ i \in DOMAIN p /\ p[i] = ns[i]
                                       \/ i - k \in DOMAIN q /\ q[i - k] = ns[i]
               /\ k \in DOMAIN ns /\ \A i \in DOMAIN ns : ns[i] \in Nat
  <1> DEFINE p == SubSeq(ns, 1, k)
             q == SubSeq(ns, k + 1, Len(ns))
  <1>1. ns \in Seq(own) /\ Len(ns) \in Nat /\ DOMAIN ns = 1 .. Len(ns) /\ k \in 1 .. Len(ns)
    OBVIOUS
  <1>2. \A i \in DOMAIN ns : ns[i] \in Nat /\ ns[i] \in own
    <2>1. \A i \in DOMAIN ns : ns[i] \in own
      BY <1>1
    <2> QED
      BY <2>1
  <1>3. /\ p \in Seq(own) /\ Len(p) = k /\ \A i \in 1 .. k : p[i] = ns[i]
    <2>1. \A i \in 1 .. k : ns[i] \in own
      BY <1>1, <1>2
    <2>2. /\ p \in Seq(own) /\ Len(p) = IF 1 <= k THEN k - 1 + 1 ELSE 0
          /\ \A i \in 1 .. k - 1 + 1 : p[i] = ns[1 + i - 1]
      BY <1>1, <2>1, SubSeqProperties
    <2>3. k - 1 + 1 = k /\ \A i \in Nat : 1 + i - 1 = i
      BY <1>1
    <2> HIDE DEF p
    <2> QED
      BY <1>1, <2>2, <2>3
  <1>4. /\ q \in Seq(own) /\ Len(q) = Len(ns) - k
        /\ \A i \in 1 .. Len(ns) - k : q[i] = ns[i + k]
    <2>1. \A i \in k + 1 .. Len(ns) : ns[i] \in own
      BY <1>1, <1>2
    <2>2. /\ q \in Seq(own)
          /\ Len(q) = IF k + 1 <= Len(ns) THEN Len(ns) - (k + 1) + 1 ELSE 0
          /\ \A i \in 1 .. Len(ns) - (k + 1) + 1 : q[i] = ns[(k + 1) + i - 1]
      BY <1>1, <2>1, SubSeqProperties
    <2> DEFINE len == Len(ns)
    <2>3. len \in Nat /\ k \in 1 .. len
      BY <1>1
    <2> HIDE DEF q, len
    <2>4. /\ len - (k + 1) + 1 = len - k
          /\ (IF k + 1 <= len THEN len - (k + 1) + 1 ELSE 0) = len - k
          /\ \A i \in Nat : (k + 1) + i - 1 = i + k
          /\ \A i \in 1 .. len - k : i \in Nat
      BY <2>3
    <2>5. Len(q) = Len(ns) - k
      BY <2>2, <2>4, Zenon DEF len
    <2>6. \A i \in 1 .. Len(ns) - k : q[i] = ns[i + k]
      BY <2>2, <2>4, Zenon DEF len
    <2> QED
      BY <2>2, <2>5, <2>6
  <1> HIDE DEF p, q
  <1>5. DOMAIN p = 1 .. k /\ DOMAIN q = 1 .. Len(ns) - k
    <2>1. DOMAIN p = 1 .. Len(p) /\ DOMAIN q = 1 .. Len(q)
      BY <1>3, <1>4, LenProperties
    <2> QED
      BY <1>3, <1>4, <2>1
  <1>6. /\ \A i \in DOMAIN p : i \in DOMAIN ns /\ i <= k /\ p[i] = ns[i] /\ i \in Nat
        /\ k \in DOMAIN ns
    BY <1>1, <1>3, <1>5
  <1>7. \A i \in DOMAIN q :
            i + k \in DOMAIN ns /\ k < i + k /\ q[i] = ns[i + k] /\ i \in Nat
    BY <1>1, <1>4, <1>5
  <1>8. ASSUME NEW i \in DOMAIN ns
        PROVE  \/ i \in DOMAIN p /\ p[i] = ns[i]
               \/ i - k \in DOMAIN q /\ q[i - k] = ns[i]
    <2>1. CASE i <= k
      BY <1>1, <1>3, <1>5, <2>1
    <2>2. CASE ~(i <= k)
      <3>1. i - k \in 1 .. Len(ns) - k /\ (i - k) + k = i
        BY <1>1, <2>2
      <3> QED
        BY <1>4, <1>5, <3>1
    <2> QED
      BY <2>1, <2>2
  <1> QED
    BY <1>2, <1>6, <1>7, <1>8 DEF p, q

LEMMA FirstAndRest ==
    ASSUME NEW own, NEW ms \in Seq(own), ms # <<>>
    PROVE  /\ 1 \in 1 .. Len(ms) /\ SubSeq(ms, 1, 1) = <<Head(ms)>>
           /\ SubSeq(ms, 1 + 1, Len(ms)) = Tail(ms)
           /\ Tail(ms) = <<>> => 1 = Len(ms)
           /\ Tail(ms) \in Seq(own)
  <1>1. ms \in Seq(own) /\ ms # <<>> /\ Len(ms) \in Nat /\ Len(ms) # 0
    OBVIOUS
  <1>2. Tail(ms) = SubSeq(ms, 2, Len(ms)) /\ 1 + 1 = 2
    BY <1>1, TailIsSubSeq
  <1>3. Tail(ms) \in Seq(own) /\ (Tail(ms) = <<>> => 1 = Len(ms))
    <2>1. Tail(ms) \in Seq(own) /\ Len(Tail(ms)) = Len(ms) - 1
      BY <1>1, HeadTailProperties
    <2> DEFINE x == Tail(ms)
    <2> HIDE DEF x
    <2>2. x = <<>> => Len(x) = 0
      OBVIOUS
    <2> USE DEF x
    <2> QED
      BY <1>1, <2>1, <2>2
  <1>4. SubSeq(ms, 1, 1) = <<ms[1]>> \o SubSeq(ms, 1 + 1, 1)
    BY <1>1, SubSeqRecursiveFirst
  <1>5. SubSeq(ms, 1 + 1, 1) = <<>>
    BY SubSeqEmpty
  <1>6. <<ms[1]>> \o <<>> = <<ms[1]>>
    <2> DEFINE x == ms[1]
    <2>1. x \in own
      BY <1>1
    <2> HIDE DEF x
    <2>2. <<x>> \in Seq(own)
      BY <2>1
    <2>3. <<x>> \o <<>> = <<x>>
      BY <2>2, ConcatEmptySeq
    <2> QED
      BY <2>3 DEF x
  <1>7. Head(ms) = ms[1]
    BY <1>1
  <1>8. SubSeq(ms, 1, 1) = <<Head(ms)>>
    BY <1>4, <1>5, <1>6, <1>7, Zenon
  <1> QED
    BY <1>1, <1>2, <1>3, <1>8

\* Drains in a queue after an append, and after its head was taken.
LEMMA AppendDrain ==
    ASSUME NEW q \in Seq(Items), NEW item \in Items
    PROVE  /\ HasDrain(Append(q, item)) <=> HasDrain(q) \/ IsDrain(item)
           /\ SingleDrain(q) /\ (HasDrain(q) => ~IsDrain(item)) =>
                  SingleDrain(Append(q, item))
<1>1. /\ DOMAIN q = 1 .. Len(q)
      /\ Len(q) \in Nat
  OBVIOUS
<1>2. /\ DOMAIN Append(q, item) = 1 .. Len(q) + 1
      /\ \A i \in 1 .. Len(q) : Append(q, item)[i] = q[i]
      /\ Append(q, item)[Len(q) + 1] = item
  BY AppendElems
<1>3. HasDrain(Append(q, item)) <=> HasDrain(q) \/ IsDrain(item)
  BY <1>1, <1>2 DEF HasDrain
<1>4. ASSUME SingleDrain(q), HasDrain(q) => ~IsDrain(item)
      PROVE  SingleDrain(Append(q, item))
  BY <1>1, <1>2, <1>4 DEF HasDrain, SingleDrain
<1> QED BY <1>3, <1>4

LEMMA TailDrain ==
    ASSUME NEW q \in Seq(Items), q # <<>>
    PROVE  /\ HasDrain(Tail(q)) => HasDrain(q)
           /\ HasDrain(q) => HasDrain(Tail(q)) \/ IsDrain(Head(q))
           /\ SingleDrain(q) => SingleDrain(Tail(q))
           /\ SingleDrain(q) /\ IsDrain(Head(q)) => ~HasDrain(Tail(q))
           /\ IsDrain(Head(q)) => HasDrain(q)
<1>1. /\ Len(q) \in Nat \ {0}
      /\ DOMAIN q = 1 .. Len(q)
      /\ Head(q) = q[1]
      /\ DOMAIN Tail(q) = 1 .. Len(q) - 1
      /\ \A i \in 1 .. Len(q) - 1 : Tail(q)[i] = q[i + 1]
  BY TailElems
<1>2. \A i \in DOMAIN q :
          i = 1 \/ (q[i] = Tail(q)[i - 1] /\ i - 1 \in DOMAIN Tail(q))
  BY <1>1
<1>3. HasDrain(Tail(q)) => HasDrain(q)
  BY <1>1 DEF HasDrain
<1>4. HasDrain(q) => HasDrain(Tail(q)) \/ IsDrain(Head(q))
  BY <1>1, <1>2, Zenon DEF HasDrain
<1>5. SingleDrain(q) => SingleDrain(Tail(q))
  BY <1>1 DEF SingleDrain
<1>6. SingleDrain(q) /\ IsDrain(Head(q)) => ~HasDrain(Tail(q))
  BY <1>1 DEF HasDrain, SingleDrain
<1>7. IsDrain(Head(q)) => HasDrain(q)
  BY <1>1 DEF HasDrain
<1> QED BY <1>3, <1>4, <1>5, <1>6, <1>7

LEMMA Bounds == MaxMessages \in Nat /\ MaxDirect \in Nat
  BY Zenon, DispatcherAssumption DEF DispatcherAssumption

LEMMA ItemTypes == DrainItem \in Items /\ (TypeOK => DirectItem \in Items)
<1>1. DrainItem \in Items
  BY DEF DrainItem, Items
<1>2. ASSUME TypeOK PROVE DirectItem \in Items
  <2>1. /\ accepted \in Nat /\ directs + 1 \in Nat
        /\ Len(delivered) + Len(batch) \in Nat
    BY <1>2, Bounds DEF TypeOK
  <2> QED BY <2>1 DEF DirectItem, Items
<1> QED BY <1>1, <1>2

LEMMA NoneInSeq == ASSUME NEW S PROVE <<>> \in Seq(S)
  OBVIOUS

LEMMA Concatenated ==
    ASSUME NEW S, NEW s \in Seq(S), NEW t \in Seq(S)
    PROVE  /\ s \o t \in Seq(S)
           /\ Len(s \o t) = Len(s) + Len(t)
           /\ \A i \in 1 .. Len(s) : (s \o t)[i] = s[i]
           /\ \A i \in 1 .. Len(t) : (s \o t)[Len(s) + i] = t[i]
  OBVIOUS

-----------------------------------------------------------------------------
\* TypeOK, its Boolean flags apart from the rest.
Flags == /\ active \in BOOLEAN
         /\ dispatchScheduled \in BOOLEAN
         /\ tsfnClosing \in BOOLEAN
         /\ thrown \in BOOLEAN

Data == /\ pendingEvents \in Seq(Messages)
        /\ tsfnQueue \in Seq(Items)
        /\ phase \in {"idle", "calling", "called", "batched"}
        /\ batch \in Seq(Messages)
        /\ delivered \in Seq(Messages)
        /\ accepted \in 0 .. MaxMessages
        /\ directs \in 0 .. MaxDirect

LEMMA TypeParts == TypeOK <=> Flags /\ Data
  BY Zenon DEF TypeOK, Flags, Data

LEMMA TypeInit == Init => TypeOK
<1>1. Init => Flags
  BY DEF Init, Flags
<1>2. Init => Data
  BY Bounds DEF Init, Data
<1> QED BY <1>1, <1>2, TypeParts

LEMMA TypeStep ==
    ASSUME TypeOK, [Next]_vars
    PROVE  TypeOK'
<1>1. ASSUME Flags, [Next]_vars PROVE Flags'
  BY <1>1, Zenon DEF Next, JavaScript, Emit, EmitDirect, Close, EnvTeardown,
     DispatchDirect, DrainSwap, DrainCall, DrainFinish, DrainThrow,
     QueueDispatchLocked, nativeVars, vars, Flags
<1> SUFFICES ASSUME Flags, Data, [Next]_vars PROVE Data'
  BY <1>1, Zenon DEF TypeOK, Flags, Data
<1>2. /\ Append(tsfnQueue, DrainItem) \in Seq(Items)
      /\ Append(tsfnQueue, DirectItem) \in Seq(Items)
  BY AppendElems, ItemTypes, TypeParts DEF Data
<1>3. CASE Emit
  <2>1. /\ accepted + 1 \in Messages
        /\ accepted + 1 \in 0 .. MaxMessages
    BY <1>3, Bounds DEF Emit, Data, Messages
  <2>2. Append(pendingEvents, accepted + 1) \in Seq(Messages)
    BY <2>1, AppendElems DEF Data
  <2>3. /\ pendingEvents' = Append(pendingEvents, accepted + 1) \/ pendingEvents' = <<>>
        /\ tsfnQueue' = tsfnQueue \/ tsfnQueue' = Append(tsfnQueue, DrainItem)
        /\ UNCHANGED <<phase, batch, delivered, directs>>
        /\ accepted' = accepted + 1
    BY <1>3, Zenon DEF Emit, QueueDispatchLocked
  <2> QED BY <1>2, <2>1, <2>2, <2>3, NoneInSeq, Zenon DEF Data
<1>4. CASE EmitDirect
  BY <1>2, <1>4, Bounds DEF EmitDirect, nativeVars, Data
<1>5. CASE Close
  BY <1>5 DEF Close, Data
<1>6. CASE EnvTeardown
  BY <1>6 DEF EnvTeardown, Data
<1>7. CASE DispatchDirect
  BY <1>7, TailElems DEF DispatchDirect, nativeVars, Data
<1>8. CASE DrainSwap
  <2>1. /\ tsfnQueue # <<>> /\ tsfnQueue' = Tail(tsfnQueue)
        /\ pendingEvents' = <<>> \/ pendingEvents' = pendingEvents
        /\ phase' = "calling" \/ phase' = phase
        /\ batch' = pendingEvents \/ batch' = batch
        /\ UNCHANGED <<delivered, accepted, directs>>
    BY <1>8, Zenon DEF DrainSwap
  <2> QED BY <2>1, TailElems, NoneInSeq, Zenon DEF Data
<1>9. CASE DrainCall
  BY <1>9, Concatenated DEF DrainCall, nativeVars, Data
<1>10. CASE DrainFinish
  <2>1. /\ pendingEvents' = <<>> \/ pendingEvents' = pendingEvents
        /\ tsfnQueue' = tsfnQueue \/ tsfnQueue' = Append(tsfnQueue, DrainItem)
        /\ phase' = "idle"
        /\ UNCHANGED <<batch, delivered, accepted, directs>>
    BY <1>10, Zenon DEF DrainFinish, QueueDispatchLocked
  <2> QED BY <1>2, <2>1, NoneInSeq, Zenon DEF Data
<1>11. CASE DrainThrow
  BY <1>11 DEF DrainThrow, nativeVars, Data
<1>12. CASE UNCHANGED vars
  BY <1>12 DEF vars, Data
<1> QED BY <1>3, <1>4, <1>5, <1>6, <1>7, <1>8, <1>9, <1>10, <1>11,
           <1>12 DEF Next, JavaScript

\* Every variable of the dispatcher keeps its type, for any bounds.
THEOREM TypeCorrect == Spec => []TypeOK
<1>1. TypeOK /\ [Next]_vars => TypeOK'
  BY TypeStep
<1> QED BY <1>1, TypeInit, PTL DEF Spec

-----------------------------------------------------------------------------
\* One step of the dispatcher, as far as drains are concerned.
LEMMA DrainInvStep ==
    ASSUME TypeOK, TypeOK', DrainInv, [Next]_vars
    PROVE  DrainInv'
<1>1. /\ tsfnQueue \in Seq(Items)
      /\ DrainItem \in Items /\ DirectItem \in Items
      /\ IsDrain(DrainItem) /\ ~IsDrain(DirectItem)
  <2>1. IsDrain(DrainItem)
    BY DEF IsDrain, DrainItem
  <2>2. ~IsDrain(DirectItem)
    BY DEF IsDrain, DirectItem
  <2> QED BY <2>1, <2>2, ItemTypes, Zenon DEF TypeOK
<1>2. /\ ~HasDrain(<<>>)
      /\ SingleDrain(<<>>)
  BY DEF HasDrain, SingleDrain
<1>3. /\ HasDrain(Append(tsfnQueue, DrainItem))
      /\ ~HasDrain(tsfnQueue) => SingleDrain(Append(tsfnQueue, DrainItem))
      /\ HasDrain(Append(tsfnQueue, DirectItem)) <=> HasDrain(tsfnQueue)
      /\ SingleDrain(tsfnQueue) => SingleDrain(Append(tsfnQueue, DirectItem))
  <2>1. ~HasDrain(tsfnQueue) => SingleDrain(tsfnQueue)
    BY DEF HasDrain, SingleDrain
  <2> QED BY <2>1, <1>1, AppendDrain, Zenon
<1>4. tsfnQueue # <<>> =>
        /\ HasDrain(Tail(tsfnQueue)) => HasDrain(tsfnQueue)
        /\ SingleDrain(tsfnQueue) => SingleDrain(Tail(tsfnQueue))
        /\ SingleDrain(tsfnQueue) /\ IsDrain(Head(tsfnQueue)) =>
               ~HasDrain(Tail(tsfnQueue))
        /\ IsDrain(Head(tsfnQueue)) => HasDrain(tsfnQueue)
  BY <1>1, TailDrain, Zenon
<1> USE DEF DrainInv, Quiesced, Scheduled, OneDrain, Outstanding
<1>5. CASE Emit
  <2>1. CASE dispatchScheduled
    BY <1>5, <2>1, Zenon DEF Emit, QueueDispatchLocked, nativeVars
  <2>2. CASE ~dispatchScheduled /\ tsfnClosing
    BY <1>2, <1>5, <2>2, Zenon DEF Emit, QueueDispatchLocked, nativeVars
  <2>3. CASE ~dispatchScheduled /\ ~tsfnClosing
    BY <1>3, <1>5, <2>3, Zenon DEF Emit, QueueDispatchLocked, nativeVars
  <2> QED BY <2>1, <2>2, <2>3
<1>6. CASE EmitDirect
  BY <1>3, <1>6, Zenon DEF EmitDirect, nativeVars
<1>7. CASE Close
  BY <1>7, Zenon DEF Close
<1>8. CASE EnvTeardown
  BY <1>2, <1>8, Zenon DEF EnvTeardown
<1>9. CASE DispatchDirect
  BY <1>4, <1>9, Zenon DEF DispatchDirect, nativeVars
<1>10. CASE DrainSwap
  <2>1. /\ phase = "idle" /\ tsfnQueue # <<>> /\ IsDrain(Head(tsfnQueue))
        /\ tsfnQueue' = Tail(tsfnQueue)
        /\ UNCHANGED <<active, tsfnClosing>>
        /\ UNCHANGED dispatchScheduled \/ phase' = phase
    BY <1>10, Zenon DEF DrainSwap, nativeVars
  <2>2. active => ~HasDrain(Tail(tsfnQueue)) /\ dispatchScheduled
    BY <1>4, <2>1, Zenon
  <2>3. Quiesced'
    BY <2>1, Zenon
  <2>4. Scheduled'
    <3>1. CASE UNCHANGED dispatchScheduled
      BY <2>1, <2>2, <3>1, Zenon
    <3>2. CASE phase' = phase
      BY <2>1, <2>2, <3>2, Zenon
    <3> QED BY <2>1, <3>1, <3>2
  <2>5. OneDrain'
    BY <1>4, <2>1, <2>2, Zenon
  <2> QED BY <2>3, <2>4, <2>5, Zenon
<1>11. CASE DrainCall
  BY <1>11, Zenon DEF DrainCall, nativeVars
<1>12. CASE DrainFinish
  BY <1>3, <1>12, Zenon DEF DrainFinish, QueueDispatchLocked, nativeVars
<1>13. CASE DrainThrow
  BY <1>13, Zenon DEF DrainThrow, nativeVars
<1>14. CASE UNCHANGED vars
  BY <1>14, Zenon DEF vars
<1> QED BY <1>5, <1>6, <1>7, <1>8, <1>9, <1>10, <1>11, <1>12, <1>13, <1>14
        DEF Next, JavaScript

\* Emit and Drain together never have two drains outstanding on an open peer,
\* even when JavaScript throws out of one.
THEOREM AtMostOneDrain == Spec => []OneDrain
<1>1. Init => DrainInv
  <2>1. ~HasDrain(<<>>) /\ SingleDrain(<<>>)
    BY DEF HasDrain, SingleDrain
  <2> QED BY <2>1, Zenon DEF Init, DrainInv, Quiesced, Scheduled, OneDrain,
             Outstanding
<1>2. TypeOK /\ TypeOK' /\ DrainInv /\ [Next]_vars => DrainInv'
  BY DrainInvStep
<1>3. DrainInv => OneDrain
  BY DEF DrainInv
<1> QED BY <1>1, <1>2, <1>3, TypeCorrect, PTL DEF Spec

-----------------------------------------------------------------------------
LEMMA BackedStep ==
    ASSUME TypeOK, TypeOK', DrainInv, Backed, [Next]_vars
    PROVE  Backed'
<1>1. /\ tsfnQueue \in Seq(Items)
      /\ DrainItem \in Items /\ DirectItem \in Items
      /\ IsDrain(DrainItem)
  BY ItemTypes DEF TypeOK, IsDrain, DrainItem
<1>2. /\ HasDrain(Append(tsfnQueue, DrainItem))
      /\ HasDrain(tsfnQueue) => HasDrain(Append(tsfnQueue, DirectItem))
  BY <1>1, AppendDrain, Zenon
<1>3. tsfnQueue # <<>> /\ HasDrain(tsfnQueue) =>
          HasDrain(Tail(tsfnQueue)) \/ IsDrain(Head(tsfnQueue))
  BY <1>1, TailDrain, Zenon
<1> USE DEF Backed, Outstanding
<1>5. CASE Emit
  <2>1. CASE dispatchScheduled
    BY <1>5, <2>1, Zenon DEF Emit, QueueDispatchLocked, nativeVars
  <2>2. CASE ~dispatchScheduled /\ tsfnClosing
    BY <1>5, <2>2, Zenon DEF Emit, QueueDispatchLocked, nativeVars
  <2>3. CASE ~dispatchScheduled /\ ~tsfnClosing
    BY <1>2, <1>5, <2>3, Zenon DEF Emit, QueueDispatchLocked, nativeVars
  <2> QED BY <2>1, <2>2, <2>3
<1>6. CASE EmitDirect
  <2>1. CASE tsfnClosing
    BY <1>6, <2>1, Zenon DEF EmitDirect, nativeVars
  <2>2. CASE ~tsfnClosing
    BY <1>2, <1>6, <2>2, Zenon DEF EmitDirect, nativeVars
  <2> QED BY <2>1, <2>2
<1>7. CASE Close
  BY <1>7, Zenon DEF Close
<1>8. CASE EnvTeardown
  BY <1>8, Zenon DEF EnvTeardown
<1>9. CASE DispatchDirect
  BY <1>3, <1>9, Zenon DEF DispatchDirect, nativeVars
<1>10. CASE DrainSwap
  <2>1. CASE pendingEvents = <<>>
    BY <1>10, <2>1, Zenon DEF DrainSwap, nativeVars
  <2>2. CASE pendingEvents # <<>>
    <3>1. phase' # "idle" /\ pendingEvents' = <<>>
      BY <1>10, <2>2 DEF DrainSwap
    <3> QED BY <3>1, Zenon
  <2> QED BY <2>1, <2>2
<1>11. CASE DrainCall
  <2>1. phase # "idle" /\ phase' # "idle"
    BY <1>11 DEF DrainCall
  <2> QED BY <1>11, <2>1, Zenon DEF DrainCall, nativeVars
<1>12. CASE DrainFinish
  <2>1. CASE ~active \/ pendingEvents = <<>>
    BY <1>12, <2>1, Zenon DEF DrainFinish, QueueDispatchLocked, nativeVars
  <2>2. CASE active /\ pendingEvents # <<>> /\ tsfnClosing
    BY <1>12, <2>2, Zenon DEF DrainFinish, QueueDispatchLocked, nativeVars
  <2>3. CASE active /\ pendingEvents # <<>> /\ ~tsfnClosing
    BY <1>2, <1>12, <2>3, Zenon DEF DrainFinish, QueueDispatchLocked, nativeVars
  <2> QED BY <2>1, <2>2, <2>3
<1>13. CASE DrainThrow
  BY <1>13, Zenon DEF DrainThrow
<1>14. CASE UNCHANGED vars
  BY <1>14, Zenon DEF vars
<1> QED BY <1>5, <1>6, <1>7, <1>8, <1>9, <1>10, <1>11, <1>12, <1>13, <1>14
        DEF Next, JavaScript

\* As long as the JavaScript callback has not thrown, no message of an open peer
\* is left waiting without a drain coming for it.
THEOREM NoMessageStranded == Spec => []NoLostWakeup
<1>1. Init => DrainInv /\ Backed
  <2>1. ~HasDrain(<<>>) /\ SingleDrain(<<>>)
    BY DEF HasDrain, SingleDrain
  <2> QED BY <2>1, Zenon DEF Init, DrainInv, Quiesced, Scheduled, OneDrain,
             Outstanding, Backed
<1>2. TypeOK /\ TypeOK' /\ (DrainInv /\ Backed)
          /\ [Next]_vars => (DrainInv /\ Backed)'
  BY DrainInvStep, BackedStep
<1>3. DrainInv /\ Backed => NoLostWakeup
  BY Zenon DEF Backed, NoLostWakeup
<1> QED BY <1>1, <1>2, <1>3, TypeCorrect, PTL DEF Spec

-----------------------------------------------------------------------------
\* What is delivered, in the batch and pending is 1, 2, 3, ... without a gap.
Live == active /\ ~tsfnClosing

Delivered == \A i \in 1 .. Len(delivered) : delivered[i] = i

InBatch == \A i \in 1 .. Len(batch) : batch[i] = Len(delivered) + i

Pending ==
    /\ Len(delivered) + Len(batch) + Len(pendingEvents) = accepted
    /\ \A i \in 1 .. Len(pendingEvents) :
          pendingEvents[i] = Len(delivered) + Len(batch) + i

\* A closed dispatcher holds no messages back, and the batch is empty unless
\* JavaScript is about to be called with it.
Idle == /\ ~active => pendingEvents = <<>>
        /\ phase # "calling" => batch = <<>>

OrderInv == Delivered /\ InBatch /\ Idle /\ (Live => Pending)

LEMMA SeqFacts ==
    TypeOK => /\ pendingEvents \in Seq(Messages) /\ Len(pendingEvents) \in Nat
              /\ batch \in Seq(Messages) /\ Len(batch) \in Nat
              /\ delivered \in Seq(Messages) /\ Len(delivered) \in Nat
              /\ accepted \in Nat
              /\ Len(<<>>) = 0
              /\ phase = "idle" => phase # "calling"
  BY DEF TypeOK

LEMMA OrderStep ==
    ASSUME TypeOK, Quiesced, OrderInv, [Next]_vars
    PROVE  OrderInv'
<1> USE DEF OrderInv
<1>1. CASE Emit
  <2>1. /\ UNCHANGED <<active, tsfnClosing, phase, batch, delivered>>
        /\ active
        /\ accepted' = accepted + 1
    BY <1>1, Zenon DEF Emit, nativeVars
  <2>2. Live' => pendingEvents' = Append(pendingEvents, accepted + 1)
    BY <1>1, <2>1, Zenon DEF Emit, QueueDispatchLocked, Live
  <2>3. accepted + 1 \in Messages
    BY <1>1, Bounds, SeqFacts DEF Emit, Messages
  <2>4. Live' => Pending'
    <3>1. SUFFICES ASSUME Live' PROVE Pending'
      OBVIOUS
    <3>2. Pending
      BY <2>1, <3>1, Zenon DEF Live
    <3>3. /\ Len(pendingEvents') = Len(pendingEvents) + 1
          /\ \A i \in 1 .. Len(pendingEvents) : pendingEvents'[i] = pendingEvents[i]
          /\ pendingEvents'[Len(pendingEvents) + 1] = accepted + 1
      BY <2>2, <2>3, <3>1, SeqFacts, AppendElems
    <3>4. ASSUME NEW i \in 1 .. Len(pendingEvents')
          PROVE  pendingEvents'[i] = Len(delivered) + Len(batch) + i
      <4>1. i \in 1 .. Len(pendingEvents) \/ i = Len(pendingEvents) + 1
        BY <3>3, SeqFacts
      <4> QED BY <3>2, <3>3, <4>1, SeqFacts DEF Pending
    <3>5. Len(delivered) + Len(batch) + Len(pendingEvents') = accepted + 1
      BY <3>2, <3>3, SeqFacts DEF Pending
    <3> QED BY <2>1, <3>4, <3>5, Zenon DEF Pending
  <2>5. Delivered' /\ InBatch'
    BY <2>1, Zenon DEF Delivered, InBatch
  <2>6. Idle'
    BY <2>1, Zenon DEF Idle
  <2> QED BY <2>4, <2>5, <2>6
<1>2. CASE EmitDirect
  BY <1>2, Zenon
     DEF EmitDirect, nativeVars, Delivered, InBatch, Idle, Live, Pending
<1>3. CASE Close
  BY <1>3, Zenon DEF Close, Delivered, InBatch, Idle, Live
<1>4. CASE EnvTeardown
  BY <1>4, Zenon DEF EnvTeardown, Delivered, InBatch, Idle, Live
<1>5. CASE DispatchDirect
  BY <1>5, Zenon
     DEF DispatchDirect, nativeVars, Delivered, InBatch, Idle, Live, Pending
<1>6. CASE DrainSwap
  <2>1. CASE pendingEvents = <<>>
    BY <1>6, <2>1, Zenon
       DEF DrainSwap, nativeVars, Delivered, InBatch, Idle, Live, Pending
  <2>2. CASE pendingEvents # <<>>
    <3>1. /\ batch' = pendingEvents /\ pendingEvents' = <<>>
          /\ phase' = "calling"
          /\ UNCHANGED <<active, tsfnClosing, delivered, accepted>>
          /\ phase = "idle" /\ tsfnQueue # <<>>
      BY <1>6, <2>2, Zenon DEF DrainSwap, nativeVars
    <3>2. Live /\ batch = <<>> /\ Pending
      <4>1. Live
        BY <2>2, <3>1, Zenon DEF Live, Idle, Quiesced
      <4>2. batch = <<>>
        BY <3>1, SeqFacts, Zenon DEF Idle
      <4> QED BY <4>1, <4>2
    <3>3. InBatch' /\ Pending'
      BY <3>1, <3>2, SeqFacts DEF InBatch, Pending
    <3>4. Delivered' /\ Idle'
      BY <3>1, Zenon DEF Delivered, Idle
    <3> QED BY <3>3, <3>4
  <2> QED BY <2>1, <2>2
<1>7. CASE DrainCall
  <2>1. /\ delivered' = delivered \o batch /\ batch' = <<>>
        /\ UNCHANGED <<active, tsfnClosing, pendingEvents, accepted>>
    BY <1>7, Zenon DEF DrainCall, nativeVars
  <2>2. /\ Len(delivered') = Len(delivered) + Len(batch)
        /\ \A i \in 1 .. Len(delivered) : delivered'[i] = delivered[i]
        /\ \A i \in 1 .. Len(batch) : delivered'[Len(delivered) + i] = batch[i]
    <3>1. batch \in Seq(Messages) /\ delivered \in Seq(Messages)
      BY SeqFacts
    <3> QED BY <2>1, <3>1, Concatenated
  <2>3. Delivered'
    <3> SUFFICES ASSUME NEW i \in 1 .. Len(delivered')
                 PROVE  delivered'[i] = i
      BY DEF Delivered
    <3>1. CASE i <= Len(delivered)
      BY <2>2, <3>1, SeqFacts DEF Delivered
    <3>2. CASE i > Len(delivered)
      <4>1. /\ i - Len(delivered) \in 1 .. Len(batch)
            /\ i = Len(delivered) + (i - Len(delivered))
        BY <2>2, <3>2, SeqFacts
      <4> QED BY <2>2, <4>1, SeqFacts DEF InBatch
    <3> QED BY <2>2, <3>1, <3>2, SeqFacts
  <2>4. InBatch' /\ Idle'
    BY <2>1, SeqFacts DEF InBatch, Idle
  <2>5. Live' => Pending'
    <3>1. Live' => Pending
      BY <2>1, Zenon DEF Live
    <3> QED BY <2>1, <2>2, <3>1, SeqFacts DEF Pending
  <2> QED BY <2>3, <2>4, <2>5
<1>8. CASE DrainFinish
  <2>1. /\ UNCHANGED <<active, tsfnClosing, batch, delivered, accepted>>
        /\ phase # "calling"
        /\ UNCHANGED pendingEvents \/ (tsfnClosing /\ pendingEvents' = <<>>)
    BY <1>8, Zenon DEF DrainFinish, QueueDispatchLocked, nativeVars
  <2>2. batch = <<>>
    BY <2>1 DEF Idle
  <2>3. Delivered' /\ InBatch'
    BY <2>1, Zenon DEF Delivered, InBatch
  <2>4. Idle'
    BY <2>1, <2>2, Zenon DEF Idle
  <2>5. Live' => Pending'
    BY <2>1, Zenon DEF Live, Pending
  <2> QED BY <2>3, <2>4, <2>5
<1>9. CASE DrainThrow
  <2>1. /\ UNCHANGED <<active, tsfnClosing, pendingEvents, batch, delivered,
                       accepted>>
        /\ phase # "calling"
    BY <1>9, Zenon DEF DrainThrow, nativeVars
  <2>2. Idle'
    BY <2>1 DEF Idle
  <2> QED BY <2>1, <2>2, Zenon DEF Delivered, InBatch, Live, Pending
<1>10. CASE UNCHANGED vars
  BY <1>10, Zenon DEF vars, Delivered, InBatch, Idle, Live, Pending
<1> QED BY <1>1, <1>2, <1>3, <1>4, <1>5, <1>6, <1>7, <1>8, <1>9, <1>10
        DEF Next, JavaScript

\* The direct events in the queue keep the order they were emitted in.
Numbered(q, n) ==
    /\ \A i \in DOMAIN q : ~IsDrain(q[i]) => q[i].n \in 1 .. n
    /\ \A i, j \in DOMAIN q :
          i < j /\ ~IsDrain(q[i]) /\ ~IsDrain(q[j]) => q[i].n < q[j].n

\* The n-th direct event has not reached JavaScript.
Queued(q, n) == \E i \in DOMAIN q : ~IsDrain(q[i]) /\ q[i].n = n
Coming(n) == n > directs \/ Queued(tsfnQueue, n)

LEMMA NumberedAppend ==
    ASSUME NEW q \in Seq(Items), NEW n \in Nat, Numbered(q, n), NEW item \in Items
    PROVE  /\ IsDrain(item) => Numbered(Append(q, item), n)
           /\ item.n = n + 1 => Numbered(Append(q, item), n + 1)
           /\ \A m : IsDrain(item) /\ Queued(Append(q, item), m) => Queued(q, m)
           /\ \A m : Queued(Append(q, item), m) => Queued(q, m) \/ m = item.n
<1> DEFINE r == Append(q, item)
<1>1. /\ DOMAIN q = 1 .. Len(q) /\ Len(q) \in Nat
      /\ DOMAIN r = 1 .. Len(q) + 1
      /\ \A i \in 1 .. Len(q) : r[i] = q[i]
      /\ r[Len(q) + 1] = item
  BY AppendElems
<1>2. \A i \in DOMAIN r : \/ i \in DOMAIN q /\ r[i] = q[i]
                          \/ i = Len(q) + 1 /\ r[i] = item
  BY <1>1
<1>3. \A i \in DOMAIN q : i < Len(q) + 1 /\ ~(Len(q) + 1 < i)
  BY <1>1
<1>4. ~(Len(q) + 1 < Len(q) + 1)
  BY <1>1
<1> HIDE DEF r
<1>5. ASSUME IsDrain(item)
      PROVE  Numbered(r, n) /\ \A m : Queued(r, m) => Queued(q, m)
  <2>1. \A i \in DOMAIN r : ~IsDrain(r[i]) => i \in DOMAIN q /\ r[i] = q[i]
    BY <1>2, <1>5, Zenon
  <2> QED BY <2>1, Zenon DEF Numbered, Queued
<1>6. ASSUME item.n = n + 1 PROVE Numbered(r, n + 1)
  <2>1. \A i \in DOMAIN q : ~IsDrain(q[i]) =>
            /\ q[i].n \in 1 .. n + 1 /\ q[i].n < n + 1
    BY DEF Numbered
  <2>2. n + 1 \in 1 .. n + 1
    OBVIOUS
  <2>3. \A i \in DOMAIN r : ~IsDrain(r[i]) => r[i].n \in 1 .. n + 1
    BY <1>2, <1>6, <2>1, <2>2, Zenon
  <2>4. ASSUME NEW i \in DOMAIN r, NEW j \in DOMAIN r, i < j,
               ~IsDrain(r[i]), ~IsDrain(r[j])
        PROVE  r[i].n < r[j].n
    <3>1. i \in DOMAIN q /\ r[i] = q[i]
      BY <1>2, <1>3, <1>4, <2>4, Zenon
    <3>2. CASE j \in DOMAIN q /\ r[j] = q[j]
      BY <2>4, <3>1, <3>2, Zenon DEF Numbered
    <3>3. CASE j = Len(q) + 1 /\ r[j] = item
      BY <1>6, <2>1, <2>4, <3>1, <3>3, Zenon
    <3> QED BY <1>2, <3>2, <3>3
  <2> QED BY <2>3, <2>4, Zenon DEF Numbered
<1>7. \A m : Queued(r, m) => Queued(q, m) \/ m = item.n
  BY <1>2, Zenon DEF Queued
<1> QED BY <1>5, <1>6, <1>7 DEF r

LEMMA NumberedTail ==
    ASSUME NEW q \in Seq(Items), NEW n \in Nat, Numbered(q, n), q # <<>>
    PROVE  /\ Numbered(Tail(q), n)
           /\ \A m : Queued(Tail(q), m) => Queued(q, m)
           /\ ~IsDrain(Head(q)) =>
                 /\ Head(q).n \in 1 .. n /\ Queued(q, Head(q).n)
                 /\ \A m : Queued(Tail(q), m) => Head(q).n < m
<1>1. /\ Len(q) \in Nat \ {0} /\ DOMAIN q = 1 .. Len(q) /\ Head(q) = q[1]
      /\ DOMAIN Tail(q) = 1 .. Len(q) - 1
      /\ \A i \in 1 .. Len(q) - 1 : Tail(q)[i] = q[i + 1]
  BY TailElems
<1>2. /\ \A i \in DOMAIN Tail(q) : i + 1 \in DOMAIN q /\ Tail(q)[i] = q[i + 1] /\ 1 < i + 1
      /\ \A i, j \in DOMAIN Tail(q) : i < j => i + 1 < j + 1
      /\ 1 \in DOMAIN q
  BY <1>1
<1>3. Numbered(Tail(q), n)
  BY <1>2, Zenon DEF Numbered
<1>4. \A m : Queued(Tail(q), m) => Queued(q, m)
  BY <1>2, Zenon DEF Queued
<1>5. ASSUME ~IsDrain(Head(q)) PROVE Head(q).n \in 1 .. n /\ Queued(q, Head(q).n)
  BY <1>1, <1>2, <1>5, Zenon DEF Numbered, Queued
<1>6. ASSUME ~IsDrain(Head(q)), NEW m, Queued(Tail(q), m) PROVE Head(q).n < m
  BY <1>1, <1>2, <1>6, Zenon DEF Numbered, Queued
<1> QED BY <1>3, <1>4, <1>5, <1>6

LEMMA NumberedStep ==
    ASSUME TypeOK, Numbered(tsfnQueue, directs), [Next]_vars
    PROVE  /\ Numbered(tsfnQueue, directs)'
           /\ \A n \in Nat : Coming(n)' => Coming(n)
<1>1. /\ tsfnQueue \in Seq(Items) /\ directs \in Nat
      /\ DrainItem \in Items /\ DirectItem \in Items /\ IsDrain(DrainItem)
      /\ DirectItem.n = directs + 1
  <2>1. directs \in Nat
    BY Bounds DEF TypeOK
  <2>2. IsDrain(DrainItem) /\ DirectItem.n = directs + 1
    BY DEF IsDrain, DrainItem, DirectItem
  <2>3. tsfnQueue \in Seq(Items)
    BY DEF TypeOK
  <2> QED BY <2>1, <2>2, <2>3, ItemTypes
<1> DEFINE q == tsfnQueue
           more == Append(q, DrainItem)
           direct == Append(q, DirectItem)
<1>2. /\ Numbered(more, directs) /\ Numbered(direct, directs + 1)
      /\ \A m : Queued(more, m) => Queued(q, m)
      /\ \A m : Queued(direct, m) => Queued(q, m) \/ m = directs + 1
  BY <1>1, NumberedAppend
<1>3. /\ Numbered(<<>>, directs) /\ ~ \E m : Queued(<<>>, m)
      /\ directs + 1 \in Nat /\ \A n \in Nat : n > directs + 1 => n > directs
      /\ directs + 1 > directs
  BY <1>1 DEF Numbered, Queued
<1>4. \A i \in DOMAIN q : ~IsDrain(q[i]) => q[i].n \in 1 .. directs + 1
  BY <1>1 DEF Numbered
<1> HIDE DEF more, direct
<1>5. CASE Emit \/ DrainFinish \/ EnvTeardown \/ Close \/ DrainCall \/ DrainThrow
           \/ UNCHANGED vars
  <2>1. tsfnQueue' \in {q, more, <<>>} /\ directs' = directs
    BY <1>5, Zenon DEF Emit, DrainFinish, EnvTeardown, Close, DrainCall, DrainThrow,
       vars, nativeVars, QueueDispatchLocked, more
  <2> QED BY <1>2, <1>3, <2>1, Zenon DEF Coming
<1>6. CASE EmitDirect
  <2>1. tsfnQueue' \in {q, direct} /\ directs' = directs + 1
    BY <1>6, Zenon DEF EmitDirect, nativeVars, direct
  <2>2. Numbered(q, directs + 1)
    BY <1>4, Zenon DEF Numbered
  <2> QED BY <1>2, <1>3, <2>1, <2>2, Zenon DEF Coming
<1>7. CASE DispatchDirect \/ DrainSwap
  <2>1. tsfnQueue' = Tail(q) /\ directs' = directs /\ q # <<>>
    BY <1>7, Zenon DEF DispatchDirect, DrainSwap, nativeVars
  <2>2. Numbered(Tail(q), directs) /\ \A m : Queued(Tail(q), m) => Queued(q, m)
    BY <1>1, <2>1, NumberedTail
  <2> QED BY <2>1, <2>2, Zenon DEF Coming
<1> QED BY <1>5, <1>6, <1>7 DEF Next, JavaScript

\* The direct event JavaScript is given: those before it have been, itself is now.
LEMMA Arriving ==
    ASSUME TypeOK, Numbered(tsfnQueue, directs), DispatchDirect
    PROVE  /\ Head(tsfnQueue).n \in 1 .. directs /\ directs \in 0 .. MaxDirect
           /\ Coming(Head(tsfnQueue).n)
           /\ \A n \in Nat : n <= Head(tsfnQueue).n => ~Coming(n)'
<1>1. /\ tsfnQueue \in Seq(Items) /\ directs \in Nat /\ directs \in 0 .. MaxDirect
      /\ tsfnQueue # <<>> /\ ~IsDrain(Head(tsfnQueue))
      /\ tsfnQueue' = Tail(tsfnQueue) /\ directs' = directs
  BY Bounds DEF TypeOK, DispatchDirect
<1>2. /\ Head(tsfnQueue).n \in 1 .. directs /\ Queued(tsfnQueue, Head(tsfnQueue).n)
      /\ \A m : Queued(Tail(tsfnQueue), m) => Head(tsfnQueue).n < m
  BY <1>1, NumberedTail
<1>3. ASSUME NEW n \in Nat, n <= Head(tsfnQueue).n PROVE ~Coming(n)'
  <2>1. ~(n > directs) /\ ~(Head(tsfnQueue).n < n)
    BY <1>1, <1>2, <1>3
  <2> QED BY <1>1, <1>2, <2>1, Zenon DEF Coming
<1> QED BY <1>1, <1>2, <1>3 DEF Coming

\* The types and the order together, for what is built on the dispatcher.
Ordered == TypeOK /\ DrainInv /\ OrderInv /\ Numbered(tsfnQueue, directs)

LEMMA OrderedInit == Init => Ordered
<1>1. ~HasDrain(<<>>) /\ SingleDrain(<<>>)
  BY DEF HasDrain, SingleDrain
<1>2. Init => DrainInv
  BY <1>1, Zenon DEF Init, DrainInv, Quiesced, Scheduled, OneDrain, Outstanding
<1>3. Init => OrderInv /\ Numbered(tsfnQueue, directs)
  BY DEF Init, OrderInv, Delivered, InBatch, Idle, Live, Pending, Numbered
<1> QED BY <1>2, <1>3, TypeInit DEF Ordered

LEMMA OrderedStep ==
    ASSUME Ordered, [Next]_vars
    PROVE  Ordered'
<1>1. TypeOK'
  BY TypeStep DEF Ordered
<1> QED BY <1>1, DrainInvStep, OrderStep, NumberedStep DEF Ordered, DrainInv

LEMMA OrderImplies == TypeOK /\ OrderInv => NothingLost
<1> SUFFICES ASSUME TypeOK, OrderInv PROVE NothingLost
  OBVIOUS
<1>1. \A i \in DOMAIN delivered : delivered[i] = i
  BY SeqFacts DEF OrderInv, Delivered
<1>2. ASSUME Live
      PROVE  /\ Len(delivered) + Len(Undelivered) = accepted
             /\ \A i \in DOMAIN Undelivered :
                   Undelivered[i] = Len(delivered) + i
  <2>1. /\ Undelivered \in Seq(Messages)
        /\ Len(Undelivered) = Len(batch) + Len(pendingEvents)
        /\ \A i \in 1 .. Len(batch) : Undelivered[i] = batch[i]
        /\ \A i \in 1 .. Len(pendingEvents) :
              Undelivered[Len(batch) + i] = pendingEvents[i]
    <3>1. batch \in Seq(Messages) /\ pendingEvents \in Seq(Messages)
      BY SeqFacts
    <3> QED BY <3>1, Concatenated DEF Undelivered
  <2>2. Pending /\ InBatch
    BY <1>2 DEF OrderInv
  <2>3. ASSUME NEW i \in DOMAIN Undelivered
        PROVE  Undelivered[i] = Len(delivered) + i
    <3>1. i \in 1 .. Len(batch) + Len(pendingEvents)
      BY <2>1
    <3>2. CASE i <= Len(batch)
      BY <2>1, <2>2, <3>1, <3>2, SeqFacts DEF InBatch
    <3>3. CASE i > Len(batch)
      <4>1. /\ i - Len(batch) \in 1 .. Len(pendingEvents)
            /\ i = Len(batch) + (i - Len(batch))
        BY <3>1, <3>3, SeqFacts
      <4> QED BY <2>1, <2>2, <4>1, SeqFacts DEF Pending
    <3> QED BY <3>1, <3>2, <3>3, SeqFacts
  <2> QED BY <2>1, <2>2, <2>3, SeqFacts DEF Pending
<1> QED BY <1>1, <1>2, Zenon DEF NothingLost, Live

\* Messages come out in the order they went in; an open dispatcher loses none.
THEOREM MessagesInOrder == Spec => []NothingLost
<1>1. Init => OrderInv
  BY DEF Init, OrderInv, Delivered, InBatch, Idle, Live, Pending
<1>2. Init => DrainInv
  <2>1. ~HasDrain(<<>>) /\ SingleDrain(<<>>)
    BY DEF HasDrain, SingleDrain
  <2> QED BY <2>1, Zenon DEF Init, DrainInv, Quiesced, Scheduled, OneDrain,
             Outstanding
<1>3. TypeOK /\ TypeOK' /\ (DrainInv /\ OrderInv) /\ [Next]_vars =>
          (DrainInv /\ OrderInv)'
  BY DrainInvStep, OrderStep DEF DrainInv
<1>4. TypeOK /\ DrainInv /\ OrderInv => NothingLost
  BY OrderImplies
<1> QED BY <1>1, <1>2, <1>3, <1>4, TypeCorrect, PTL DEF Spec

-----------------------------------------------------------------------------
\* What JavaScript has been given or is about to be given was accepted.
Bounded == /\ Len(delivered) + Len(batch) <= accepted
           /\ phase = "calling" => batch # <<>>

LEMMA BoundedStep ==
    ASSUME TypeOK, Quiesced, OrderInv, Bounded, [Next]_vars
    PROVE  Bounded'
<1>1. CASE Emit
  <2>1. /\ UNCHANGED <<phase, batch, delivered>> /\ accepted' = accepted + 1
    BY <1>1, Zenon DEF Emit, nativeVars
  <2> QED BY <2>1, SeqFacts DEF Bounded
<1>2. CASE EmitDirect \/ Close \/ EnvTeardown \/ DispatchDirect \/ UNCHANGED vars
  BY <1>2, Zenon DEF EmitDirect, Close, EnvTeardown, DispatchDirect, vars,
     nativeVars, Bounded
<1>3. CASE DrainSwap
  <2>1. CASE pendingEvents = <<>>
    BY <1>3, <2>1, Zenon DEF DrainSwap, nativeVars, Bounded
  <2>2. CASE pendingEvents # <<>>
    <3>1. /\ batch' = pendingEvents /\ UNCHANGED <<delivered, accepted>>
          /\ phase = "idle" /\ tsfnQueue # <<>>
      BY <1>3, <2>2, Zenon DEF DrainSwap, nativeVars
    <3>2. Live /\ batch = <<>>
      BY <2>2, <3>1, SeqFacts, Zenon DEF OrderInv, Live, Idle, Quiesced
    <3>3. Pending
      BY <3>2 DEF OrderInv
    <3>4. Len(delivered) + Len(batch') <= accepted'
      BY <3>1, <3>2, <3>3, SeqFacts DEF Pending
    <3> QED BY <2>2, <3>1, <3>4, Zenon DEF Bounded
  <2> QED BY <2>1, <2>2
<1>4. CASE DrainCall
  <2>1. /\ delivered' = delivered \o batch /\ batch' = <<>>
        /\ accepted' = accepted /\ phase' # "calling"
    BY <1>4, Zenon DEF DrainCall, nativeVars
  <2>2. Len(delivered') = Len(delivered) + Len(batch)
    <3>1. batch \in Seq(Messages) /\ delivered \in Seq(Messages)
      BY SeqFacts
    <3> QED BY <2>1, <3>1, Concatenated
  <2> QED BY <2>1, <2>2, SeqFacts DEF Bounded
<1>5. CASE DrainFinish \/ DrainThrow
  <2>1. UNCHANGED <<batch, delivered, accepted>> /\ phase' = "idle"
    BY <1>5, Zenon DEF DrainFinish, DrainThrow, nativeVars
  <2>2. phase' # "calling"
    BY <2>1
  <2> QED BY <2>1, <2>2, Zenon DEF Bounded
<1> QED BY <1>1, <1>2, <1>3, <1>4, <1>5 DEF Next, JavaScript

\* The messages 1, 2, ..., n.
UpTo(n) == [i \in 1 .. n |-> i]

LEMMA Counting ==
    ASSUME NEW n \in 0 .. MaxMessages
    PROVE  /\ UpTo(n) \in Seq(Messages) /\ Len(UpTo(n)) = n
           /\ n < MaxMessages => UpTo(n + 1) = Append(UpTo(n), n + 1)
           /\ \A k \in 0 .. n : UpTo(k) = SubSeq(UpTo(n), 1, k)
<1>1. \A m \in 0 .. MaxMessages : UpTo(m) \in Seq(Messages) /\ Len(UpTo(m)) = m
  BY Bounds DEF UpTo, Messages
<1>2. ASSUME n < MaxMessages PROVE UpTo(n + 1) = Append(UpTo(n), n + 1)
  <2>1. n + 1 \in Messages /\ n + 1 \in 0 .. MaxMessages
    BY <1>2, Bounds DEF Messages
  <2>2. /\ Append(UpTo(n), n + 1) \in Seq(Messages)
        /\ Len(Append(UpTo(n), n + 1)) = n + 1
        /\ \A i \in 1 .. n : Append(UpTo(n), n + 1)[i] = UpTo(n)[i]
        /\ Append(UpTo(n), n + 1)[n + 1] = n + 1
    BY <1>1, <2>1, AppendProperties
  <2>3. \A i \in 1 .. n + 1 : UpTo(n + 1)[i] = Append(UpTo(n), n + 1)[i]
    BY <2>2, Bounds DEF UpTo
  <2> QED BY <1>1, <2>1, <2>2, <2>3, SeqEqual
<1>3. ASSUME NEW k \in 0 .. n PROVE UpTo(k) = SubSeq(UpTo(n), 1, k)
  <2>1. k \in 0 .. MaxMessages /\ k \in Int /\ 1 \in Int
    BY Bounds
  <2>2. \A i \in 1 .. k : UpTo(n)[i] \in Messages
    BY Bounds DEF UpTo, Messages
  <2>3. /\ SubSeq(UpTo(n), 1, k) \in Seq(Messages)
        /\ Len(SubSeq(UpTo(n), 1, k)) = k
        /\ \A i \in 1 .. k : SubSeq(UpTo(n), 1, k)[i] = UpTo(n)[i]
    <3>1. /\ SubSeq(UpTo(n), 1, k) \in Seq(Messages)
          /\ Len(SubSeq(UpTo(n), 1, k)) = IF 1 <= k THEN k - 1 + 1 ELSE 0
          /\ \A i \in 1 .. k - 1 + 1 : SubSeq(UpTo(n), 1, k)[i] = UpTo(n)[1 + i - 1]
      BY <2>1, <2>2, SubSeqProperties
    <3>2. k - 1 + 1 = k /\ \A i \in 1 .. k : 1 + i - 1 = i
      BY <2>1
    <3> QED BY <3>1, <3>2
  <2>4. \A i \in 1 .. k : UpTo(k)[i] = SubSeq(UpTo(n), 1, k)[i]
    BY <2>3 DEF UpTo
  <2> QED BY <1>1, <2>1, <2>3, <2>4, SeqEqual
<1> QED BY <1>1, <1>2, <1>3

PathOpen == active /\ ~tsfnClosing /\ ~thrown

\* A step of the dispatcher is one of the path or leaves it alone: Emit accepts,
\* DrainCall delivers, and Close, EnvTeardown and DrainThrow shut it.
LEMMA PathStep ==
    ASSUME TypeOK, TypeOK', OrderInv, OrderInv', Bounded, [Next]_vars
    PROVE  [Path!Next]_(Path!vars)
<1> DEFINE PathAccept == /\ \E m \in Messages : UpTo(accepted)' = Append(UpTo(accepted), m)
                         /\ delivered' = delivered /\ PathOpen' = PathOpen
           PathDeliver == /\ \E k \in Len(delivered) + 1 .. Len(UpTo(accepted)) :
                                delivered' = SubSeq(UpTo(accepted), 1, k)
                          /\ UpTo(accepted)' = UpTo(accepted) /\ PathOpen' = PathOpen
           PathShut == /\ PathOpen /\ PathOpen' = FALSE
                       /\ UpTo(accepted)' = UpTo(accepted) /\ delivered' = delivered
           Same == /\ UpTo(accepted)' = UpTo(accepted)
                   /\ delivered' = delivered /\ PathOpen' = PathOpen
<1> SUFFICES PathAccept \/ PathDeliver \/ PathShut \/ Same
  BY Zenon DEF Path!Next, Path!vars, Path!Accept, Path!Deliver, Path!Shut, UpTo, PathOpen
<1>1. CASE Emit
  <2>1. /\ accepted' = accepted + 1 /\ accepted < MaxMessages
        /\ UNCHANGED <<active, tsfnClosing, thrown, delivered>>
    BY <1>1, Zenon DEF Emit, nativeVars
  <2>2. accepted \in 0 .. MaxMessages /\ accepted + 1 \in Messages
    BY <2>1, Bounds DEF TypeOK, Messages
  <2>3. UpTo(accepted)' = Append(UpTo(accepted), accepted + 1)
    <3>1. UpTo(accepted)' = UpTo(accepted + 1)
      BY <2>1 DEF UpTo
    <3> QED BY <2>1, <2>2, <3>1, Counting
  <2>4. PathAccept
    BY <2>1, <2>2, <2>3, Zenon DEF PathOpen
  <2> QED BY <2>4
<1> HIDE DEF PathAccept, PathDeliver, PathShut, Same
<1>2. CASE DrainCall
  <2>1. /\ delivered' = delivered \o batch /\ phase = "calling"
        /\ UNCHANGED <<active, tsfnClosing, thrown, accepted>>
    BY <1>2, Zenon DEF DrainCall, nativeVars
  <2> DEFINE k == Len(delivered) + Len(batch)
  <2>2. /\ delivered' \in Seq(Messages) /\ Len(delivered') = k
        /\ k \in Len(delivered) + 1 .. accepted
        /\ accepted \in 0 .. MaxMessages
    <3>1. batch \in Seq(Messages) /\ delivered \in Seq(Messages)
      BY SeqFacts
    <3>2. delivered' \in Seq(Messages) /\ Len(delivered') = k
      BY <2>1, <3>1, Concatenated
    <3>3. batch # <<>> /\ k <= accepted
      BY <2>1 DEF Bounded
    <3>4. Len(batch) > 0
      BY <3>1, <3>3
    <3> QED BY <3>2, <3>3, <3>4, SeqFacts DEF TypeOK
  <2>3. delivered' = UpTo(k)
    <3>1. /\ UpTo(k) \in Seq(Messages) /\ Len(UpTo(k)) = k
      BY <2>2, Bounds, SeqFacts, Counting
    <3>2. \A i \in 1 .. Len(delivered') : delivered'[i] = UpTo(k)[i]
      BY <2>2 DEF OrderInv, Delivered, UpTo
    <3> QED BY <2>2, <3>1, <3>2, SeqEqual
  <2>4. UpTo(k) = SubSeq(UpTo(accepted), 1, k) /\ Len(UpTo(accepted)) = accepted
    <3>1. k \in 0 .. accepted
      BY <2>2, SeqFacts
    <3> QED BY <2>2, <3>1, Counting
  <2>5. UpTo(accepted)' = UpTo(accepted)
    BY <2>1 DEF UpTo
  <2>6. PathDeliver
    BY <2>1, <2>2, <2>3, <2>4, <2>5, Zenon DEF PathOpen, PathDeliver
  <2> QED BY <2>6
<1>3. CASE Close \/ EnvTeardown \/ DrainThrow
  <2>1. /\ UNCHANGED <<accepted, delivered>> /\ ~PathOpen'
    BY <1>3, Zenon DEF Close, EnvTeardown, DrainThrow, PathOpen
  <2>2. UpTo(accepted)' = UpTo(accepted)
    BY <2>1 DEF UpTo
  <2>3. PathShut \/ Same
    BY <2>1, <2>2, Zenon DEF PathShut, Same, PathOpen
  <2> QED BY <2>3
<1>4. CASE EmitDirect \/ DispatchDirect \/ DrainSwap \/ DrainFinish \/ UNCHANGED vars
  <2>1. UNCHANGED <<accepted, delivered, active, tsfnClosing, thrown>>
    BY <1>4, Zenon DEF EmitDirect, DispatchDirect, DrainSwap, DrainFinish, vars,
       nativeVars
  <2>2. Same
    BY <2>1, Zenon DEF UpTo, PathOpen, Same
  <2> QED BY <2>2
<1> QED BY <1>1, <1>2, <1>3, <1>4 DEF Next, JavaScript

\* The safety half of OrderedPath: whatever the number of messages, the dispatcher
\* does what an ordered path may do, until it is closed or a callback throws.
THEOREM ImplementsPath == Spec => Path!Init /\ [][Path!Next]_(Path!vars)
<1>1. Init => Path!Init
  <2> SUFFICES ASSUME Init PROVE Path!Init
    OBVIOUS
  <2>1. [i \in 1 .. accepted |-> i] = <<>>
    BY DEF Init
  <2> QED BY <2>1, Zenon DEF Init, Path!Init
<1>2. Init => DrainInv /\ OrderInv /\ Bounded
  <2>1. ~HasDrain(<<>>) /\ SingleDrain(<<>>)
    BY DEF HasDrain, SingleDrain
  <2>2. Init => DrainInv
    BY <2>1, Zenon DEF Init, DrainInv, Quiesced, Scheduled, OneDrain, Outstanding
  <2>3. Init => OrderInv /\ Bounded
    BY DEF Init, OrderInv, Delivered, InBatch, Idle, Live, Pending, Bounded
  <2> QED BY <2>2, <2>3
<1>3. TypeOK /\ TypeOK' /\ (DrainInv /\ OrderInv /\ Bounded) /\ [Next]_vars =>
          (DrainInv /\ OrderInv /\ Bounded)'
  BY DrainInvStep, OrderStep, BoundedStep DEF DrainInv
<1>4. TypeOK /\ TypeOK' /\ (DrainInv /\ OrderInv /\ Bounded)
          /\ (DrainInv /\ OrderInv /\ Bounded)' /\ [Next]_vars =>
          [Path!Next]_(Path!vars)
  BY PathStep
<1> QED BY <1>1, <1>2, <1>3, <1>4, TypeCorrect, PTL DEF Spec

-----------------------------------------------------------------------------
\* How many messages a direct event waits for: no more than were accepted, and once
\* no drain is queued before it, those JavaScript has or is about to be given.
Due == Len(delivered) + Len(batch)

First(queue, i) == \A j \in DOMAIN queue : j < i => ~IsDrain(queue[j])

Waits(queue, all, due) ==
    \A i \in DOMAIN queue : /\ queue[i].behind <= all
                            /\ First(queue, i) => queue[i].behind <= due

DirectInv == PathOpen => Waits(tsfnQueue, accepted, Due)

LEMMA WaitsAppend ==
    ASSUME NEW queue \in Seq(Items), NEW all \in Nat, NEW due \in Nat, NEW item \in Items,
           Waits(queue, all, due), item.behind <= all,
           ~HasDrain(queue) => item.behind <= due
    PROVE  Waits(Append(queue, item), all, due)
<1>1. /\ DOMAIN queue = 1 .. Len(queue) /\ Len(queue) \in Nat
      /\ DOMAIN Append(queue, item) = 1 .. Len(queue) + 1
      /\ \A i \in 1 .. Len(queue) : Append(queue, item)[i] = queue[i]
      /\ Append(queue, item)[Len(queue) + 1] = item
  BY AppendElems
<1> SUFFICES ASSUME NEW i \in 1 .. Len(queue) + 1
             PROVE  /\ Append(queue, item)[i].behind <= all
                    /\ First(Append(queue, item), i) =>
                          Append(queue, item)[i].behind <= due
  BY <1>1 DEF Waits
<1>2. CASE i \in 1 .. Len(queue)
  <2>1. First(Append(queue, item), i) => First(queue, i)
    BY <1>1, <1>2 DEF First
  <2> QED BY <1>1, <1>2, <2>1 DEF Waits
<1>3. CASE i = Len(queue) + 1
  <2>1. First(Append(queue, item), i) => ~HasDrain(queue)
    BY <1>1, <1>3 DEF First, HasDrain
  <2> QED BY <1>1, <1>3, <2>1
<1> QED BY <1>2, <1>3

LEMMA WaitsTail ==
    ASSUME NEW queue \in Seq(Items), queue # <<>>, NEW all \in Nat, NEW due \in Nat,
           Waits(queue, all, due)
    PROVE  /\ IsDrain(Head(queue)) => Waits(Tail(queue), all, all)
           /\ ~IsDrain(Head(queue)) => Waits(Tail(queue), all, due)
<1>1. /\ Len(queue) \in Nat \ {0} /\ DOMAIN queue = 1 .. Len(queue)
      /\ Head(queue) = queue[1]
      /\ DOMAIN Tail(queue) = 1 .. Len(queue) - 1
      /\ \A i \in 1 .. Len(queue) - 1 : Tail(queue)[i] = queue[i + 1]
  BY TailElems
<1>2. \A i \in DOMAIN Tail(queue) : Tail(queue)[i].behind <= all
  BY <1>1 DEF Waits
<1>3. ASSUME ~IsDrain(Head(queue)), NEW i \in DOMAIN Tail(queue), First(Tail(queue), i)
      PROVE  Tail(queue)[i].behind <= due
  <2>1. First(queue, i + 1)
    <3> SUFFICES ASSUME NEW j \in 1 .. Len(queue), j < i + 1 PROVE ~IsDrain(queue[j])
      BY <1>1 DEF First
    <3>1. CASE j = 1
      BY <1>1, <1>3, <3>1
    <3>2. CASE j > 1
      <4>1. j - 1 \in DOMAIN Tail(queue) /\ j - 1 < i /\ (j - 1) + 1 = j
        BY <1>1, <3>2
      <4> QED BY <1>1, <1>3, <4>1 DEF First
    <3> QED BY <3>1, <3>2
  <2>2. i + 1 \in DOMAIN queue /\ Tail(queue)[i] = queue[i + 1]
    BY <1>1
  <2> QED BY <2>1, <2>2 DEF Waits
<1> QED BY <1>2, <1>3 DEF Waits

LEMMA WaitsMore ==
    ASSUME NEW queue \in Seq(Items), NEW all \in Nat, NEW due \in Nat,
           NEW more \in Nat, all <= more, Waits(queue, all, due)
    PROVE  Waits(queue, more, due)
<1> SUFFICES ASSUME NEW i \in DOMAIN queue
             PROVE  queue[i].behind <= more
  BY DEF Waits
<1>1. queue[i] \in Items
  BY ElementOfSeq
<1>2. queue[i].behind \in Nat
  BY <1>1 DEF Items
<1>3. queue[i].behind <= all
  BY DEF Waits
<1> QED BY <1>2, <1>3

LEMMA DirectStep ==
    ASSUME TypeOK, TypeOK', DrainInv, Backed, OrderInv, DirectInv, [Next]_vars
    PROVE  DirectInv'
<1> SUFFICES ASSUME PathOpen' PROVE Waits(tsfnQueue', accepted', Due')
  BY DEF DirectInv
<1>1. /\ tsfnQueue \in Seq(Items) /\ accepted \in Nat /\ Due \in Nat
      /\ Len(batch) \in Nat /\ Len(delivered) \in Nat /\ Len(pendingEvents) \in Nat
  BY SeqFacts DEF TypeOK, Due
<1>2. DrainItem \in Items /\ DrainItem.behind = 0 /\ DirectItem \in Items
  BY ItemTypes DEF DrainItem
<1>3. CASE Emit
  <2>1. /\ accepted' = accepted + 1 /\ PathOpen
        /\ UNCHANGED <<batch, delivered>>
        /\ tsfnQueue' \in {tsfnQueue, Append(tsfnQueue, DrainItem)}
    BY <1>3, Zenon DEF Emit, nativeVars, PathOpen, QueueDispatchLocked
  <2>2. Waits(tsfnQueue, accepted + 1, Due)
    BY <1>1, <2>1, WaitsMore DEF DirectInv
  <2>3. Waits(Append(tsfnQueue, DrainItem), accepted + 1, Due)
    <3>1. accepted + 1 \in Nat /\ 0 <= accepted + 1 /\ 0 <= Due
      BY <1>1
    <3> QED BY <1>1, <1>2, <2>2, <3>1, WaitsAppend
  <2>4. Due' = Due
    BY <2>1 DEF Due
  <2> QED BY <2>1, <2>2, <2>3, <2>4
<1>4. CASE EmitDirect
  <2>1. /\ PathOpen /\ UNCHANGED <<accepted, batch, delivered>>
        /\ tsfnQueue' \in {tsfnQueue, Append(tsfnQueue, DirectItem)}
    BY <1>4, Zenon DEF EmitDirect, nativeVars, PathOpen
  <2>2. Pending
    BY <2>1, Zenon DEF OrderInv, PathOpen, Live
  <2>3. DirectItem.behind = IF phase = "idle" THEN accepted ELSE Due
    BY DEF DirectItem, Due
  <2>4. Due <= accepted
    BY <1>1, <2>2 DEF Pending, Due
  <2>5. ASSUME phase = "idle", ~HasDrain(tsfnQueue) PROVE Due = accepted
    <3>1. pendingEvents = <<>>
      BY <2>1, <2>5, Zenon DEF Backed, PathOpen, Outstanding
    <3> QED BY <1>1, <2>2, <3>1, SeqFacts DEF Pending, Due
  <2>6. Waits(Append(tsfnQueue, DirectItem), accepted, Due)
    <3>1. DirectItem.behind <= accepted
      BY <1>1, <2>3, <2>4
    <3>2. ~HasDrain(tsfnQueue) => DirectItem.behind <= Due
      BY <1>1, <2>3, <2>5
    <3> QED BY <1>1, <1>2, <2>1, <3>1, <3>2, WaitsAppend DEF DirectInv
  <2>7. Due' = Due
    BY <2>1 DEF Due
  <2> QED BY <2>1, <2>6, <2>7 DEF DirectInv
<1>5. CASE DispatchDirect
  <2>1. /\ PathOpen /\ UNCHANGED <<accepted, batch, delivered>>
        /\ tsfnQueue # <<>> /\ ~IsDrain(Head(tsfnQueue)) /\ tsfnQueue' = Tail(tsfnQueue)
    BY <1>5, Zenon DEF DispatchDirect, nativeVars, PathOpen
  <2>2. Due' = Due
    BY <2>1 DEF Due
  <2> QED BY <1>1, <2>1, <2>2, WaitsTail DEF DirectInv
<1>6. CASE DrainSwap
  <2>1. /\ PathOpen /\ UNCHANGED <<accepted, delivered>> /\ phase = "idle"
        /\ tsfnQueue # <<>> /\ IsDrain(Head(tsfnQueue)) /\ tsfnQueue' = Tail(tsfnQueue)
        /\ pendingEvents = <<>> => batch' = batch
        /\ pendingEvents # <<>> => batch' = pendingEvents
    BY <1>6, Zenon DEF DrainSwap, nativeVars, PathOpen
  <2>2. Pending /\ batch = <<>>
    BY <2>1, SeqFacts, Zenon DEF OrderInv, PathOpen, Live, Idle
  <2>3. Due' = accepted
    <3>1. Len(batch) = 0 /\ Len(<<>>) = 0
      BY <2>2, SeqFacts
    <3>2. Len(delivered) + Len(pendingEvents) = accepted
      BY <1>1, <2>2, <3>1 DEF Pending
    <3>3. Due' = Len(delivered) + Len(batch')
      BY <2>1 DEF Due
    <3>4. CASE pendingEvents = <<>>
      BY <1>1, <2>1, <3>1, <3>2, <3>3, <3>4
    <3>5. CASE pendingEvents # <<>>
      BY <2>1, <3>2, <3>3, <3>5
    <3> QED BY <3>4, <3>5
  <2> QED BY <1>1, <2>1, <2>3, WaitsTail DEF DirectInv
<1>7. CASE DrainCall
  <2>1. /\ PathOpen /\ UNCHANGED <<accepted, tsfnQueue>>
        /\ delivered' = delivered \o batch /\ batch' = <<>>
    BY <1>7, Zenon DEF DrainCall, nativeVars, PathOpen
  <2>2. Len(delivered') = Len(delivered) + Len(batch)
    <3>1. batch \in Seq(Messages) /\ delivered \in Seq(Messages)
      BY SeqFacts
    <3> QED BY <2>1, <3>1, Concatenated
  <2>3. Due' = Due
    BY <1>1, <2>1, <2>2, SeqFacts DEF Due
  <2> QED BY <2>1, <2>3 DEF DirectInv
<1>8. CASE DrainFinish
  <2>1. /\ PathOpen /\ UNCHANGED <<accepted, batch, delivered>>
        /\ tsfnQueue' \in {tsfnQueue, Append(tsfnQueue, DrainItem)}
    BY <1>8, Zenon DEF DrainFinish, nativeVars, PathOpen, QueueDispatchLocked
  <2>2. Waits(Append(tsfnQueue, DrainItem), accepted, Due)
    <3>1. 0 <= accepted /\ 0 <= Due
      BY <1>1
    <3> QED BY <1>1, <1>2, <2>1, <3>1, WaitsAppend DEF DirectInv
  <2>3. Due' = Due
    BY <2>1 DEF Due
  <2> QED BY <2>1, <2>2, <2>3 DEF DirectInv
<1>9. CASE Close \/ EnvTeardown \/ DrainThrow
  BY <1>9, Zenon DEF Close, EnvTeardown, DrainThrow, PathOpen
<1>10. CASE UNCHANGED vars
  <2>1. PathOpen /\ UNCHANGED <<accepted, batch, delivered, tsfnQueue>>
    BY <1>10, Zenon DEF vars, PathOpen
  <2>2. Due' = Due
    BY <2>1 DEF Due
  <2> QED BY <2>1, <2>2 DEF DirectInv
<1> QED BY <1>3, <1>4, <1>5, <1>6, <1>7, <1>8, <1>9, <1>10 DEF Next, JavaScript

LEMMA DirectImplies == TypeOK /\ OrderInv /\ DirectInv => DirectOvertakesNothingQueued
<1> SUFFICES ASSUME TypeOK, OrderInv, DirectInv, PathOpen, phase = "idle",
                    tsfnQueue # <<>>
             PROVE  Len(delivered) >= Head(tsfnQueue).behind
  BY DEF DirectOvertakesNothingQueued, PathOpen
<1>1. tsfnQueue \in Seq(Items) /\ Len(delivered) \in Nat
  BY SeqFacts DEF TypeOK
<1>2. Due = Len(delivered)
  BY <1>1, SeqFacts DEF OrderInv, Idle, Due
<1>3. 1 \in DOMAIN tsfnQueue /\ Head(tsfnQueue) = tsfnQueue[1] /\ First(tsfnQueue, 1)
  BY <1>1, TailElems DEF First
<1>4. tsfnQueue[1].behind <= Due
  BY <1>3 DEF DirectInv, Waits
<1>5. tsfnQueue[1].behind \in Nat
  <2>1. tsfnQueue[1] \in Items
    BY <1>1, TailElems, ElementOfSeq
  <2> QED BY <2>1 DEF Items
<1> QED BY <1>1, <1>2, <1>3, <1>4, <1>5

\* A channel's close, which is a direct event, passes no message that was accepted
\* before it, except those that came in while JavaScript ran a batch.
THEOREM DirectsStayBehind == Spec => []DirectOvertakesNothingQueued
<1>1. Init => OrderInv /\ DirectInv
  BY DEF Init, OrderInv, Delivered, InBatch, Idle, Live, Pending, DirectInv, Waits
<1>2. Init => DrainInv /\ Backed
  <2>1. ~HasDrain(<<>>) /\ SingleDrain(<<>>)
    BY DEF HasDrain, SingleDrain
  <2> QED BY <2>1, Zenon DEF Init, DrainInv, Quiesced, Scheduled, OneDrain,
             Outstanding, Backed
<1>3. TypeOK /\ TypeOK' /\ (DrainInv /\ Backed /\ OrderInv /\ DirectInv)
          /\ [Next]_vars => (DrainInv /\ Backed /\ OrderInv /\ DirectInv)'
  BY DrainInvStep, BackedStep, OrderStep, DirectStep DEF DrainInv
<1>4. TypeOK /\ OrderInv /\ DirectInv => DirectOvertakesNothingQueued
  BY DirectImplies
<1> QED BY <1>1, <1>2, <1>3, <1>4, TypeCorrect, PTL DEF Spec
=============================================================================
