------------------------ MODULE OfflineSurveyProofs ------------------------
(***************************************************************************)
(* Proofs about the survey with offline support, for any number of answers, *)
(* attempts, displays, reloads and faults.                                  *)
(*                                                                         *)
(*   CoreInv      types, exclusion of the senders, head of the queue: these *)
(*                rest on each other, and everything else rests on them     *)
(*   LocksReleased  is inductive on top of CoreInv                          *)
(*   IdsInv       the ids that the client holds are those of rows, and of   *)
(*                the one row in calm states: OneResponse                   *)
(*   ProgressInv  the saved progress ends where the writes begin            *)
(*   FlowInv      where an answer can be, and what is settled before it, as *)
(*                long as IndexedDB stores every answer: InOrder            *)
(*   KeptInv      what the server refused is there, or was turned down:     *)
(*                AnswersKept                                               *)
(*   ImplementsChannel  follows from all but the last, step by step         *)
(***************************************************************************)
EXTENDS OfflineSurvey, TLAPS, FiniteSetTheorems, FunctionTheorems, SequenceTheorems
(***************************************************************************)
(* Numbers and the recursive function of removeProcessedQueueItemsByDbId.    *)
(***************************************************************************)

(* A nonempty set of numbers has a least element.                            *)
LEMMA LeastExists ==
    ASSUME NEW T \in SUBSET Nat, T # {}
    PROVE  \E x \in T : \A y \in T : x <= y
<1> DEFINE R == OpToRel(<, Nat)
<1>1. IsWellFoundedOn(R, Nat)
  BY NatLessThanWellFounded
<1>2. \A x, y \in Nat : <<y, x>> \in R <=> y < x
  BY DEF OpToRel
<1> HIDE DEF R
<1>3. \E x \in T : \A y \in T : ~(<<y, x>> \in R)
  BY <1>1, WFMin
<1>4. PICK x \in T : \A y \in T : ~(<<y, x>> \in R)
  BY <1>3
<1>5. \A y \in T : x <= y
  <2> TAKE y \in T
  <2>1. x \in Nat /\ y \in Nat /\ ~(y < x)
    BY <1>2, <1>4
  <2> QED BY <2>1
<1> QED
  BY <1>5

(* f[n] is what is left of the first n elements, for n up to m.              *)
LeftUpTo(q, drop, f, m) ==
    f = [n \in 0..m |-> IF n = 0 THEN <<>>
                        ELSE IF q[n] \in drop THEN f[n - 1]
                        ELSE Append(f[n - 1], q[n])]

(* The recursive function exists: by its least counterexample.               *)
LEMMA LeftExists ==
    ASSUME NEW q, NEW drop, NEW m \in Nat
    PROVE  \E f : LeftUpTo(q, drop, f, m)
<1> SUFFICES ASSUME ~\E f : LeftUpTo(q, drop, f, m) PROVE FALSE
  OBVIOUS
<1> DEFINE T == {k \in Nat : ~\E f : LeftUpTo(q, drop, f, k)}
<1>1. m \in T
  OBVIOUS
<1> HIDE DEF T
<1>a. T \in SUBSET Nat
  BY DEF T
<1>2. PICK k \in T : \A y \in T : k <= y
  BY <1>1, <1>a, LeastExists
<1>3. k \in Nat /\ ~\E f : LeftUpTo(q, drop, f, k)
  BY <1>2 DEF T
<1>4. CASE k = 0
  <2> DEFINE f == [n \in 0..0 |-> <<>>]
  <2>1. LeftUpTo(q, drop, f, 0)
    BY DEF LeftUpTo
  <2> QED BY <1>3, <1>4, <2>1
<1>5. CASE k # 0
  <2>1. k - 1 \in Nat /\ ~(k <= k - 1)
    BY <1>3, <1>5
  <2>2. k - 1 \notin T
    BY <1>2, <2>1
  <2>3. PICK f : LeftUpTo(q, drop, f, k - 1)
    BY <2>1, <2>2 DEF T
  <2> DEFINE g == [n \in 0..k |-> IF n = k THEN (IF q[k] \in drop THEN f[k - 1] ELSE Append(f[k - 1], q[k]))
                                          ELSE f[n]]
  <2>4. \A n \in 0..(k-1) : f[n] = IF n = 0 THEN <<>>
                        ELSE IF q[n] \in drop THEN f[n - 1]
                        ELSE Append(f[n - 1], q[n])
    BY <2>3 DEF LeftUpTo
  <2>5. \A n \in 0..k : g[n] = IF n = 0 THEN <<>>
                        ELSE IF q[n] \in drop THEN g[n - 1]
                        ELSE Append(g[n - 1], q[n])
    <3> TAKE n \in 0..k
    <3>1. CASE n = k
      <4>1. g[n - 1] = f[k - 1]
        BY <3>1, <1>3, <1>5
      <4>2. g[n] = IF q[k] \in drop THEN f[k - 1] ELSE Append(f[k - 1], q[k])
        BY <3>1
      <4> QED BY <4>1, <4>2, <3>1, <1>5
    <3>2. CASE n # k /\ n # 0
      <4>1. n \in 0..(k - 1) /\ n - 1 \in 0..k /\ n - 1 # k
        BY <3>2, <1>3
      <4>2. g[n] = f[n] /\ g[n - 1] = f[n - 1]
        BY <4>1, <3>2
      <4> HIDE DEF g
      <4> QED BY <4>1, <4>2, <2>4, <3>2
    <3>3. CASE n # k /\ n = 0
      <4>1. n \in 0..(k - 1)
        BY <3>3, <1>3
      <4>2. g[n] = f[n]
        BY <3>3
      <4> HIDE DEF g
      <4> QED BY <4>1, <4>2, <2>4, <3>3
    <3> QED BY <3>1, <3>2, <3>3
  <2>6. g = [n \in 0..k |-> g[n]]
    OBVIOUS
  <2> HIDE DEF g
  <2>7. LeftUpTo(q, drop, g, k)
    BY <2>5, <2>6 DEF LeftUpTo
  <2> QED BY <1>3, <2>7
<1> QED BY <1>4, <1>5

(***************************************************************************)
(* Sorted sequences of answers: the queue.                                   *)
(***************************************************************************)

(* x is an element of s.                                                     *)
Elem(s, x) == \E i \in DOMAIN s : s[i] = x
(* s is strictly increasing.                                                 *)
Sorted(s) == \A i, j \in DOMAIN s : i < j => s[i] < s[j]

(* The elements of a sequence one longer.                                    *)
LEMMA Appended ==
    ASSUME NEW S, NEW s \in Seq(S), NEW e \in S
    PROVE  /\ Append(s, e) \in Seq(S)
           /\ Append(s, e) # <<>>
           /\ DOMAIN s = 1..Len(s) /\ Len(s) \in Nat
           /\ DOMAIN Append(s, e) = 1..(Len(s) + 1)
           /\ \A i \in DOMAIN s : Append(s, e)[i] = s[i]
           /\ Append(s, e)[Len(s) + 1] = e
           /\ s # <<>> => Head(Append(s, e)) = Head(s)
           /\ s = <<>> => Head(Append(s, e)) = e
<1>1. /\ Append(s, e) \in Seq(S)
      /\ Append(s, e) # <<>>
      /\ Len(Append(s, e)) = Len(s) + 1
      /\ \A i \in 1..Len(s) : Append(s, e)[i] = s[i]
      /\ Append(s, e)[Len(s) + 1] = e
  BY AppendProperties
<1>2. DOMAIN s = 1..Len(s) /\ Len(s) \in Nat
  BY LenProperties
<1>3. DOMAIN Append(s, e) = 1..Len(Append(s, e))
  BY <1>1, LenProperties
<1>4. Head(Append(s, e)) = IF s = <<>> THEN e ELSE Head(s)
  BY HeadTailAppend
<1> QED BY <1>1, <1>2, <1>3, <1>4

(* The elements of a tail.                                                   *)
LEMMA Tailed ==
    ASSUME NEW S, NEW s \in Seq(S), s # <<>>
    PROVE  /\ Head(s) \in S /\ Tail(s) \in Seq(S)
           /\ Len(s) \in Nat \ {0} /\ DOMAIN s = 1..Len(s)
           /\ Head(s) = s[1]
           /\ DOMAIN Tail(s) = 1..(Len(s) - 1)
           /\ \A i \in DOMAIN Tail(s) : i + 1 \in DOMAIN s /\ Tail(s)[i] = s[i + 1]
<1>1. /\ Head(s) \in S
      /\ Tail(s) \in Seq(S)
      /\ Len(Tail(s)) = Len(s) - 1
      /\ \A i \in 1..Len(Tail(s)) : Tail(s)[i] = s[i + 1]
  BY HeadTailProperties
<1>2. Len(s) \in Nat \ {0} /\ DOMAIN s = 1..Len(s)
  BY LenProperties, EmptySeq
<1>3. DOMAIN Tail(s) = 1..Len(Tail(s))
  BY <1>1, LenProperties
<1>4. Head(s) = s[1]
  OBVIOUS
<1>5. \A i \in DOMAIN Tail(s) : i + 1 \in DOMAIN s
  BY <1>1, <1>2, <1>3
<1> QED BY <1>1, <1>2, <1>3, <1>4, <1>5

LEMMA ElemAppended ==
    ASSUME NEW S, NEW s \in Seq(S), NEW e \in S
    PROVE  \A x : Elem(Append(s, e), x) <=> Elem(s, x) \/ x = e
<1> TAKE x
<1> DEFINE t == Append(s, e)
<1>1. /\ DOMAIN s = 1..Len(s) /\ Len(s) \in Nat
      /\ DOMAIN t = 1..(Len(s) + 1)
      /\ \A i \in DOMAIN s : t[i] = s[i]
      /\ t[Len(s) + 1] = e
  BY Appended
<1> HIDE DEF t
<1>2. ASSUME NEW i \in DOMAIN t, t[i] = x PROVE Elem(s, x) \/ x = e
  <2>1. i \in DOMAIN s \/ i = Len(s) + 1
    BY <1>1
  <2> QED BY <1>1, <1>2, <2>1 DEF Elem
<1>3. ASSUME NEW i \in DOMAIN s, s[i] = x PROVE Elem(t, x)
  <2>1. i \in DOMAIN t
    BY <1>1
  <2> QED BY <1>1, <1>3, <2>1 DEF Elem
<1>4. Elem(t, e)
  <2>1. Len(s) + 1 \in DOMAIN t
    BY <1>1
  <2> QED BY <1>1, <2>1 DEF Elem
<1>5. Elem(t, x) => Elem(s, x) \/ x = e
  BY <1>2 DEF Elem
<1>6. Elem(s, x) => Elem(t, x)
  BY <1>3 DEF Elem
<1> QED BY <1>4, <1>5, <1>6 DEF t

LEMMA ElemTailed ==
    ASSUME NEW S, NEW s \in Seq(S), s # <<>>
    PROVE  \A x : Elem(s, x) <=> x = Head(s) \/ Elem(Tail(s), x)
<1> TAKE x
<1> DEFINE t == Tail(s)
<1>1. /\ Len(s) \in Nat \ {0} /\ DOMAIN s = 1..Len(s)
      /\ Head(s) = s[1]
      /\ DOMAIN t = 1..(Len(s) - 1)
      /\ \A i \in DOMAIN t : i + 1 \in DOMAIN s /\ t[i] = s[i + 1]
  BY Tailed
<1> HIDE DEF t
<1>2. ASSUME NEW i \in DOMAIN s, s[i] = x PROVE x = Head(s) \/ Elem(t, x)
  <2>1. CASE i = 1
    BY <1>1, <1>2, <2>1
  <2>2. CASE i # 1
    <3>1. i - 1 \in DOMAIN t /\ i - 1 + 1 = i
      BY <1>1, <2>2
    <3>2. t[i - 1] = x
      BY <1>1, <1>2, <3>1
    <3> QED BY <3>1, <3>2 DEF Elem
  <2> QED BY <2>1, <2>2
<1>3. Elem(s, x) => x = Head(s) \/ Elem(t, x)
  BY <1>2 DEF Elem
<1>4. Elem(t, x) => Elem(s, x)
  BY <1>1 DEF Elem
<1>5. Elem(s, Head(s))
  <2>1. 1 \in DOMAIN s
    BY <1>1
  <2> QED BY <1>1, <2>1 DEF Elem
<1> QED BY <1>3, <1>4, <1>5 DEF t

LEMMA SortedAppended ==
    ASSUME NEW s \in Seq(Answers), Sorted(s), NEW e \in Answers, \A x : Elem(s, x) => x < e
    PROVE  Sorted(Append(s, e))
<1> DEFINE t == Append(s, e)
<1>1. /\ DOMAIN s = 1..Len(s) /\ Len(s) \in Nat
      /\ DOMAIN t = 1..(Len(s) + 1)
      /\ \A i \in DOMAIN s : t[i] = s[i]
      /\ t[Len(s) + 1] = e
  BY Appended
<1> HIDE DEF t
<1>2. ASSUME NEW i \in DOMAIN t, NEW j \in DOMAIN t, i < j PROVE t[i] < t[j]
  <2>1. i \in DOMAIN s
    BY <1>1, <1>2
  <2>2. CASE j \in DOMAIN s
    BY <1>1, <1>2, <2>1, <2>2 DEF Sorted
  <2>3. CASE j \notin DOMAIN s
    <3>1. t[j] = e
      BY <1>1, <2>3
    <3>2. Elem(s, s[i])
      BY <2>1 DEF Elem
    <3> QED BY <1>1, <2>1, <3>1, <3>2
  <2> QED BY <2>2, <2>3
<1> QED BY <1>2 DEF Sorted, t

LEMMA SortedTailed ==
    ASSUME NEW s \in Seq(Answers), s # <<>>, Sorted(s)
    PROVE  Sorted(Tail(s)) /\ \A x : Elem(Tail(s), x) => Head(s) < x
<1> DEFINE t == Tail(s)
<1>1. /\ Len(s) \in Nat \ {0} /\ DOMAIN s = 1..Len(s)
      /\ Head(s) = s[1]
      /\ DOMAIN t = 1..(Len(s) - 1)
      /\ \A i \in DOMAIN t : i + 1 \in DOMAIN s /\ t[i] = s[i + 1]
  BY Tailed
<1> HIDE DEF t
<1>2. ASSUME NEW i \in DOMAIN t, NEW j \in DOMAIN t, i < j PROVE t[i] < t[j]
  <2>1. i + 1 < j + 1
    BY <1>1, <1>2
  <2> QED BY <1>1, <2>1 DEF Sorted
<1>3. ASSUME NEW i \in DOMAIN t PROVE s[1] < t[i]
  <2>1. 1 < i + 1 /\ 1 \in DOMAIN s
    BY <1>1
  <2> QED BY <1>1, <2>1 DEF Sorted
<1> QED BY <1>1, <1>2, <1>3 DEF Sorted, Elem, t

(* What is left of a sorted queue is sorted, and has what was not dropped.   *)
LEMMA LeftOver ==
    ASSUME NEW q \in Seq(Answers), Sorted(q), NEW drop, NEW f, LeftUpTo(q, drop, f, Len(q))
    PROVE  /\ f[Len(q)] \in Seq(Answers)
           /\ Sorted(f[Len(q)])
           /\ \A x : Elem(f[Len(q)], x) <=> Elem(q, x) /\ x \notin drop
<1>1. Len(q) \in Nat /\ DOMAIN q = 1..Len(q)
  BY LenProperties
<1> DEFINE P(m) == /\ f[m] \in Seq(Answers)
                   /\ Sorted(f[m])
                   /\ \A x : Elem(f[m], x) <=> x \notin drop /\ \E i \in 1..m : q[i] = x
<1>2. \A m \in 0..Len(q) : f[m] = IF m = 0 THEN <<>>
                        ELSE IF q[m] \in drop THEN f[m - 1]
                        ELSE Append(f[m - 1], q[m])
  BY DEF LeftUpTo
<1>3. P(0)
  <2>1. f[0] = <<>>
    BY <1>1, <1>2
  <2>2. Sorted(<<>>) /\ \A x : ~Elem(<<>>, x)
    BY DEF Sorted, Elem
  <2>3. <<>> \in Seq(Answers)
    BY EmptySeq
  <2> QED BY <2>1, <2>2, <2>3
<1>4. ASSUME NEW m \in 1..Len(q), P(m - 1) PROVE P(m)
  <2>1. m \in 0..Len(q) /\ m # 0 /\ m \in DOMAIN q /\ m \in Nat
    BY <1>1
  <2>2. q[m] \in Answers
    BY <2>1, <1>1, ElementOfSeq
  <2>3. \A x : (\E i \in 1..m : q[i] = x) <=> x = q[m] \/ \E i \in 1..(m - 1) : q[i] = x
    BY <2>1
  <2>4. CASE q[m] \in drop
    <3>1. f[m] = f[m - 1]
      BY <1>2, <2>1, <2>4
    <3> QED BY <3>1, <1>4, <2>3, <2>4
  <2>5. CASE q[m] \notin drop
    <3>1. f[m] = Append(f[m - 1], q[m])
      BY <1>2, <2>1, <2>5
    <3>2. \A x : Elem(f[m - 1], x) => x < q[m]
      <4> SUFFICES ASSUME NEW i \in 1..(m - 1) PROVE q[i] < q[m]
        BY <1>4
      <4>1. i \in DOMAIN q /\ i < m
        BY <1>1, <2>1
      <4> QED BY <2>1, <4>1 DEF Sorted
    <3>3. Append(f[m - 1], q[m]) \in Seq(Answers)
      BY <1>4, <2>2, Appended
    <3>4. Sorted(Append(f[m - 1], q[m]))
      BY <1>4, <2>2, <3>2, SortedAppended
    <3>5. \A x : Elem(Append(f[m - 1], q[m]), x) <=> Elem(f[m - 1], x) \/ x = q[m]
      BY <1>4, <2>2, ElemAppended
    <3> QED BY <3>1, <3>3, <3>4, <3>5, <1>4, <2>3, <2>5
  <2> QED BY <2>4, <2>5
<1> HIDE DEF P
<1>5. P(Len(q))
  <2> SUFFICES ASSUME ~P(Len(q)) PROVE FALSE
    OBVIOUS
  <2> DEFINE T == {k \in 0..Len(q) : ~P(k)}
  <2>1. Len(q) \in T /\ T \in SUBSET Nat
    BY <1>1
  <2> HIDE DEF T
  <2>2. PICK k \in T : \A y \in T : k <= y
    BY <2>1, LeastExists
  <2>3. k \in 0..Len(q) /\ ~P(k)
    BY <2>2 DEF T
  <2>4. k # 0
    BY <1>3, <2>3
  <2>5. k - 1 \in 0..Len(q) /\ ~(k <= k - 1) /\ k \in 1..Len(q)
    BY <2>3, <2>4, <1>1
  <2>6. P(k - 1)
    BY <2>2, <2>5 DEF T
  <2> QED BY <1>4, <2>3, <2>5, <2>6
<1> QED BY <1>1, <1>5 DEF P, Elem

(* The recursive function drops what is done and keeps the order: its least  *)
(* prefix that does not would extend one that does.                          *)
LEMMA UnprocessedLeft ==
    ASSUME queue \in Seq(Answers), Sorted(queue), NEW done
    PROVE  /\ Unprocessed(done) \in Seq(Answers)
           /\ Sorted(Unprocessed(done))
           /\ \A x : Elem(Unprocessed(done), x) <=> Elem(queue, x) /\ ~(x \in pendingDbIds /\ x \in done)
<1> DEFINE drop == pendingDbIds \cap done
           f == CHOOSE g : LeftUpTo(queue, drop, g, Len(queue))
<1>1. Len(queue) \in Nat
  BY LenProperties
<1>2. LeftUpTo(queue, drop, f, Len(queue))
  BY <1>1, LeftExists
<1>3. Unprocessed(done) = f[Len(queue)]
  BY DEF Unprocessed, LeftUpTo
<1> HIDE DEF f
<1>4. /\ f[Len(queue)] \in Seq(Answers)
      /\ Sorted(f[Len(queue)])
      /\ \A x : Elem(f[Len(queue)], x) <=> Elem(queue, x) /\ x \notin drop
  BY <1>2, LeftOver
<1> QED BY <1>3, <1>4

(***************************************************************************)
(* Requests under way at IndexedDB, and the writes of answers among them.    *)
(***************************************************************************)

(* The requests that can be under way.                                       *)
Request == [op : DbOps, n : Nat]

(* Answer a is being written.                                                *)
Adding(d, a) == Elem(d, DbRequest("add", a))

(* e is d with requests behind it that are none but ops.                     *)
Grown(d, e, ops) ==
    /\ e \in Seq(Request)
    /\ Len(d) <= Len(e)
    /\ \A i \in DOMAIN d : e[i] = d[i]
    /\ \A i \in DOMAIN e : i > Len(d) => e[i].op \in ops

(* The answers being added are the last ones up to n, in their order.        *)
AddsUpTo(d, n) ==
    /\ \A i, j \in DOMAIN d : i < j /\ d[i].op = "add" /\ d[j].op = "add" => d[i].n < d[j].n
    /\ \A i \in DOMAIN d : d[i].op = "add" => d[i].n \in 1..n
    /\ \A a, b \in 1..n : Adding(d, a) /\ a <= b => Adding(d, b)

LEMMA RequestTyped == ASSUME NEW op \in DbOps, NEW n \in Nat
                      PROVE  DbRequest(op, n) \in Request /\ DbRequest(op, n).op = op /\ DbRequest(op, n).n = n
  BY DEF DbRequest, Request

LEMMA IsRequest == ASSUME NEW r \in Request, NEW op, NEW n
                   PROVE  r = DbRequest(op, n) <=> r.op = op /\ r.n = n
  BY DEF Request, DbRequest

LEMMA GrownNot == ASSUME NEW d \in Seq(Request), NEW ops PROVE Grown(d, d, ops)
<1>1. Len(d) \in Nat /\ DOMAIN d = 1..Len(d)
  BY LenProperties
<1> QED BY <1>1 DEF Grown

LEMMA GrownByOne ==
    ASSUME NEW d \in Seq(Request), NEW e, NEW ops, Grown(d, e, ops), NEW op \in ops \cap DbOps, NEW n \in Nat
    PROVE  Grown(d, Append(e, DbRequest(op, n)), ops)
<1> DEFINE r == DbRequest(op, n)
           f == Append(e, r)
<1>0. e \in Seq(Request) /\ r \in Request /\ r.op = op
  BY RequestTyped DEF Grown
<1> HIDE DEF r
<1>1. /\ f \in Seq(Request)
      /\ DOMAIN e = 1..Len(e) /\ Len(e) \in Nat
      /\ DOMAIN f = 1..(Len(e) + 1)
      /\ \A i \in DOMAIN e : f[i] = e[i]
      /\ f[Len(e) + 1] = r
  BY <1>0, Appended
<1>2. Len(f) = Len(e) + 1
  BY <1>0, AppendProperties
<1>3. Len(d) \in Nat /\ DOMAIN d = 1..Len(d)
  BY LenProperties
<1> HIDE DEF f
<1>4. \A i \in DOMAIN d : f[i] = d[i]
  BY <1>1, <1>3 DEF Grown
<1>5. ASSUME NEW i \in DOMAIN f, i > Len(d) PROVE f[i].op \in ops
  <2>1. CASE i \in DOMAIN e
    BY <1>1, <1>5, <2>1 DEF Grown
  <2>2. CASE i \notin DOMAIN e
    <3>1. i = Len(e) + 1
      BY <1>1, <2>2
    <3> QED BY <1>0, <1>1, <3>1
  <2> QED BY <2>1, <2>2
<1>6. Len(d) <= Len(f)
  BY <1>1, <1>2, <1>3 DEF Grown
<1> QED BY <1>1, <1>4, <1>5, <1>6 DEF Grown, f, r

LEMMA AppendGrown ==
    ASSUME NEW d \in Seq(Request), NEW op \in DbOps, NEW n \in Nat, NEW ops, op \in ops
    PROVE  Grown(d, Append(d, DbRequest(op, n)), ops)
  BY GrownNot, GrownByOne

LEMMA GrownElem ==
    ASSUME NEW d \in Seq(Request), NEW e, NEW ops, Grown(d, e, ops), NEW x, x.op \notin ops
    PROVE  Elem(e, x) <=> Elem(d, x)
<1>1. /\ Len(d) \in Nat /\ DOMAIN d = 1..Len(d)
      /\ Len(e) \in Nat /\ DOMAIN e = 1..Len(e)
  BY LenProperties DEF Grown
<1>2. ASSUME NEW i \in DOMAIN e, e[i] = x PROVE i \in DOMAIN d /\ d[i] = x
  BY <1>1, <1>2 DEF Grown
<1>3. \A i \in DOMAIN d : i \in DOMAIN e /\ e[i] = d[i]
  BY <1>1 DEF Grown
<1> QED BY <1>2, <1>3 DEF Elem

LEMMA GrownAdds ==
    ASSUME NEW d \in Seq(Request), NEW e, NEW ops, Grown(d, e, ops), "add" \notin ops,
           NEW n \in Nat, AddsUpTo(d, n)
    PROVE  AddsUpTo(e, n) /\ \A a : Adding(e, a) <=> Adding(d, a)
<1>1. /\ Len(d) \in Nat /\ DOMAIN d = 1..Len(d)
      /\ Len(e) \in Nat /\ DOMAIN e = 1..Len(e)
  BY LenProperties DEF Grown
<1>2. \A a : Adding(e, a) <=> Adding(d, a)
  BY GrownElem DEF Adding, DbRequest
<1>3. \A i \in DOMAIN e : e[i].op = "add" => i \in DOMAIN d /\ d[i] = e[i]
  BY <1>1 DEF Grown
<1>4. \A i, j \in DOMAIN e : i < j /\ e[i].op = "add" /\ e[j].op = "add" => e[i].n < e[j].n
  BY <1>3 DEF AddsUpTo
<1>5. \A i \in DOMAIN e : e[i].op = "add" => e[i].n \in 1..n
  BY <1>3 DEF AddsUpTo
<1>6. \A a, b \in 1..n : Adding(e, a) /\ a <= b => Adding(e, b)
  BY <1>2 DEF AddsUpTo
<1> QED BY <1>2, <1>4, <1>5, <1>6 DEF AddsUpTo

LEMMA AddsOnly ==
    ASSUME NEW d \in Seq(Request), NEW n \in Nat, AddsUpTo(d, n), NEW a, Adding(d, a)
    PROVE  a \in 1..n /\ \E i \in DOMAIN d : d[i].op = "add" /\ d[i].n = a
<1>1. PICK i \in DOMAIN d : d[i] = DbRequest("add", a)
  BY DEF Adding, Elem
<1>2. d[i].op = "add" /\ d[i].n = a
  BY <1>1 DEF DbRequest
<1> QED BY <1>1, <1>2 DEF AddsUpTo

LEMMA AddsAt ==
    ASSUME NEW d \in Seq(Request), NEW i \in DOMAIN d, d[i].op = "add"
    PROVE  Adding(d, d[i].n)
<1>1. d[i] \in Request
  BY LenProperties, ElementOfSeq
<1>2. d[i] = DbRequest("add", d[i].n)
  BY <1>1, IsRequest
<1> QED BY <1>2 DEF Adding, Elem

LEMMA NewAdds ==
    ASSUME NEW d \in Seq(Request), NEW n \in Nat, AddsUpTo(d, n)
    PROVE  LET e == Append(d, DbRequest("add", n + 1))
           IN  /\ e \in Seq(Request)
               /\ AddsUpTo(e, n + 1)
               /\ \A a : Adding(e, a) <=> Adding(d, a) \/ a = n + 1
<1> DEFINE r == DbRequest("add", n + 1)
           e == Append(d, r)
<1>1. r \in Request /\ r.op = "add" /\ r.n = n + 1
  BY RequestTyped DEF DbOps
<1>2. /\ e \in Seq(Request)
      /\ DOMAIN d = 1..Len(d) /\ Len(d) \in Nat
      /\ DOMAIN e = 1..(Len(d) + 1)
      /\ \A i \in DOMAIN d : e[i] = d[i]
      /\ e[Len(d) + 1] = r
  BY <1>1, Appended
<1>3. \A a : Adding(e, a) <=> Adding(d, a) \/ a = n + 1
  <2> TAKE a
  <2>1. Elem(e, DbRequest("add", a)) <=> Elem(d, DbRequest("add", a)) \/ DbRequest("add", a) = r
    BY <1>1, ElemAppended
  <2>2. DbRequest("add", a) = r <=> a = n + 1
    BY DEF DbRequest
  <2> QED BY <2>1, <2>2 DEF Adding
<1> HIDE DEF e, r
<1>4. ASSUME NEW i \in DOMAIN e, NEW j \in DOMAIN e, i < j, e[i].op = "add", e[j].op = "add"
      PROVE  e[i].n < e[j].n
  <2>1. i \in DOMAIN d
    BY <1>2, <1>4
  <2>2. e[i].n \in 1..n
    BY <1>2, <1>4, <2>1 DEF AddsUpTo
  <2>3. CASE j \in DOMAIN d
    BY <1>2, <1>4, <2>1, <2>3 DEF AddsUpTo
  <2>4. CASE j \notin DOMAIN d
    <3>1. j = Len(d) + 1
      BY <1>2, <2>4
    <3> QED BY <1>1, <1>2, <2>2, <3>1
  <2> QED BY <2>3, <2>4
<1>5. ASSUME NEW i \in DOMAIN e, e[i].op = "add" PROVE e[i].n \in 1..(n + 1)
  <2>1. CASE i \in DOMAIN d
    <3>1. e[i].n \in 1..n
      BY <1>2, <1>5, <2>1 DEF AddsUpTo
    <3> QED BY <3>1
  <2>2. CASE i \notin DOMAIN d
    <3>1. i = Len(d) + 1
      BY <1>2, <2>2
    <3> QED BY <1>1, <1>2, <3>1
  <2> QED BY <2>1, <2>2
<1>6. ASSUME NEW a \in 1..(n + 1), NEW b \in 1..(n + 1), Adding(e, a), a <= b PROVE Adding(e, b)
  <2>1. CASE b = n + 1
    BY <1>3, <2>1
  <2>2. CASE b # n + 1
    <3>1. a \in 1..n /\ b \in 1..n /\ a # n + 1
      BY <1>6, <2>2
    <3>2. Adding(d, a)
      BY <1>3, <1>6, <3>1
    <3>3. Adding(d, b)
      BY <1>6, <3>1, <3>2 DEF AddsUpTo
    <3> QED BY <1>3, <3>3
  <2> QED BY <2>1, <2>2
<1>7. AddsUpTo(e, n + 1)
  BY <1>4, <1>5, <1>6 DEF AddsUpTo
<1> QED BY <1>2, <1>3, <1>7 DEF e, r

LEMMA TailAdds ==
    ASSUME NEW d \in Seq(Request), d # <<>>, NEW n \in Nat, AddsUpTo(d, n)
    PROVE  /\ Tail(d) \in Seq(Request) /\ Head(d) \in Request
           /\ AddsUpTo(Tail(d), n)
           /\ Head(d).op # "add" => \A a : Adding(Tail(d), a) <=> Adding(d, a)
           /\ Head(d).op = "add" => /\ Head(d).n \in 1..n
                                    /\ \A a : Adding(d, a) => Head(d).n <= a
                                    /\ \A a : Adding(Tail(d), a) <=> Adding(d, a) /\ a # Head(d).n
                                    /\ Adding(d, Head(d).n)
<1> DEFINE t == Tail(d)
           h == Head(d)
<1>1. /\ h \in Request /\ t \in Seq(Request)
      /\ Len(d) \in Nat \ {0} /\ DOMAIN d = 1..Len(d)
      /\ h = d[1] /\ 1 \in DOMAIN d
      /\ DOMAIN t = 1..(Len(d) - 1)
      /\ \A i \in DOMAIN t : i + 1 \in DOMAIN d /\ t[i] = d[i + 1]
  BY Tailed
<1>2. \A a : Adding(d, a) <=> h = DbRequest("add", a) \/ Adding(t, a)
  <2> TAKE a
  <2>1. Elem(d, DbRequest("add", a)) <=> DbRequest("add", a) = h \/ Elem(t, DbRequest("add", a))
    BY ElemTailed
  <2> QED BY <2>1 DEF Adding
<1>3. \A a : h = DbRequest("add", a) <=> h.op = "add" /\ h.n = a
  BY <1>1, IsRequest
<1> HIDE DEF t, h
<1>4. ASSUME h.op = "add", NEW a, Adding(t, a) PROVE h.n < a
  <2>1. PICK i \in DOMAIN t : t[i] = DbRequest("add", a)
    BY <1>4 DEF Adding, Elem
  <2>2. t[i].op = "add" /\ t[i].n = a
    BY <2>1 DEF DbRequest
  <2>3. i + 1 \in DOMAIN d /\ 1 < i + 1 /\ d[i + 1] = t[i]
    BY <1>1
  <2> QED BY <1>1, <1>4, <2>2, <2>3 DEF AddsUpTo
<1>5. h.op = "add" => h.n \in 1..n
  BY <1>1 DEF AddsUpTo
<1>6. ASSUME NEW i \in DOMAIN t, NEW j \in DOMAIN t, i < j, t[i].op = "add", t[j].op = "add"
      PROVE  t[i].n < t[j].n
  <2>1. i + 1 < j + 1
    BY <1>1, <1>6
  <2> QED BY <1>1, <1>6, <2>1 DEF AddsUpTo
<1>7. \A i \in DOMAIN t : t[i].op = "add" => t[i].n \in 1..n
  BY <1>1 DEF AddsUpTo
<1>8. ASSUME NEW a \in 1..n, NEW b \in 1..n, Adding(t, a), a <= b PROVE Adding(t, b)
  <2>1. Adding(d, b)
    BY <1>2, <1>8 DEF AddsUpTo
  <2>2. ~(h.op = "add" /\ h.n = b)
    <3> SUFFICES ASSUME h.op = "add", h.n = b PROVE FALSE
      OBVIOUS
    <3>1. b < a
      BY <1>4, <1>8
    <3> QED BY <1>8, <3>1
  <2> QED BY <1>2, <1>3, <2>1, <2>2
<1>9. AddsUpTo(t, n)
  BY <1>6, <1>7, <1>8 DEF AddsUpTo
<1>10. ASSUME h.op = "add"
       PROVE  /\ \A a : Adding(d, a) => h.n <= a
              /\ \A a : Adding(t, a) <=> Adding(d, a) /\ a # h.n
              /\ Adding(d, h.n)
  <2>1. ASSUME NEW a, Adding(t, a) PROVE a \in Nat /\ h.n < a /\ h.n # a
    <3>1. a \in 1..n
      BY <1>1, <1>9, <2>1, AddsOnly
    <3> QED BY <1>4, <1>5, <1>10, <2>1, <3>1
  <2>2. h.n \in Nat
    BY <1>5, <1>10
  <2> QED BY <1>2, <1>3, <1>10, <2>1, <2>2
<1> QED BY <1>1, <1>2, <1>3, <1>5, <1>9, <1>10 DEF t, h

(* How many are being added.                                                 *)
LEMMA AddsCounted ==
    ASSUME NEW d \in Seq(Request), NEW n \in Nat, AddsUpTo(d, n)
    PROVE  LET k == Cardinality({i \in DOMAIN d : d[i].op = "add"})
           IN  k \in 0..n /\ \A a \in 1..n : Adding(d, a) <=> a > n - k
<1> DEFINE D == {i \in DOMAIN d : d[i].op = "add"}
           A == {a \in 1..n : Adding(d, a)}
           f == [i \in D |-> d[i].n]
<1>1. DOMAIN d = 1..Len(d) /\ Len(d) \in Nat
  BY LenProperties
<1>2. \A i \in D : d[i].n \in A
  BY AddsAt DEF AddsUpTo
<1>3. \A i, j \in D : d[i].n = d[j].n => i = j
  <2> SUFFICES ASSUME NEW i \in D, NEW j \in D, i # j PROVE d[i].n # d[j].n
    OBVIOUS
  <2>1. i < j \/ j < i
    BY <1>1
  <2>2. d[i].n \in Nat /\ d[j].n \in Nat
    BY <1>2
  <2> QED BY <2>1, <2>2 DEF AddsUpTo
<1>4. \A a \in A : \E i \in D : d[i].n = a
  BY AddsOnly
<1> HIDE DEF D, A
<1>5. f \in Bijection(D, A)
  BY <1>2, <1>3, <1>4 DEF Bijection, Injection, Surjection, IsInjective
<1>6. A \in SUBSET (1..n)
  BY DEF A
<1>7. ExistsBijection(A, D)
  BY <1>5, Fun_ExistsBijSymmetric DEF ExistsBijection
<1>8. IsFiniteSet(1..n) /\ Cardinality(1..n) = n
  BY FS_Interval
<1>9. IsFiniteSet(A) /\ Cardinality(A) \in Nat /\ Cardinality(A) <= n
  BY <1>6, <1>8, FS_Subset, FS_CardinalityType
<1>10. Cardinality(D) = Cardinality(A)
  BY <1>7, <1>9, FS_Bijection
<1>11. \A a \in 1..n : Adding(d, a) <=> a > n - Cardinality(A)
  <2>1. CASE A = {}
    <3>1. Cardinality(A) = 0
      BY <2>1, FS_EmptySet
    <3> QED BY <2>1, <3>1 DEF A
  <2>2. CASE A # {}
    <3>1. A \in SUBSET Nat
      BY <1>6
    <3>2. PICK m \in A : \A y \in A : m <= y
      BY <2>2, <3>1, LeastExists
    <3>3. A = m..n
      BY <3>2 DEF A, AddsUpTo
    <3>4. m \in 1..n
      BY <1>6
    <3>5. Cardinality(A) = n - m + 1
      BY <3>3, <3>4, FS_Interval
    <3>6. \A a \in 1..n : a \in A <=> a > n - (n - m + 1)
      BY <3>3, <3>4
    <3> QED BY <3>5, <3>6 DEF A
  <2> QED BY <2>1, <2>2
<1>12. Cardinality(D) \in 0..n
  BY <1>9, <1>10
<1>13. \A a \in 1..n : Adding(d, a) <=> a > n - Cardinality(D)
  BY <1>10, <1>11
<1> QED BY <1>12, <1>13 DEF D

(***************************************************************************)
(* The types, and what the actions do to the requests under way.             *)
(***************************************************************************)

(* TypeOK in parts, each with what its types rest on.                        *)
ApiT == ApiTypeOK
(* The page: the answers given and what the respondent sees.                 *)
PageT ==
    /\ asked \in 0..NumAnswers
    /\ error \in {"none", "retry", "final"}
    /\ over \in BOOLEAN /\ online \in BOOLEAN
    /\ isRequestInProgress \in BOOLEAN /\ isSyncing \in BOOLEAN
(* The queue is sorted, and holds answers that were given.                   *)
QueueT ==
    /\ queue \in Seq(Answers)
    /\ Sorted(queue)
    /\ \A x : Elem(queue, x) => x \in 1..asked
(* IndexedDB and what the queue remembers of it.                             *)
MemoryT ==
    /\ pendingDbIds \subseteq Answers
    /\ pendingRemoval \subseteq Answers
    /\ db \subseteq Answers
(* A survey state.                                                           *)
State == [responseId : Nat, displayId : Nat, bootstrap : BOOLEAN]
StateT == surveyState \in State
(* The call of processQueue.                                                 *)
ReqT ==
    /\ req \in [pc : {"idle", "flight", "backoff", "sent", "dropped"}, answer : 0..NumAnswers,
                attempt : 0..(RetryAttempts - 1), manual : BOOLEAN, msg : Messages]
    /\ req.pc # "idle" => req.answer \in Answers
(* The call of syncPersistedResponses.                                       *)
SynT ==
    /\ syn \in [pc : {"idle", "reading", "flight", "removing"}, todo : SUBSET Answers,
                done : SUBSET Answers, answer : 0..NumAnswers, byEffect : BOOLEAN,
                msg : Messages]
    /\ syn.pc \in {"flight", "removing"} => syn.answer \in Answers
(* Writes of answers are under way in the order the answers were given.      *)
IdbT ==
    /\ idb \in Seq(Request)
    /\ AddsUpTo(idb, asked)
Snapshots == [Answers -> [responseId : Nat, displayId : Nat]]
(* The saved progress does not run ahead of the answers.                     *)
SavedT ==
    /\ snapshot \in Snapshots
    /\ progress \in [saved : BOOLEAN, upto : 0..NumAnswers, responseId : Nat, displayId : Nat]
    /\ progress.saved => progress.upto <= asked
StrayT == stray \subseteq Messages
(* What is left of the faults.                                               *)
BudgetT ==
    /\ budget \in [add : Nat, db : Nat, flap : Nat, reload : Nat, delete : Nat, display : Nat]
    /\ budget.display <= MaxDisplays
    /\ budget.add <= MaxAddFaults

(* The types, with what they rest on.                                        *)
TypeInv ==
    /\ ApiT /\ PageT /\ QueueT /\ MemoryT /\ StateT /\ ReqT /\ SynT /\ IdbT /\ SavedT /\ StrayT
    /\ BudgetT

(* The parts make up the type invariant that the runs check.                 *)
LEMMA TypeParts == TypeInv => TypeOK
  BY DEF TypeInv, ApiT, PageT, QueueT, MemoryT, StateT, State, ReqT, SynT, IdbT, Request, SavedT,
         Snapshots, StrayT, BudgetT, TypeOK

LEMMA MessageTyped ==
    ASSUME PageT, NEW a \in Answers, NEW st \in State
    PROVE  Message(a, st) \in Messages
  BY NumAnswersAssumption DEF PageT, Message, Messages, Answers, State

LEMMA IdleTyped == NoMessage \in Messages
  BY DEF NoMessage, Messages

LEMMA StoredTyped ==
    ASSUME ApiTypeOK, NEW m \in Messages
    PROVE  Stored(m) \in Seq([answers : SUBSET Answers, display : Nat, live : BOOLEAN])
<1> DEFINE Row == [answers : SUBSET Answers, display : Nat, live : BOOLEAN]
<1>1. responses \in Seq(Row)
  BY DEF ApiTypeOK
<1>2. CASE m.response = 0
  <2>1. [answers |-> m.answers, display |-> m.display, live |-> TRUE] \in Row
    BY DEF Messages
  <2> HIDE DEF Row
  <2>2. Append(responses, [answers |-> m.answers, display |-> m.display, live |-> TRUE]) \in Seq(Row)
    BY <1>1, <2>1, AppendProperties
  <2> QED BY <1>2, <2>2 DEF Stored, Row
<1>3. CASE m.response # 0 /\ m.response \in DOMAIN responses
  <2> DEFINE r == [responses[m.response] EXCEPT !.answers = @ \cup m.answers]
  <2>1. DOMAIN responses = 1..Len(responses)
    BY <1>1, LenProperties
  <2>2. responses[m.response] \in Row
    BY <1>1, <1>3, <2>1, ElementOfSeq
  <2>3. r \in Row
    BY <2>2 DEF Messages
  <2> HIDE DEF Row
  <2>4. [responses EXCEPT ![m.response] = r] \in Seq(Row)
    BY <1>1, <1>3, <2>1, <2>3, ExceptSeq
  <2> QED BY <1>3, <2>4 DEF Stored, Row
<1>4. CASE m.response # 0 /\ m.response \notin DOMAIN responses
  <2>1. Stored(m) = responses
    <3>1. responses = [i \in DOMAIN responses |-> responses[i]]
      BY <1>1, LenProperties
    <3> QED BY <1>4, <3>1 DEF Stored
  <2> QED BY <1>1, <2>1
<1> QED BY <1>2, <1>3, <1>4

LEMMA ApiSteps ==
    ASSUME ApiTypeOK, NEW m \in Messages
    PROVE  /\ Accept(m) => ApiTypeOK'
           /\ NotFound(m) => ApiTypeOK'
           /\ Refuse(m) => ApiTypeOK'
           /\ \A dropped \in BOOLEAN : Suspect(m, dropped) => ApiTypeOK'
           /\ \A up \in BOOLEAN : Fail(m, up) => ApiTypeOK'
<1>0. m.answers \subseteq Answers /\ m.response \in Nat
  BY DEF Messages
<1>1. Accept(m) => ApiTypeOK'
  BY StoredTyped DEF Accept, ApiTypeOK
<1>2. NotFound(m) => ApiTypeOK'
  BY DEF NotFound, ApiTypeOK, apiVars
<1>3. Refuse(m) => ApiTypeOK'
  BY <1>0 DEF Refuse, ApiTypeOK
<1>4. ASSUME NEW dropped \in BOOLEAN, Suspect(m, dropped) PROVE ApiTypeOK'
  BY <1>0, <1>4 DEF Suspect, ApiTypeOK
<1>5. ASSUME NEW up \in BOOLEAN, Fail(m, up) PROVE ApiTypeOK'
  <2>1. CASE UNCHANGED apiVars
    BY <2>1 DEF ApiTypeOK, apiVars
  <2>2. CASE /\ netFaults > 0 /\ netFaults' = netFaults - 1
             /\ UNCHANGED <<responses, turnedDown, refused, unheard>>
    BY <2>2 DEF ApiTypeOK
  <2>3. CASE /\ netFaults > 0 /\ netFaults' = netFaults - 1
             /\ responses' = Stored(m) /\ unheard' = (unheard \/ m.response = 0)
             /\ UNCHANGED <<turnedDown, refused>>
    <3>1. unheard' \in BOOLEAN
      BY <2>3, Zenon
    <3>2. responses' \in Seq([answers : SUBSET Answers, display : Nat, live : BOOLEAN])
      BY <2>3, StoredTyped
    <3>3. netFaults' \in Nat /\ turnedDown' \subseteq Answers /\ refused' \subseteq Answers
      BY <2>3 DEF ApiTypeOK
    <3> QED BY <3>1, <3>2, <3>3 DEF ApiTypeOK
  <2> QED BY <1>5, <2>1, <2>2, <2>3 DEF Fail
<1> QED BY <1>1, <1>2, <1>3, <1>4, <1>5

LEMMA DeleteTyped ==
    ASSUME ApiTypeOK, NEW r \in DOMAIN responses, DeleteResponse(r)
    PROVE  ApiTypeOK'
<1> DEFINE Row == [answers : SUBSET Answers, display : Nat, live : BOOLEAN]
           q == [responses[r] EXCEPT !.live = FALSE]
<1>1. responses \in Seq(Row)
  BY DEF ApiTypeOK
<1>2. DOMAIN responses = 1..Len(responses)
  BY <1>1, LenProperties
<1>3. responses[r] \in Row
  BY <1>1, <1>2, ElementOfSeq
<1>4. q \in Row
  BY <1>3
<1> HIDE DEF Row
<1>5. [responses EXCEPT ![r] = q] \in Seq(Row)
  BY <1>1, <1>2, <1>4, ExceptSeq
<1> QED BY <1>5 DEF DeleteResponse, ApiTypeOK, Row

LEMMA LearnTyped ==
    ASSUME StateT, ApiTypeOK', NEW m
    PROVE  Learn(m) \in State /\ Len(responses') \in Nat
<1>1. Len(responses') \in Nat
  BY LenProperties DEF ApiTypeOK
<1> QED BY <1>1 DEF StateT, State, Learn

(* What the actions do to the requests under way.                            *)
LEMMA PatchGrown ==
    ASSUME NEW d \in Seq(Request), NEW e, NEW ops, Grown(d, e, ops), "patchResponse" \in ops,
           Len(responses') \in Nat, NEW m
    PROVE  Grown(d, PatchAfter(m, e), ops)
<1>1. "patchResponse" \in ops \cap DbOps
  BY DEF DbOps
<1> QED BY <1>1, GrownByOne DEF PatchAfter

LEMMA ProcessGrown ==
    ASSUME NEW d \in Seq(Request), NEW e, NEW ops, Grown(d, e, ops), NEW op \in {"count", "retry"}, op \in ops,
           NEW q, NEW r, NEW s
    PROVE  Grown(d, ProcessQueue(e, op, q, r, s), ops)
<1>1. op \in ops \cap DbOps /\ 0 \in Nat
  BY DEF DbOps
<1>2. Grown(d, Append(e, DbRequest(op, 0)), ops)
  BY <1>1, GrownByOne
<1> QED BY <1>2 DEF ProcessQueue

LEMMA OneGrown ==
    ASSUME NEW d \in Seq(Request), NEW e, NEW ops, Grown(d, e, ops), NEW op \in DbOps, op \in ops
    PROVE  Grown(d, Append(e, DbRequest(op, 0)), ops)
  BY GrownByOne

LEMMA HeadGone == ASSUME IdbT, NEW op, Oldest(op)
                  PROVE  idb # <<>> /\ Tail(idb) \in Seq(Request) /\ Grown(Tail(idb), Tail(idb), {})
                         /\ Grown(Tail(idb), Tail(idb), {"count"}) /\ Grown(Tail(idb), Tail(idb), {"read"})
                         /\ Grown(Tail(idb), Tail(idb), {"count", "clear"})
<1>1. idb # <<>> /\ Tail(idb) \in Seq(Request)
  BY Tailed DEF IdbT, Oldest
<1> QED BY <1>1, GrownNot

(* What a turn of the page requests.                                         *)
PageIdb ==
    /\ CreateDisplay => Grown(idb, idb', {"patchDisplay"})
    /\ Retry => Grown(idb, idb', {"retry"})
    /\ GoOnline => Grown(idb, idb', {"effect"})
    /\ GoOffline \/ StrayArrives \/ OwnerDeletes => Grown(idb, idb', {})
    /\ Reload => /\ idb' \in Seq(Request)
                 /\ Len(idb') <= 1
                 /\ \A i \in DOMAIN idb' : idb'[i].op = "effect"

(* What a step of processQueue requests.                                     *)
QueueIdb ==
    /\ Added => Grown(Tail(idb), idb', {"count"})
    /\ Patched \/ Cleared \/ CountFails \/ DroppedRemoved => Grown(Tail(idb), idb', {})
    /\ Counted => Grown(Tail(idb), idb', {"read"})
    /\ SendOk => Grown(idb, idb', {"patchResponse", "sent", "count"})
    /\ SendRefused => Grown(idb, idb', {"dropped"})
    /\ SendSuspected \/ SendFails \/ Resend => Grown(idb, idb', {})
    /\ SentRemoved => Grown(Tail(idb), idb', {"count"})

(* What a step of a sync requests.                                           *)
SyncIdb ==
    /\ EffectCounted => Grown(Tail(idb), idb', {"read"})
    /\ SyncRead \/ SyncedRemoved => Grown(Tail(idb), idb', {"count", "clear"})
    /\ SyncOk => Grown(idb, idb', {"patchResponse", "synced"})
    /\ SyncRefused => Grown(idb, idb', {"synced"})
    /\ SyncNotFound \/ SyncFails => Grown(idb, idb', {})

LEMMA PageIdbHolds == ASSUME TypeInv PROVE PageIdb
<1>0. idb \in Seq(Request) /\ Grown(idb, idb, {})
  BY GrownNot DEF TypeInv, IdbT
<1>1. ASSUME CreateDisplay PROVE Grown(idb, idb', {"patchDisplay"})
  <2>1. MaxDisplays - budget.display + 1 \in Nat
    BY BoundsAssumption DEF TypeInv, BudgetT
  <2>2. "patchDisplay" \in DbOps
    BY DEF DbOps
  <2> QED BY <1>0, <1>1, <2>1, <2>2, AppendGrown DEF CreateDisplay
<1>2. ASSUME Retry PROVE Grown(idb, idb', {"retry"})
  <2>1. Grown(idb, idb, {"retry"})
    BY <1>0, GrownNot
  <2> QED BY <1>0, <1>2, <2>1, ProcessGrown DEF Retry
<1>3. ASSUME GoOnline PROVE Grown(idb, idb', {"effect"})
  <2>1. "effect" \in DbOps
    BY DEF DbOps
  <2> QED BY <1>0, <1>3, <2>1, AppendGrown DEF GoOnline
<1>4. ASSUME GoOffline \/ StrayArrives \/ OwnerDeletes PROVE Grown(idb, idb', {})
  BY <1>0, <1>4 DEF GoOffline, StrayArrives, OwnerDeletes
<1>5. ASSUME Reload
      PROVE  /\ idb' \in Seq(Request)
             /\ Len(idb') <= 1
             /\ \A i \in DOMAIN idb' : idb'[i].op = "effect"
  <2>1. CASE idb' = <<>>
    BY <2>1, EmptySeq
  <2>2. CASE idb' = <<DbRequest("effect", 0)>>
    <3>1. DbRequest("effect", 0) \in Request /\ DbRequest("effect", 0).op = "effect"
      BY RequestTyped DEF DbOps
    <3> QED BY <2>2, <3>1
  <2> QED BY <1>5, <2>1, <2>2 DEF Reload
<1> QED BY <1>1, <1>2, <1>3, <1>4, <1>5 DEF PageIdb

LEMMA QueueIdbHolds == ASSUME TypeInv PROVE QueueIdb
<1>0. idb \in Seq(Request) /\ Grown(idb, idb, {}) /\ IdbT
  BY GrownNot DEF TypeInv, IdbT
<1>1. ASSUME Added PROVE Grown(Tail(idb), idb', {"count"})
  BY <1>0, <1>1, HeadGone, ProcessGrown DEF Added
<1>2. ASSUME Patched \/ Cleared \/ CountFails \/ DroppedRemoved PROVE Grown(Tail(idb), idb', {})
  BY <1>0, <1>2, HeadGone DEF Patched, Cleared, CountFails, DroppedRemoved, Counting
<1>3. ASSUME Counted PROVE Grown(Tail(idb), idb', {"read"})
  <2>1. "read" \in DbOps
    BY DEF DbOps
  <2>2. Tail(idb) \in Seq(Request) /\ Grown(Tail(idb), Tail(idb), {"read"})
    BY <1>0, <1>3, HeadGone DEF Counted, Counting
  <2>3. idb' = Tail(idb) \/ idb' = Append(Tail(idb), DbRequest("read", 0))
    BY <1>3 DEF Counted, StartSync
  <2> QED BY <2>1, <2>2, <2>3, OneGrown
<1>4. ASSUME SendOk PROVE Grown(idb, idb', {"patchResponse", "sent", "count"})
  <2> DEFINE d == PatchAfter(req.msg, idb)
             ops == {"patchResponse", "sent", "count"}
  <2>1. Len(responses') \in Nat
    BY <1>4, ApiSteps, LearnTyped DEF SendOk, TypeInv, ApiT, ReqT
  <2>2. Grown(idb, d, ops)
    BY <1>0, <2>1, GrownNot, PatchGrown
  <2>3. Grown(idb, Append(d, DbRequest("sent", 0)), ops)
    <3>1. "sent" \in DbOps
      BY DEF DbOps
    <3> QED BY <1>0, <2>2, <3>1, OneGrown
  <2>4. \A q, r, s : Grown(idb, ProcessQueue(d, "count", q, r, s), ops)
    BY <1>0, <2>2, ProcessGrown
  <2> QED BY <1>4, <2>3, <2>4 DEF SendOk, Succeeded
<1>5. ASSUME SendRefused PROVE Grown(idb, idb', {"dropped"})
  <2>1. "dropped" \in DbOps
    BY DEF DbOps
  <2>2. Grown(idb, idb, {"dropped"})
    BY <1>0, GrownNot
  <2>3. idb' = idb \/ idb' = Append(idb, DbRequest("dropped", 0))
    BY <1>5 DEF SendRefused
  <2> QED BY <1>0, <2>1, <2>2, <2>3, OneGrown
<1>6. ASSUME SendSuspected \/ SendFails \/ Resend PROVE Grown(idb, idb', {})
  BY <1>0, <1>6 DEF SendSuspected, SendFails, Resend
<1>7. ASSUME SentRemoved PROVE Grown(Tail(idb), idb', {"count"})
  BY <1>0, <1>7, HeadGone, ProcessGrown DEF SentRemoved, Succeeded
<1> QED BY <1>1, <1>2, <1>3, <1>4, <1>5, <1>6, <1>7 DEF QueueIdb

LEMMA SyncNextGrown ==
    ASSUME NEW d \in Seq(Request), NEW todo, NEW done, SyncNext(todo, done, d)
    PROVE  Grown(d, idb', {"count", "clear"})
<1>1. Grown(d, d, {"count", "clear"})
  BY GrownNot
<1>2. \A q, r, s : Grown(d, ProcessQueue(d, "count", q, r, s), {"count", "clear"})
  BY <1>1, ProcessGrown
<1>3. "clear" \in DbOps
  BY DEF DbOps
<1>4. \A q, r, s : Grown(d, Append(ProcessQueue(d, "count", q, r, s), DbRequest("clear", 0)), {"count", "clear"})
  BY <1>2, <1>3, OneGrown
<1>5. CASE todo = {}
  BY <1>2, <1>4, <1>5 DEF SyncNext, SyncSucceeds
<1>6. CASE todo # {}
  BY <1>1, <1>6 DEF SyncNext
<1> QED BY <1>5, <1>6

LEMMA SyncIdbHolds == ASSUME TypeInv PROVE SyncIdb
<1>0. idb \in Seq(Request) /\ Grown(idb, idb, {}) /\ IdbT
  BY GrownNot DEF TypeInv, IdbT
<1>1. ASSUME EffectCounted PROVE Grown(Tail(idb), idb', {"read"})
  <2>1. "read" \in DbOps
    BY DEF DbOps
  <2>2. Tail(idb) \in Seq(Request) /\ Grown(Tail(idb), Tail(idb), {"read"})
    BY <1>0, <1>1, HeadGone DEF EffectCounted
  <2>3. idb' = Tail(idb) \/ idb' = Append(Tail(idb), DbRequest("read", 0))
    BY <1>1 DEF EffectCounted, StartSync
  <2> QED BY <2>1, <2>2, <2>3, OneGrown
<1>2. ASSUME SyncRead \/ SyncedRemoved PROVE Grown(Tail(idb), idb', {"count", "clear"})
  <2>1. Tail(idb) \in Seq(Request) /\ Grown(Tail(idb), Tail(idb), {"count", "clear"})
    BY <1>0, <1>2, HeadGone DEF SyncRead, SyncedRemoved
  <2>2. \/ idb' = Tail(idb)
        \/ \E todo, done : SyncNext(todo, done, Tail(idb))
    <3>1. CASE SyncRead
      BY <3>1 DEF SyncRead
    <3>2. CASE SyncedRemoved
      BY <3>2 DEF SyncedRemoved
    <3> QED BY <1>2, <3>1, <3>2
  <2> QED BY <2>1, <2>2, SyncNextGrown
<1>3. ASSUME SyncOk PROVE Grown(idb, idb', {"patchResponse", "synced"})
  <2> DEFINE ops == {"patchResponse", "synced"}
  <2>1. Len(responses') \in Nat
    BY <1>3, ApiSteps, LearnTyped DEF SyncOk, TypeInv, ApiT, SynT
  <2>2. Grown(idb, PatchAfter(syn.msg, idb), ops)
    BY <1>0, <2>1, GrownNot, PatchGrown
  <2>3. "synced" \in DbOps
    BY DEF DbOps
  <2> QED BY <1>0, <1>3, <2>2, <2>3, OneGrown DEF SyncOk
<1>4. ASSUME SyncRefused PROVE Grown(idb, idb', {"synced"})
  <2>1. "synced" \in DbOps
    BY DEF DbOps
  <2> QED BY <1>0, <1>4, <2>1, AppendGrown DEF SyncRefused
<1>5. ASSUME SyncNotFound \/ SyncFails PROVE Grown(idb, idb', {})
  BY <1>0, <1>5 DEF SyncNotFound, SyncFails
<1> QED BY <1>1, <1>2, <1>3, <1>4, <1>5 DEF SyncIdb

(***************************************************************************)
(* Who touches what: the actions that a variable can change in.              *)
(***************************************************************************)

(* Who touches what.                                                         *)
LEMMA AskedBy == Next => UNCHANGED asked \/ Answer \/ Reload
  BY DEF Next, PageStep, QueueStep, SyncStep, CreateDisplay, Retry, GoOffline, GoOnline,
         StrayArrives, OwnerDeletes, Added, Patched, Cleared, CountFails, Counted, SendOk,
         SendRefused, SendSuspected, SendFails, Resend, SentRemoved, DroppedRemoved,
         EffectCounted, SyncRead, SyncOk, SyncRefused, SyncNotFound, SyncFails, SyncedRemoved, page

LEMMA ApiBy == Next => UNCHANGED apiVars \/ SendOk \/ SendRefused \/ SendSuspected \/ SendFails \/ SyncOk
                       \/ SyncRefused \/ SyncNotFound \/ SyncFails \/ Reload \/ StrayArrives \/ OwnerDeletes
  BY DEF Next, PageStep, QueueStep, SyncStep, Answer, CreateDisplay, Retry, GoOffline, GoOnline,
         Added, Patched, Cleared, CountFails, Counted, Resend, SentRemoved, DroppedRemoved,
         EffectCounted, SyncRead, SyncedRemoved

LEMMA QueueBy == Next => UNCHANGED queue \/ Answer \/ Reload \/ SendOk \/ SendRefused \/ SyncRead
                         \/ SyncFails \/ SyncedRemoved
  BY DEF Next, PageStep, QueueStep, SyncStep, CreateDisplay, Retry, GoOffline, GoOnline,
         StrayArrives, OwnerDeletes, Added, Patched, Cleared, CountFails, Counted,
         SendSuspected, SendFails, Resend, SentRemoved, DroppedRemoved,
         EffectCounted, SyncOk, SyncRefused, SyncNotFound, memory

LEMMA MemoryBy == Next => UNCHANGED <<pendingDbIds, pendingRemoval, db>> \/ Reload \/ Added \/ Counted
                          \/ SentRemoved \/ DroppedRemoved \/ EffectCounted \/ SyncRead \/ SyncFails
                          \/ SyncedRemoved
  BY DEF Next, PageStep, QueueStep, SyncStep, Answer, CreateDisplay, Retry, GoOffline, GoOnline,
         StrayArrives, OwnerDeletes, Patched, Cleared, CountFails, SendOk, SendRefused,
         SendSuspected, SendFails, Resend, SyncOk, SyncRefused, SyncNotFound, memory, storage

LEMMA StateBy == Next => UNCHANGED surveyState \/ CreateDisplay \/ Reload \/ SendOk \/ SyncRead \/ SyncOk
                         \/ SyncNotFound \/ SyncedRemoved
  BY DEF Next, PageStep, QueueStep, SyncStep, Answer, Retry, GoOffline, GoOnline,
         StrayArrives, OwnerDeletes, Added, Patched, Cleared, CountFails, Counted, SendRefused,
         SendSuspected, SendFails, Resend, SentRemoved, DroppedRemoved,
         EffectCounted, SyncRefused, SyncFails

LEMMA ReqBy == Next => UNCHANGED req \/ Reload \/ Counted \/ SendOk \/ SendRefused \/ SendSuspected
                       \/ SendFails \/ Resend \/ SentRemoved \/ DroppedRemoved
  BY DEF Next, PageStep, QueueStep, SyncStep, Answer, CreateDisplay, Retry, GoOffline, GoOnline,
         StrayArrives, OwnerDeletes, Added, Patched, Cleared, CountFails,
         EffectCounted, SyncRead, SyncOk, SyncRefused, SyncNotFound, SyncFails, SyncedRemoved

LEMMA SynBy == Next => UNCHANGED syn \/ Reload \/ Counted \/ EffectCounted \/ SyncRead \/ SyncOk
                       \/ SyncRefused \/ SyncNotFound \/ SyncFails \/ SyncedRemoved
  BY DEF Next, PageStep, QueueStep, SyncStep, Answer, CreateDisplay, Retry, GoOffline, GoOnline,
         StrayArrives, OwnerDeletes, Added, Patched, Cleared, CountFails, SendOk, SendRefused,
         SendSuspected, SendFails, Resend, SentRemoved, DroppedRemoved

LEMMA SavedBy == Next => UNCHANGED <<snapshot, progress>> \/ Answer \/ Reload \/ Added \/ Patched \/ Cleared
  BY DEF Next, PageStep, QueueStep, SyncStep, CreateDisplay, Retry, GoOffline, GoOnline,
         StrayArrives, OwnerDeletes, CountFails, Counted, SendOk, SendRefused, SendSuspected,
         SendFails, Resend, SentRemoved, DroppedRemoved, EffectCounted, SyncRead, SyncOk,
         SyncRefused, SyncNotFound, SyncFails, SyncedRemoved, storage

LEMMA StrayBy == Next => UNCHANGED stray \/ Reload \/ StrayArrives
  BY DEF Next, PageStep, QueueStep, SyncStep, Answer, CreateDisplay, Retry, GoOffline, GoOnline,
         OwnerDeletes, Added, Patched, Cleared, CountFails, Counted, SendOk, SendRefused, SendSuspected,
         SendFails, Resend, SentRemoved, DroppedRemoved, EffectCounted, SyncRead, SyncOk,
         SyncRefused, SyncNotFound, SyncFails, SyncedRemoved, storage

LEMMA BudgetBy == Next => UNCHANGED budget \/ CreateDisplay \/ GoOffline \/ Reload \/ OwnerDeletes \/ Added
                          \/ DbFault
  BY DEF Next, PageStep, QueueStep, SyncStep, Answer, Retry, GoOnline, StrayArrives,
         Patched, Cleared, CountFails, Counted, CleanUp, SendOk, SendRefused, SendSuspected,
         SendFails, Resend, SentRemoved, DroppedRemoved, RemoveStored, EffectCounted, SyncRead, SyncOk,
         SyncRefused, SyncNotFound, SyncFails, SyncedRemoved

LEMMA IdbBy == TypeInv /\ Next =>
                  \/ Answer \/ Reload
                  \/ UNCHANGED asked /\ Grown(idb, idb', DbOps \ {"add"})
                  \/ /\ UNCHANGED asked /\ idb # <<>> /\ Grown(Tail(idb), idb', DbOps \ {"add"})
                     /\ Added \/ Head(idb).op # "add"
<1> SUFFICES ASSUME TypeInv, Next, ~Answer, ~Reload
             PROVE  \/ Grown(idb, idb', DbOps \ {"add"})
                    \/ /\ idb # <<>> /\ Grown(Tail(idb), idb', DbOps \ {"add"})
                       /\ Added \/ Head(idb).op # "add"
  BY AskedBy
<1>1. PageIdb /\ QueueIdb /\ SyncIdb
  BY PageIdbHolds, QueueIdbHolds, SyncIdbHolds
<1>2. ASSUME NEW d, NEW ops, ops \subseteq DbOps \ {"add"}, Grown(d, idb', ops)
      PROVE  Grown(d, idb', DbOps \ {"add"})
  BY <1>2 DEF Grown
<1>3. /\ {"patchDisplay"} \subseteq DbOps \ {"add"} /\ {"retry"} \subseteq DbOps \ {"add"}
      /\ {"effect"} \subseteq DbOps \ {"add"} /\ {} \subseteq DbOps \ {"add"}
      /\ {"count"} \subseteq DbOps \ {"add"} /\ {"read"} \subseteq DbOps \ {"add"}
      /\ {"patchResponse", "sent", "count"} \subseteq DbOps \ {"add"}
      /\ {"dropped"} \subseteq DbOps \ {"add"} /\ {"count", "clear"} \subseteq DbOps \ {"add"}
      /\ {"patchResponse", "synced"} \subseteq DbOps \ {"add"} /\ {"synced"} \subseteq DbOps \ {"add"}
  BY DEF DbOps
<1>4. CASE PageStep
  <2>1. CASE CreateDisplay
    BY <1>1, <1>2, <1>3, <2>1 DEF PageIdb
  <2>2. CASE Retry
    BY <1>1, <1>2, <1>3, <2>2 DEF PageIdb
  <2>3. CASE GoOnline
    BY <1>1, <1>2, <1>3, <2>3 DEF PageIdb
  <2>4. CASE GoOffline \/ StrayArrives \/ OwnerDeletes
    BY <1>1, <1>2, <1>3, <2>4 DEF PageIdb
  <2> QED BY <1>4, <2>1, <2>2, <2>3, <2>4 DEF PageStep
<1>5. ASSUME NEW op \in DbOps \ {"add"}, Oldest(op) PROVE idb # <<>> /\ Head(idb).op # "add"
  BY <1>5 DEF Oldest
<1>6. CASE QueueStep
  <2>1. CASE Added \/ SentRemoved
    <3>1. idb # <<>> /\ (Added \/ Head(idb).op # "add")
      BY <1>5, <2>1 DEF Added, SentRemoved, Oldest, DbOps
    <3> QED BY <1>1, <1>2, <1>3, <2>1, <3>1 DEF QueueIdb
  <2>2. CASE Patched \/ Cleared \/ CountFails \/ DroppedRemoved
    <3>1. idb # <<>> /\ Head(idb).op # "add"
      BY <1>5, <2>2 DEF Patched, Cleared, CountFails, DroppedRemoved, Counting, DbOps
    <3> QED BY <1>1, <1>2, <1>3, <2>2, <3>1 DEF QueueIdb
  <2>3. CASE Counted
    <3>1. idb # <<>> /\ Head(idb).op # "add"
      BY <1>5, <2>3 DEF Counted, Counting, DbOps
    <3> QED BY <1>1, <1>2, <1>3, <2>3, <3>1 DEF QueueIdb
  <2>4. CASE SendOk
    BY <1>1, <1>2, <1>3, <2>4 DEF QueueIdb
  <2>5. CASE SendRefused
    BY <1>1, <1>2, <1>3, <2>5 DEF QueueIdb
  <2>6. CASE SendSuspected \/ SendFails \/ Resend
    BY <1>1, <1>2, <1>3, <2>6 DEF QueueIdb
  <2> QED BY <1>6, <2>1, <2>2, <2>3, <2>4, <2>5, <2>6 DEF QueueStep
<1>7. CASE SyncStep
  <2>1. CASE EffectCounted
    <3>1. idb # <<>> /\ Head(idb).op # "add"
      BY <1>5, <2>1 DEF EffectCounted, DbOps
    <3> QED BY <1>1, <1>2, <1>3, <2>1, <3>1 DEF SyncIdb
  <2>2. CASE SyncRead \/ SyncedRemoved
    <3>1. idb # <<>> /\ Head(idb).op # "add"
      BY <1>5, <2>2 DEF SyncRead, SyncedRemoved, DbOps
    <3> QED BY <1>1, <1>2, <1>3, <2>2, <3>1 DEF SyncIdb
  <2>3. CASE SyncOk
    BY <1>1, <1>2, <1>3, <2>3 DEF SyncIdb
  <2>4. CASE SyncRefused
    BY <1>1, <1>2, <1>3, <2>4 DEF SyncIdb
  <2>5. CASE SyncNotFound \/ SyncFails
    BY <1>1, <1>2, <1>3, <2>5 DEF SyncIdb
  <2> QED BY <1>7, <2>1, <2>2, <2>3, <2>4, <2>5 DEF SyncStep
<1> QED BY <1>4, <1>6, <1>7 DEF Next

(***************************************************************************)
(* Types of the server's rows, of the requests and of the page.              *)
(***************************************************************************)

LEMMA ApiTyped == ASSUME TypeInv, Next PROVE ApiT'
<1>0. ApiTypeOK /\ req.msg \in Messages /\ syn.msg \in Messages /\ online \in BOOLEAN /\ stray \subseteq Messages
  BY DEF TypeInv, ApiT, ReqT, SynT, PageT, StrayT
<1>1. CASE UNCHANGED apiVars
  BY <1>0, <1>1 DEF ApiT, ApiTypeOK, apiVars
<1>2. CASE SendOk \/ SendRefused \/ SendSuspected \/ SendFails
  BY <1>0, <1>2, ApiSteps DEF SendOk, SendRefused, SendSuspected, SendFails, ApiT
<1>3. CASE SyncOk \/ SyncRefused \/ SyncNotFound \/ SyncFails
  BY <1>0, <1>3, ApiSteps DEF SyncOk, SyncRefused, SyncNotFound, SyncFails, ApiT
<1>4. CASE Reload
  <2>1. unheard' \in BOOLEAN
    BY <1>4, Zenon DEF Reload
  <2>2. UNCHANGED <<responses, turnedDown, refused, netFaults>>
    BY <1>4 DEF Reload
  <2> QED BY <1>0, <2>1, <2>2 DEF ApiT, ApiTypeOK
<1>5. CASE StrayArrives
  <2>1. PICK m \in stray : \/ /\ responses' = Stored(m)
                              /\ unheard' = (unheard \/ m.response = 0)
                           \/ UNCHANGED <<responses, unheard>>
    BY <1>5 DEF StrayArrives
  <2>2. UNCHANGED <<turnedDown, refused, netFaults>>
    BY <1>5 DEF StrayArrives
  <2>3. unheard' \in BOOLEAN
    <3>1. unheard \in BOOLEAN
      BY <1>0 DEF ApiTypeOK
    <3> QED BY <2>1, <3>1, Zenon
  <2>4. m \in Messages
    BY <1>0
  <2>5. responses' \in Seq([answers : SUBSET Answers, display : Nat, live : BOOLEAN])
    BY <1>0, <2>1, <2>4, StoredTyped DEF ApiTypeOK
  <2> QED BY <1>0, <2>2, <2>3, <2>5 DEF ApiT, ApiTypeOK
<1>6. CASE OwnerDeletes
  BY <1>0, <1>6, DeleteTyped DEF OwnerDeletes, ApiT
<1> QED BY <1>1, <1>2, <1>3, <1>4, <1>5, <1>6, ApiBy

LEMMA IdbTyped == ASSUME TypeInv, Next PROVE IdbT'
<1>0. idb \in Seq(Request) /\ AddsUpTo(idb, asked) /\ asked \in Nat
  BY DEF TypeInv, IdbT, PageT
<1>1. CASE Answer
  <2>1. idb' = Append(idb, DbRequest("add", asked + 1)) /\ asked' = asked + 1
    BY <1>1 DEF Answer
  <2> QED BY <1>0, <2>1, NewAdds DEF IdbT
<1>2. CASE Reload
  <2>1. /\ idb' \in Seq(Request)
        /\ \A i \in DOMAIN idb' : idb'[i].op = "effect"
    BY <1>2, PageIdbHolds DEF PageIdb
  <2>2. \A a : ~Adding(idb', a)
    BY <2>1 DEF Adding, Elem, DbRequest
  <2> QED BY <2>1, <2>2 DEF IdbT, AddsUpTo
<1>3. CASE UNCHANGED asked /\ Grown(idb, idb', DbOps \ {"add"})
  BY <1>0, <1>3, GrownAdds DEF IdbT, Grown
<1>4. CASE UNCHANGED asked /\ idb # <<>> /\ Grown(Tail(idb), idb', DbOps \ {"add"})
  BY <1>0, <1>4, GrownAdds, TailAdds DEF IdbT, Grown
<1> QED BY <1>1, <1>2, <1>3, <1>4, IdbBy

LEMMA BudgetTyped == ASSUME TypeInv, Next PROVE BudgetT'
<1>0. BudgetT
  BY DEF TypeInv
<1>1. CASE UNCHANGED budget
  BY <1>0, <1>1 DEF BudgetT
<1>2. CASE DbFault
  BY <1>0, <1>2 DEF BudgetT, DbFault
<1>3. CASE CreateDisplay
  <2>1. budget' = [budget EXCEPT !.display = @ - 1] /\ budget.display > 0
    BY <1>3 DEF CreateDisplay
  <2>2. MaxDisplays \in Nat
    BY BoundsAssumption
  <2> QED BY <1>0, <2>1, <2>2 DEF BudgetT
<1>4. CASE GoOffline \/ Reload \/ OwnerDeletes
  <2>1. \/ budget' = [budget EXCEPT !.flap = @ - 1] /\ budget.flap > 0
        \/ budget' = [budget EXCEPT !.reload = @ - 1] /\ budget.reload > 0
        \/ budget' = [budget EXCEPT !.delete = @ - 1] /\ budget.delete > 0
    <3>1. CASE GoOffline
      BY <3>1 DEF GoOffline
    <3>2. CASE Reload
      BY <3>2 DEF Reload
    <3>3. CASE OwnerDeletes
      BY <3>3 DEF OwnerDeletes
    <3> QED BY <1>4, <3>1, <3>2, <3>3
  <2> QED BY <1>0, <2>1 DEF BudgetT
<1>5. CASE Added
  BY <1>0, <1>5, BoundsAssumption DEF BudgetT, Added
<1> QED BY <1>1, <1>2, <1>3, <1>4, <1>5, BudgetBy

LEMMA StrayTyped == ASSUME TypeInv, Next PROVE StrayT'
<1>0. stray \subseteq Messages /\ InFlight \subseteq Messages
  BY DEF TypeInv, StrayT, ReqT, SynT, InFlight
<1>1. CASE UNCHANGED stray
  BY <1>0, <1>1 DEF StrayT
<1>2. CASE Reload
  BY <1>0, <1>2 DEF StrayT, Reload, StartOver, Restore
<1>3. CASE StrayArrives
  BY <1>0, <1>3 DEF StrayT, StrayArrives
<1> QED BY <1>1, <1>2, <1>3, StrayBy

LEMMA ReloadPage ==
    ASSUME TypeInv, Reload
    PROVE  /\ asked' \in 0..NumAnswers /\ asked' <= asked /\ over' \in BOOLEAN
           /\ surveyState' \in State
           /\ progress' \in [saved : BOOLEAN, upto : 0..NumAnswers, responseId : Nat, displayId : Nat]
           /\ progress'.saved => progress'.upto <= asked'
<1>0. /\ asked \in 0..NumAnswers /\ over \in BOOLEAN
      /\ idb \in Seq(Request) /\ AddsUpTo(idb, asked)
      /\ progress \in [saved : BOOLEAN, upto : 0..NumAnswers, responseId : Nat, displayId : Nat]
      /\ progress.saved => progress.upto <= asked
      /\ NumAnswers \in Nat
  BY NumAnswersAssumption DEF TypeInv, PageT, IdbT, SavedT
<1>1. PICK expired \in {FALSE, StaleReloads} : StartOver(expired) \/ (Unfinished(expired) /\ Restore)
  BY DEF Reload
<1>2. CASE StartOver(expired)
  <2>1. Cardinality({i \in DOMAIN idb : idb[i].op = "add"}) \in 0..asked
    BY <1>0, AddsCounted
  <2>2. asked' \in 0..NumAnswers /\ asked' <= asked
    BY <1>0, <1>2, <2>1 DEF StartOver
  <2>3. surveyState' \in State /\ over' \in BOOLEAN
    BY <1>2 DEF StartOver, FreshState, State
  <2>4. progress' \in [saved : BOOLEAN, upto : 0..NumAnswers, responseId : Nat, displayId : Nat] /\ ~progress'.saved
    BY <1>0, <1>2 DEF StartOver, NoProgress
  <2> QED BY <2>2, <2>3, <2>4
<1>3. CASE Unfinished(expired) /\ Restore
  <2>1. progress.saved
    BY <1>3 DEF Unfinished
  <2>2. asked' = progress.upto /\ over' = over
    BY <1>3 DEF Restore
  <2>3. surveyState' \in State /\ progress' \in [saved : BOOLEAN, upto : 0..NumAnswers, responseId : Nat, displayId : Nat]
        /\ progress'.upto = progress.upto
    <3>1. CASE db = {} /\ progress.responseId = 0
      <4>1. Lookup
        BY <1>3, <3>1 DEF Restore
      <4>2. DOMAIN responses = 1..Len(responses) /\ Len(responses) \in Nat
        BY LenProperties DEF TypeInv, ApiT, ApiTypeOK
      <4> DEFINE b == [responseId |-> 0, displayId |-> progress.displayId, bootstrap |-> TRUE]
      <4>3. b \in State
        BY <1>0 DEF State
      <4>4. CASE surveyState' = b /\ progress' = progress
        BY <1>0, <4>3, <4>4
      <4>5. CASE \E r \in DOMAIN responses :
                   \/ /\ surveyState' = [b EXCEPT !.responseId = r, !.bootstrap = FALSE]
                      /\ progress' = [progress EXCEPT !.responseId = r]
                   \/ /\ surveyState' = [b EXCEPT !.displayId = 0]
                      /\ progress' = [progress EXCEPT !.displayId = 0]
        <5> HIDE DEF b
        <5>1. PICK r \in DOMAIN responses :
                   \/ /\ surveyState' = [b EXCEPT !.responseId = r, !.bootstrap = FALSE]
                      /\ progress' = [progress EXCEPT !.responseId = r]
                   \/ /\ surveyState' = [b EXCEPT !.displayId = 0]
                      /\ progress' = [progress EXCEPT !.displayId = 0]
          BY <4>5
        <5>r. r \in Nat
          BY <4>2
        <5>2. CASE /\ surveyState' = [b EXCEPT !.responseId = r, !.bootstrap = FALSE]
                   /\ progress' = [progress EXCEPT !.responseId = r]
          BY <1>0, <4>3, <5>r, <5>2 DEF State
        <5>3. CASE /\ surveyState' = [b EXCEPT !.displayId = 0]
                   /\ progress' = [progress EXCEPT !.displayId = 0]
          BY <1>0, <4>3, <5>3 DEF State
        <5> QED BY <5>1, <5>2, <5>3
      <4> QED BY <4>1, <4>4, <4>5 DEF Lookup
    <3>2. CASE ~(db = {} /\ progress.responseId = 0)
      <4>1. surveyState' = [responseId |-> progress.responseId, displayId |-> progress.displayId,
                            bootstrap |-> FALSE]
            /\ progress' = progress
        BY <1>3, <3>2 DEF Restore
      <4> QED BY <1>0, <4>1 DEF State
    <3> QED BY <3>1, <3>2
  <2> QED BY <1>0, <2>1, <2>2, <2>3
<1> QED BY <1>1, <1>2, <1>3

LEMMA PageTyped == ASSUME TypeInv, Next PROVE PageT'
<1>0. PageT
  BY DEF TypeInv
<1>1. asked' \in 0..NumAnswers
  <2>1. CASE Answer
    BY <1>0, <2>1, NumAnswersAssumption DEF PageT, Answer
  <2>2. CASE Reload
    BY <2>2, ReloadPage
  <2>3. CASE UNCHANGED asked
    BY <1>0, <2>3 DEF PageT
  <2> QED BY <2>1, <2>2, <2>3, AskedBy
<1>2. ASSUME NEW card \in {"none", "retry", "final"}, Failed(card)
      PROVE  error' \in {"none", "retry", "final"} /\ isRequestInProgress' \in BOOLEAN
  BY <1>0, <1>2 DEF Failed, PageT
<1>3. ASSUME NEW q, NEW d, Succeeded(q, d)
      PROVE  error' \in {"none", "retry", "final"} /\ isRequestInProgress' \in BOOLEAN
  BY <1>0, <1>3 DEF Succeeded, PageT
<1>4. CASE PageStep
  <2>1. CASE Reload
    <3>1. over' \in BOOLEAN
      BY <2>1, ReloadPage
    <3> QED BY <1>0, <1>1, <2>1, <3>1 DEF Reload, PageT
  <2>2. CASE ~Reload
    BY <1>0, <1>1, <1>4, <2>2 DEF PageT, PageStep, Answer, CreateDisplay, Retry, GoOffline, GoOnline, StrayArrives,
                    OwnerDeletes, page, locks
  <2> QED BY <2>1, <2>2
<1>5. CASE QueueStep
  <2>1. CASE Added \/ Patched \/ Cleared \/ CountFails
    BY <1>0, <2>1 DEF PageT, Added, Patched, Cleared, CountFails, page, locks
  <2>2. CASE Counted
    <3>1. UNCHANGED page
      BY <2>2 DEF Counted
    <3>2. isRequestInProgress' \in BOOLEAN /\ isSyncing' \in BOOLEAN
      BY <1>0, <2>2 DEF PageT, Counted, StartSync, locks
    <3> QED BY <1>0, <3>1, <3>2 DEF PageT, page
  <2>3. CASE SendOk
    <3>1. error' \in {"none", "retry", "final"} /\ isRequestInProgress' \in BOOLEAN
      BY <1>0, <1>3, <2>3 DEF PageT, SendOk
    <3> QED BY <1>0, <2>3, <3>1 DEF PageT, SendOk
  <2>4. CASE SendRefused
    <3>1. error' \in {"none", "retry", "final"} /\ isRequestInProgress' \in BOOLEAN
      BY <1>0, <1>2, <2>4 DEF PageT, SendRefused
    <3> QED BY <1>0, <2>4, <3>1 DEF PageT, SendRefused
  <2>5. CASE SendSuspected
    BY <1>0, <1>2, <2>5 DEF PageT, SendSuspected
  <2>6. CASE SendFails
    BY <1>0, <2>6 DEF PageT, SendFails, page, locks
  <2>7. CASE Resend
    <3>1. error' \in {"none", "retry", "final"} /\ isRequestInProgress' \in BOOLEAN
      BY <1>0, <1>2, <2>7 DEF PageT, Resend
    <3> QED BY <1>0, <2>7, <3>1 DEF PageT, Resend
  <2>8. CASE SentRemoved
    <3>1. error' \in {"none", "retry", "final"} /\ isRequestInProgress' \in BOOLEAN
      BY <1>3, <2>8 DEF SentRemoved
    <3> QED BY <1>0, <2>8, <3>1 DEF PageT, SentRemoved
  <2>9. CASE DroppedRemoved
    BY <1>0, <2>9 DEF PageT, DroppedRemoved
  <2> QED BY <1>5, <2>1, <2>2, <2>3, <2>4, <2>5, <2>6, <2>7, <2>8, <2>9 DEF QueueStep
<1>6. CASE SyncStep
  <2>1. UNCHANGED <<page, isRequestInProgress>>
    BY <1>6 DEF SyncStep, EffectCounted, SyncRead, SyncOk, SyncRefused, SyncNotFound, SyncFails, SyncedRemoved, locks
  <2>2. ASSUME NEW todo, NEW done, NEW d, SyncNext(todo, done, d) PROVE isSyncing' \in BOOLEAN
    BY <1>0, <2>2 DEF SyncNext, EndSync, PageT
  <2>3. isSyncing' \in BOOLEAN
    <3>1. CASE EffectCounted
      BY <1>0, <3>1 DEF EffectCounted, StartSync, PageT
    <3>2. CASE SyncRead
      BY <2>2, <3>2 DEF SyncRead, EndSync
    <3>3. CASE SyncedRemoved
      BY <2>2, <3>3 DEF SyncedRemoved, EndSync
    <3>4. CASE SyncOk \/ SyncRefused \/ SyncNotFound \/ SyncFails
      BY <1>0, <3>4 DEF SyncOk, SyncRefused, SyncNotFound, SyncFails, EndSync, locks, PageT
    <3> QED BY <1>6, <3>1, <3>2, <3>3, <3>4 DEF SyncStep
  <2> QED BY <1>0, <2>1, <2>3 DEF PageT, page
<1> QED BY <1>4, <1>5, <1>6 DEF Next

(***************************************************************************)
(* The two senders exclude each other: the locks are tested and taken in one *)
(* turn of the event loop, and each sender gives its lock back only when it  *)
(* has nothing under way.                                                    *)
(***************************************************************************)

(* A sender with something under way holds its lock; at most one is held.    *)
SenderInv ==
    /\ req.pc # "idle" => isRequestInProgress
    /\ syn.pc # "idle" => isSyncing
    /\ ~(isRequestInProgress /\ isSyncing)

(* No sender has anything under way at first.                                *)
LEMMA SenderInit == Init => SenderInv
  BY DEF Init, SenderInv, IdleReq, IdleSyn

(* A turn of the page takes no lock; a reload drops both with their senders. *)
LEMMA PageStepSender == ASSUME SenderInv, PageStep PROVE SenderInv'
<1>1. ASSUME UNCHANGED <<locks, req, syn>> PROVE SenderInv'
  BY <1>1 DEF SenderInv, locks
<1>2. CASE Reload
  BY <1>2 DEF Reload, SenderInv, IdleReq, IdleSyn
<1>3. CASE ~Reload
  BY <1>1, <1>3 DEF PageStep, Answer, CreateDisplay, Retry, GoOffline, GoOnline, StrayArrives,
                    OwnerDeletes
<1> QED BY <1>2, <1>3

(* The request lock is given back with nothing under way.                    *)
LEMMA RequestEnds ==
    ASSUME SenderInv, isRequestInProgress' = FALSE, req' = IdleReq, UNCHANGED <<isSyncing, syn>>
    PROVE  SenderInv'
  BY DEF SenderInv, IdleReq

(* A sender goes on under the locks it has.                                  *)
LEMMA RequestGoesOn ==
    ASSUME SenderInv, req.pc # "idle", UNCHANGED <<locks, syn>>
    PROVE  SenderInv'
<1>1. isRequestInProgress /\ ~isSyncing
  BY DEF SenderInv
<1> QED BY <1>1 DEF SenderInv, locks

(* processQueue takes a lock only when it sees both free in the same turn.   *)
LEMMA QueueStepSender == ASSUME SenderInv, QueueStep PROVE SenderInv'
<1>1. CASE Added \/ Patched \/ Cleared \/ CountFails
  BY <1>1 DEF Added, Patched, Cleared, CountFails, SenderInv, locks
<1>2. CASE Counted
  <2>1. CASE isSyncing \/ isRequestInProgress \/ queue = <<>>
    BY <1>2, <2>1 DEF Counted, SenderInv, locks
  <2>2. CASE ~(isSyncing \/ isRequestInProgress \/ queue = <<>>)
    BY <1>2, <2>2 DEF Counted, StartSync, SenderInv
  <2> QED BY <2>1, <2>2
<1>3. CASE SendOk
  <2>1. CASE req.answer \in pendingDbIds
    <3>1. req.pc # "idle" /\ UNCHANGED <<locks, syn>>
      BY <1>3, <2>1 DEF SendOk, locks
    <3> QED BY <3>1, RequestGoesOn
  <2>2. CASE req.answer \notin pendingDbIds
    <3>1. /\ isRequestInProgress' = FALSE
          /\ req' = IdleReq
          /\ UNCHANGED <<isSyncing, syn>>
      BY <1>3, <2>2 DEF SendOk, Succeeded
    <3> QED BY <3>1, RequestEnds
  <2> QED BY <2>1, <2>2
<1>4. ASSUME NEW card, Failed(card), UNCHANGED <<isSyncing, syn>>
      PROVE  SenderInv'
  BY <1>4, RequestEnds DEF Failed
<1>5. CASE SendRefused
  <2>1. CASE online /\ req.answer \in pendingDbIds
    <3>1. req.pc # "idle" /\ UNCHANGED <<locks, syn>>
      BY <1>5, <2>1 DEF SendRefused, locks
    <3> QED BY <3>1, RequestGoesOn
  <2>2. CASE ~(online /\ req.answer \in pendingDbIds)
    BY <1>4, <1>5, <2>2 DEF SendRefused
  <2> QED BY <2>1, <2>2
<1>6. CASE SendSuspected
  BY <1>4, <1>6 DEF SendSuspected
<1>7. CASE SendFails
  BY <1>7, RequestGoesOn DEF SendFails
<1>8. CASE Resend
  <2>1. CASE req.attempt + 1 < RetryAttempts
    <3>1. req.pc # "idle" /\ UNCHANGED <<locks, syn>>
      BY <1>8, <2>1 DEF Resend, locks
    <3> QED BY <3>1, RequestGoesOn
  <2>2. CASE ~(req.attempt + 1 < RetryAttempts)
    BY <1>4, <1>8, <2>2 DEF Resend
  <2> QED BY <2>1, <2>2
<1>9. CASE SentRemoved
  BY <1>9, RequestEnds DEF SentRemoved, Succeeded
<1>10. CASE DroppedRemoved
  BY <1>10, RequestEnds DEF DroppedRemoved
<1> QED BY <1>1, <1>2, <1>3, <1>5, <1>6, <1>7, <1>8, <1>9, <1>10 DEF QueueStep

(* The sync lock is taken while the request lock is free, and given back at  *)
(* every end of the sync.                                                    *)
LEMMA SyncStepSender == ASSUME SenderInv, SyncStep PROVE SenderInv'
<1>1. CASE EffectCounted
  BY <1>1 DEF EffectCounted, StartSync, SenderInv
<1>2. ASSUME NEW done, EndSync(done), UNCHANGED <<isRequestInProgress, req>>
      PROVE  SenderInv'
  BY <1>2 DEF EndSync, IdleSyn, SenderInv
<1>3. ASSUME syn.pc # "idle", UNCHANGED <<locks, req>>
      PROVE  SenderInv'
  <2>1. isSyncing /\ ~isRequestInProgress
    BY <1>3 DEF SenderInv
  <2> QED BY <1>3, <2>1 DEF SenderInv, locks
<1>4. ASSUME NEW todo, NEW done, NEW d, SyncNext(todo, done, d), syn.pc # "idle",
             UNCHANGED <<isRequestInProgress, req>>
      PROVE  SenderInv'
  <2>1. CASE todo = {}
    BY <1>2, <1>4, <2>1 DEF SyncNext
  <2>2. CASE todo # {}
    BY <1>3, <1>4, <2>2 DEF SyncNext, locks
  <2> QED BY <2>1, <2>2
<1>5. CASE SyncRead
  BY <1>2, <1>4, <1>5 DEF SyncRead
<1>6. CASE SyncOk \/ SyncRefused \/ SyncNotFound
  BY <1>3, <1>6 DEF SyncOk, SyncRefused, SyncNotFound
<1>7. CASE SyncFails
  BY <1>2, <1>7 DEF SyncFails
<1>8. CASE SyncedRemoved
  BY <1>2, <1>4, <1>8 DEF SyncedRemoved
<1> QED BY <1>1, <1>5, <1>6, <1>7, <1>8 DEF SyncStep

(* "Only one sync/send runs at a time per survey": for any number of         *)
(* answers, attempts, faults, losses of the connection and reloads,          *)
(* processQueue and syncPersistedResponses never both have something under   *)
(* way.                                                                      *)
THEOREM SendersExclude == Spec => []OneSender
<1>1. SenderInv /\ [Next]_vars => SenderInv'
  <2>1. CASE UNCHANGED vars
    BY <2>1 DEF vars, queueVars, locks, SenderInv
  <2> QED BY <2>1, PageStepSender, QueueStepSender, SyncStepSender DEF Next
<1>2. SenderInv => OneSender
  BY DEF SenderInv, OneSender
<1> QED BY <1>1, <1>2, SenderInit, PTL DEF Spec

(***************************************************************************)
(* Types of the queue, and its head while processQueue sends.                *)
(***************************************************************************)

(* The answers given are answers; the sorted queue's elements are among them. *)
LEMMA AskedAnswers == ASSUME PageT PROVE asked \in Nat /\ 1..asked \subseteq Answers
  BY NumAnswersAssumption DEF PageT, Answers

LEMMA EarliestOf ==
    ASSUME NEW S \in SUBSET Answers, S # {}
    PROVE  Earliest(S) \in S /\ \A b \in S : Earliest(S) <= b
<1>1. S \in SUBSET Nat
  BY DEF Answers
<1>2. \E a \in S : \A b \in S : a <= b
  BY <1>1, LeastExists
<1> QED BY <1>2 DEF Earliest

LEMMA SyncQueue ==
    ASSUME NEW todo, NEW done, NEW d, SyncNext(todo, done, d)
    PROVE  UNCHANGED queue \/ queue' = Unprocessed(done)
  BY DEF SyncNext, EndSync

LEMMA QueueTyped == ASSUME TypeInv, HeadIsSent, Next PROVE QueueT'
<1>0. QueueT /\ PageT /\ PageT'
  BY PageTyped DEF TypeInv
<1>1. CASE UNCHANGED <<queue, asked>>
  BY <1>0, <1>1 DEF QueueT, Sorted, Elem
<1>2. CASE Answer
  <2>1. queue' = Append(queue, asked + 1) /\ asked' = asked + 1
    BY <1>2 DEF Answer
  <2>2. asked + 1 \in Answers /\ asked \in Nat
    BY <1>0, <2>1 DEF PageT, Answers
  <2>3. queue' \in Seq(Answers) /\ \A x : Elem(queue', x) <=> Elem(queue, x) \/ x = asked + 1
    BY <1>0, <2>1, <2>2, Appended, ElemAppended DEF QueueT
  <2>4. Sorted(queue')
    <3>1. \A x : Elem(queue, x) => x < asked + 1
      BY <1>0, <2>2 DEF QueueT
    <3> QED BY <1>0, <2>1, <2>2, <3>1, SortedAppended DEF QueueT
  <2>5. \A x : Elem(queue', x) => x \in 1..asked'
    <3> TAKE x
    <3>1. Elem(queue, x) => x \in 1..asked
      BY <1>0 DEF QueueT
    <3> QED BY <2>1, <2>2, <2>3, <3>1
  <2> QED BY <2>3, <2>4, <2>5 DEF QueueT
<1>3. CASE Reload
  <2>1. queue' = <<>>
    BY <1>3 DEF Reload
  <2>2. queue' \in Seq(Answers)
    BY <2>1, EmptySeq
  <2> QED BY <2>1, <2>2 DEF QueueT, Sorted, Elem
<1>4. CASE UNCHANGED asked /\ queue # <<>> /\ queue' = Tail(queue)
  <2>1. queue' \in Seq(Answers) /\ Sorted(queue') /\ \A x : Elem(queue', x) => Elem(queue, x)
    BY <1>0, <1>4, Tailed, SortedTailed, ElemTailed DEF QueueT
  <2> QED BY <1>0, <1>4, <2>1 DEF QueueT
<1>5. ASSUME NEW done, UNCHANGED asked, queue' = Unprocessed(done) PROVE QueueT'
  <2>1. queue' \in Seq(Answers) /\ Sorted(queue') /\ \A x : Elem(queue', x) => Elem(queue, x)
    BY <1>0, <1>5, UnprocessedLeft DEF QueueT
  <2> QED BY <1>0, <1>5, <2>1 DEF QueueT
<1>6. CASE SendOk \/ SendRefused
  <2>1. UNCHANGED asked /\ queue # <<>> /\ (queue' = Tail(queue) \/ UNCHANGED queue)
    BY <1>6 DEF SendOk, SendRefused, HeadIsSent
  <2> QED BY <1>1, <1>4, <2>1
<1>7. CASE SyncRead \/ SyncFails \/ SyncedRemoved
  <2>1. UNCHANGED asked
    BY <1>7 DEF SyncRead, SyncFails, SyncedRemoved, page
  <2>2. UNCHANGED queue \/ \E done : queue' = Unprocessed(done)
    BY <1>7, SyncQueue DEF SyncRead, SyncFails, SyncedRemoved, EndSync
  <2> QED BY <1>1, <1>5, <2>1, <2>2
<1> QED BY <1>1, <1>2, <1>3, <1>6, <1>7, AskedBy, QueueBy

(* The answer being sent stays at the head: answers are queued behind it,    *)
(* and only its own sender, or a reload, takes it away.                      *)
LEMMA HeadStep == ASSUME TypeInv, SenderInv, HeadIsSent, Next PROVE HeadIsSent'
<1>0. queue \in Seq(Answers) /\ asked \in Nat
  BY DEF TypeInv, QueueT, PageT
<1>r. req \in [pc : {"idle", "flight", "backoff", "sent", "dropped"}, answer : 0..NumAnswers,
                attempt : 0..(RetryAttempts - 1), manual : BOOLEAN, msg : Messages]
  BY DEF TypeInv, ReqT
<1>1. CASE UNCHANGED <<queue, req>>
  BY <1>1 DEF HeadIsSent
<1>2. ASSUME req'.pc \notin {"flight", "backoff"} PROVE HeadIsSent'
  BY <1>2 DEF HeadIsSent
<1>3. CASE Answer
  <2>1. asked + 1 \in Answers /\ queue' = Append(queue, asked + 1) /\ UNCHANGED req
    BY <1>0, <1>3, NumAnswersAssumption DEF Answer, Answers, TypeInv, PageT
  <2> QED BY <1>0, <2>1, Appended DEF HeadIsSent
<1>4. CASE Reload
  BY <1>2, <1>4 DEF Reload, IdleReq
<1>5. CASE Counted
  <2>1. \/ UNCHANGED req
        \/ /\ queue # <<>>
           /\ req' = [pc |-> "flight", answer |-> Head(queue), attempt |-> 0,
                      manual |-> Head(idb).op = "retry", msg |-> Message(Head(queue), surveyState)]
    BY <1>5, Zenon DEF Counted
  <2>2. UNCHANGED queue
    BY <1>5 DEF Counted
  <2> QED BY <2>1, <2>2 DEF HeadIsSent
<1>6. CASE SendOk
  <2>1. req' = [req EXCEPT !.pc = "sent", !.msg = NoMessage] \/ req' = IdleReq
    BY <1>6, Zenon DEF SendOk, Succeeded
  <2>2. CASE req' = [req EXCEPT !.pc = "sent", !.msg = NoMessage]
    BY <1>r, <1>2, <2>2
  <2>3. CASE req' = IdleReq
    BY <1>2, <2>3 DEF IdleReq
  <2> QED BY <2>1, <2>2, <2>3
<1>7. CASE SendRefused
  <2>1. req' = [req EXCEPT !.pc = "dropped", !.msg = NoMessage] \/ req' = IdleReq
    BY <1>7, Zenon DEF SendRefused, Failed
  <2>2. CASE req' = [req EXCEPT !.pc = "dropped", !.msg = NoMessage]
    BY <1>r, <1>2, <2>2
  <2>3. CASE req' = IdleReq
    BY <1>2, <2>3 DEF IdleReq
  <2> QED BY <2>1, <2>2, <2>3
<1>8. CASE SendSuspected
  BY <1>2, <1>8 DEF SendSuspected, Failed, IdleReq
<1>9. CASE SendFails
  <2>1. UNCHANGED queue /\ req.pc = "flight" /\ req'.answer = req.answer
    BY <1>9 DEF SendFails, memory, TypeInv, ReqT
  <2> QED BY <2>1 DEF HeadIsSent
<1>10. CASE Resend
  <2>1. UNCHANGED queue /\ req.pc = "backoff"
    BY <1>10 DEF Resend, memory
  <2>2. req'.answer = req.answer \/ req' = IdleReq
    BY <1>10 DEF Resend, Failed, TypeInv, ReqT
  <2> QED BY <2>1, <2>2 DEF HeadIsSent, IdleReq
<1>11. CASE SentRemoved \/ DroppedRemoved
  <2>1. req' = IdleReq
    BY <1>11 DEF SentRemoved, DroppedRemoved, Succeeded
  <2> QED BY <1>2, <2>1 DEF IdleReq
<1>12. CASE SyncRead \/ SyncFails \/ SyncedRemoved
  <2>1. syn.pc # "idle" /\ UNCHANGED req
    BY <1>12 DEF SyncRead, SyncFails, SyncedRemoved
  <2> QED BY <1>2, <2>1 DEF SenderInv
<1> QED BY <1>1, <1>3, <1>4, <1>5, <1>6, <1>7, <1>8, <1>9, <1>10, <1>11, <1>12, QueueBy, ReqBy

(* An answer whose write settles was given.                                  *)
LEMMA AddedAnswer == ASSUME TypeInv, Added PROVE Head(idb).n \in 1..asked /\ Head(idb).n \in Answers
<1>1. idb \in Seq(Request) /\ AddsUpTo(idb, asked) /\ asked \in Nat /\ 1..asked \subseteq Answers
  BY AskedAnswers DEF TypeInv, IdbT, PageT
<1>2. idb # <<>> /\ Head(idb).op = "add"
  BY DEF Added, Oldest
<1> QED BY <1>1, <1>2, TailAdds

LEMMA MemoryTyped == ASSUME TypeInv, Next PROVE MemoryT'
<1>0. MemoryT
  BY DEF TypeInv
<1>1. CASE UNCHANGED <<pendingDbIds, pendingRemoval, db>>
  BY <1>0, <1>1 DEF MemoryT
<1>2. CASE Reload
  BY <1>0, <1>2 DEF MemoryT, Reload
<1>3. CASE Added
  <2>1. Head(idb).n \in Answers
    BY <1>3, AddedAnswer
  <2> QED BY <1>0, <1>3, <2>1 DEF MemoryT, Added
<1>4. CASE CleanUp
  BY <1>0, <1>4 DEF MemoryT, CleanUp
<1>5. CASE Counted
  BY <1>4, <1>5 DEF Counted
<1>6. ASSUME NEW a \in Answers, RemoveStored(a), pendingDbIds' \subseteq pendingDbIds PROVE MemoryT'
  BY <1>0, <1>6 DEF MemoryT, RemoveStored
<1>7. CASE SentRemoved \/ DroppedRemoved
  <2>1. req.answer \in Answers
    BY <1>7 DEF SentRemoved, DroppedRemoved, TypeInv, ReqT
  <2>2. RemoveStored(req.answer) /\ pendingDbIds' \subseteq pendingDbIds
    BY <1>7 DEF SentRemoved, DroppedRemoved, ForgetRemoved
  <2> QED BY <1>6, <2>1, <2>2
<1>8. CASE EffectCounted
  BY <1>1, <1>4, <1>8 DEF EffectCounted, memory
<1>9. CASE SyncRead
  BY <1>1, <1>4, <1>9 DEF SyncRead
<1>10. CASE SyncFails
  BY <1>0, <1>10 DEF MemoryT, SyncFails, storage
<1>11. CASE SyncedRemoved
  <2>1. syn.answer \in Answers
    BY <1>11 DEF SyncedRemoved, TypeInv, SynT
  <2>2. RemoveStored(syn.answer) /\ pendingDbIds' \subseteq pendingDbIds
    BY <1>11 DEF SyncedRemoved
  <2> QED BY <1>6, <2>1, <2>2
<1> QED BY <1>1, <1>2, <1>3, <1>5, <1>7, <1>8, <1>9, <1>10, <1>11, MemoryBy

LEMMA StateForTyped ==
    ASSUME SavedT, NEW a \in Answers, NEW st \in State
    PROVE  StateFor(a, st) \in State
  BY DEF SavedT, Snapshots, StateFor, State

(* What a sync goes on with.                                                 *)
LEMMA SyncNextTyped ==
    ASSUME TypeInv, NEW todo \in SUBSET Answers, NEW done, NEW d, SyncNext(todo, done, d)
    PROVE  surveyState' \in State
<1>1. CASE todo = {}
  BY <1>1 DEF SyncNext, TypeInv, StateT
<1>2. CASE todo # {}
  <2>1. Earliest(todo) \in Answers
    BY <1>2, EarliestOf
  <2> QED BY <1>2, <2>1, StateForTyped DEF SyncNext, TypeInv, StateT
<1> QED BY <1>1, <1>2

LEMMA StateTyped == ASSUME TypeInv, Next PROVE StateT'
<1>0. StateT /\ MemoryT' /\ ApiTypeOK'
  BY MemoryTyped, ApiTyped DEF TypeInv, ApiT
<1>1. CASE UNCHANGED surveyState
  BY <1>0, <1>1 DEF StateT
<1>2. CASE CreateDisplay
  <2>1. MaxDisplays - budget.display + 1 \in Nat
    BY BoundsAssumption DEF TypeInv, BudgetT
  <2> QED BY <1>0, <1>2, <2>1 DEF CreateDisplay, StateT, State
<1>3. CASE Reload
  BY <1>3, ReloadPage DEF StateT
<1>4. CASE SendOk
  BY <1>0, <1>4, LearnTyped DEF SendOk, StateT
<1>5. CASE SyncOk
  BY <1>0, <1>5, LearnTyped DEF SyncOk, StateT
<1>6. CASE SyncRead
  BY <1>0, <1>1, <1>6, SyncNextTyped DEF SyncRead, MemoryT, StateT
<1>7. CASE SyncNotFound
  <2>1. syn.answer \in Answers
    BY <1>7 DEF SyncNotFound, TypeInv, SynT
  <2>2. snapshot[syn.answer].displayId \in Nat
    BY <2>1 DEF TypeInv, SavedT, Snapshots
  <2> QED BY <1>0, <1>7, <2>2 DEF SyncNotFound, StateT, State
<1>8. CASE SyncedRemoved
  <2>1. syn.todo \in SUBSET Answers
    BY DEF TypeInv, SynT
  <2> QED BY <1>0, <1>1, <1>8, <2>1, SyncNextTyped DEF SyncedRemoved, StateT
<1> QED BY <1>1, <1>2, <1>3, <1>4, <1>5, <1>6, <1>7, <1>8, StateBy

(***************************************************************************)
(* Types of the senders and of what is saved; the invariant CoreInv.         *)
(***************************************************************************)

LEMMA ReqTyped == ASSUME TypeInv, HeadIsSent, Next PROVE ReqT'
<1> DEFINE Reqs == [pc : {"idle", "flight", "backoff", "sent", "dropped"}, answer : 0..NumAnswers,
                    attempt : 0..(RetryAttempts - 1), manual : BOOLEAN, msg : Messages]
<1>0. req \in Reqs /\ (req.pc # "idle" => req.answer \in Answers) /\ PageT /\ surveyState \in State
      /\ Answers \subseteq 0..NumAnswers /\ NoMessage \in Messages
  BY IdleTyped, NumAnswersAssumption DEF TypeInv, ReqT, StateT, Answers
<1>1. CASE UNCHANGED req
  BY <1>0, <1>1 DEF ReqT
<1>2. CASE req' = IdleReq
  BY <1>0, <1>2, RetryAssumption, NumAnswersAssumption DEF ReqT, IdleReq
<1>3. ASSUME NEW p \in {"sent", "dropped", "backoff"}, req.pc # "idle",
             req' = [req EXCEPT !.pc = p, !.msg = NoMessage]
      PROVE  ReqT'
  BY <1>0, <1>3 DEF ReqT
<1>4. CASE Counted
  <2>1. \/ UNCHANGED req
        \/ /\ queue # <<>>
           /\ req' = [pc |-> "flight", answer |-> Head(queue), attempt |-> 0,
                      manual |-> Head(idb).op = "retry", msg |-> Message(Head(queue), surveyState)]
    BY <1>4, Zenon DEF Counted
  <2>2. CASE /\ queue # <<>>
             /\ req' = [pc |-> "flight", answer |-> Head(queue), attempt |-> 0,
                        manual |-> Head(idb).op = "retry", msg |-> Message(Head(queue), surveyState)]
    <3>1. Head(queue) \in Answers
      BY <2>2, Tailed DEF TypeInv, QueueT
    <3>2. Message(Head(queue), surveyState) \in Messages
      BY <1>0, <3>1, MessageTyped
    <3>3. (Head(idb).op = "retry") \in BOOLEAN
      OBVIOUS
    <3> HIDE <2>2
    <3>4. \A t \in BOOLEAN :
            [pc |-> "flight", answer |-> Head(queue), attempt |-> 0,
             manual |-> t, msg |-> Message(Head(queue), surveyState)] \in Reqs
      <4>1. 0 \in 0..(RetryAttempts - 1)
        BY RetryAssumption
      <4>2. Head(queue) \in 0..NumAnswers
        BY <3>1, NumAnswersAssumption DEF Answers
      <4> QED BY <3>2, <4>1, <4>2
    <3>5. req' \in Reqs
      BY <2>2, <3>3, <3>4
    <3>6. req'.answer = Head(queue)
      BY <2>2
    <3> QED BY <3>1, <3>5, <3>6 DEF ReqT
  <2> QED BY <1>1, <2>1, <2>2
<1>5. CASE SendOk
  BY <1>2, <1>3, <1>5, Zenon DEF SendOk, Succeeded
<1>6. CASE SendRefused
  BY <1>2, <1>3, <1>6, Zenon DEF SendRefused, Failed
<1>7. CASE Reload
  BY <1>2, <1>7 DEF Reload
<1>8. CASE SendSuspected
  BY <1>2, <1>8 DEF SendSuspected, Failed
<1>9. CASE SendFails
  BY <1>3, <1>9, Zenon DEF SendFails
<1>10. CASE Resend
  <2>1. CASE req.attempt + 1 < RetryAttempts
    <3>1. Message(req.answer, surveyState) \in Messages /\ req.answer \in Answers
      BY <1>0, <1>10, MessageTyped DEF Resend
    <3>2. req' = [req EXCEPT !.pc = "flight", !.attempt = @ + 1, !.msg = Message(req.answer, surveyState)]
      BY <1>10, <2>1 DEF Resend
    <3>3. req.attempt + 1 \in 0..(RetryAttempts - 1)
      BY <1>0, <2>1, RetryAssumption
    <3> QED BY <1>0, <3>1, <3>2, <3>3 DEF ReqT
  <2>2. CASE ~(req.attempt + 1 < RetryAttempts)
    BY <1>2, <1>10, <2>2 DEF Resend, Failed
  <2> QED BY <2>1, <2>2
<1>11. CASE SentRemoved \/ DroppedRemoved
  BY <1>2, <1>11 DEF SentRemoved, DroppedRemoved, Succeeded
<1> QED BY <1>1, <1>4, <1>5, <1>6, <1>7, <1>8, <1>9, <1>10, <1>11, ReqBy

LEMMA SynTyped == ASSUME TypeInv, Next PROVE SynT'
<1> DEFINE Syns == [pc : {"idle", "reading", "flight", "removing"}, todo : SUBSET Answers,
                    done : SUBSET Answers, answer : 0..NumAnswers, byEffect : BOOLEAN, msg : Messages]
<1>0. syn \in Syns /\ (syn.pc \in {"flight", "removing"} => syn.answer \in Answers)
      /\ Answers \subseteq 0..NumAnswers /\ NoMessage \in Messages
  BY IdleTyped, NumAnswersAssumption DEF TypeInv, SynT, Answers
<1>a. PageT' /\ StateT' /\ MemoryT'
  BY PageTyped, StateTyped, MemoryTyped
<1>1. CASE UNCHANGED syn
  BY <1>0, <1>1 DEF SynT
<1>2. CASE syn' = IdleSyn
  BY <1>0, <1>2, NumAnswersAssumption DEF SynT, IdleSyn
<1>3. ASSUME NEW d, NEW e \in BOOLEAN, StartSync(d, e) PROVE SynT'
  <2>1. syn' = [IdleSyn EXCEPT !.pc = "reading", !.byEffect = e]
    BY <1>3 DEF StartSync
  <2>2. IdleSyn \in Syns
    BY <1>0, NumAnswersAssumption DEF IdleSyn
  <2>3. syn' \in Syns /\ syn'.pc = "reading"
    BY <1>3, <2>1, <2>2
  <2> QED BY <2>3 DEF SynT
<1>4. ASSUME syn.pc = "flight", syn' = [syn EXCEPT !.pc = "removing", !.msg = NoMessage] PROVE SynT'
  BY <1>0, <1>4 DEF SynT
<1>5. ASSUME NEW todo \in SUBSET Answers, NEW done \in SUBSET Answers, NEW d, SyncNext(todo, done, d),
             UNCHANGED asked
      PROVE  SynT'
  <2>1. CASE todo = {}
    BY <1>2, <1>5, <2>1 DEF SyncNext, EndSync
  <2>2. CASE todo # {}
    <3> DEFINE a == Earliest(todo)
    <3>1. a \in Answers
      BY <2>2, EarliestOf
    <3>2. syn' = [syn EXCEPT !.pc = "flight", !.todo = todo \ {a}, !.done = done,
                             !.answer = a, !.msg = Message(a, surveyState')]
      BY <1>5, <2>2 DEF SyncNext
    <3> HIDE DEF a
    <3>3. Message(a, surveyState') \in Messages
      <4>1. PageT /\ surveyState' \in State
        BY <1>a DEF TypeInv, StateT
      <4> QED BY <3>1, <4>1, MessageTyped
    <3> QED BY <1>0, <3>1, <3>2, <3>3 DEF SynT
  <2> QED BY <2>1, <2>2
<1>6. CASE Counted
  BY <1>1, <1>3, <1>6 DEF Counted
<1>7. CASE EffectCounted
  BY <1>1, <1>3, <1>7 DEF EffectCounted
<1>8. CASE SyncRead
  <2>1. UNCHANGED asked
    BY <1>8 DEF SyncRead, page
  <2>2. db' \ pendingRemoval' \in SUBSET Answers /\ {} \in SUBSET Answers
    BY <1>a DEF MemoryT
  <2> QED BY <1>2, <1>5, <1>8, <2>1, <2>2 DEF SyncRead, EndSync
<1>9. CASE SyncOk \/ SyncRefused
  BY <1>4, <1>9 DEF SyncOk, SyncRefused
<1>10. CASE SyncNotFound
  <2>1. syn.answer \in Answers /\ syn' = [syn EXCEPT !.msg = Message(syn.answer, surveyState')] /\ UNCHANGED asked
    BY <1>0, <1>10 DEF SyncNotFound, page
  <2>2. Message(syn.answer, surveyState') \in Messages
    <3>1. PageT /\ surveyState' \in State
      BY <1>a DEF TypeInv, StateT
    <3> QED BY <2>1, <3>1, MessageTyped
  <2> QED BY <1>0, <2>1, <2>2 DEF SynT
<1>11. CASE SyncFails
  BY <1>2, <1>11 DEF SyncFails, EndSync
<1>12. CASE SyncedRemoved
  <2>1. UNCHANGED asked /\ syn.todo \in SUBSET Answers /\ syn.done \cup {syn.answer} \in SUBSET Answers
    BY <1>0, <1>12 DEF SyncedRemoved, page
  <2> QED BY <1>2, <1>5, <1>12, <2>1 DEF SyncedRemoved, EndSync
<1>13. CASE Reload
  BY <1>2, <1>13 DEF Reload
<1> QED BY <1>1, <1>6, <1>7, <1>8, <1>9, <1>10, <1>11, <1>12, <1>13, SynBy

LEMMA SavedTyped == ASSUME TypeInv, Next PROVE SavedT'
<1> DEFINE Saved == [saved : BOOLEAN, upto : 0..NumAnswers, responseId : Nat, displayId : Nat]
<1>0. /\ snapshot \in Snapshots /\ progress \in Saved /\ (progress.saved => progress.upto <= asked)
      /\ idb \in Seq(Request) /\ asked \in 0..NumAnswers /\ asked \in Nat /\ NumAnswers \in Nat
      /\ surveyState \in State
  BY AskedAnswers, NumAnswersAssumption DEF TypeInv, SavedT, IdbT, PageT, StateT
<1>1. CASE UNCHANGED <<snapshot, progress>>
  <2>1. CASE Answer
    <3>1. asked' = asked + 1
      BY <2>1 DEF Answer
    <3> QED BY <1>0, <1>1, <3>1 DEF SavedT
  <2>2. CASE Reload
    <3>1. progress'.saved => progress'.upto <= asked'
      BY <2>2, ReloadPage
    <3> QED BY <1>0, <1>1, <3>1 DEF SavedT
  <2>3. CASE UNCHANGED asked
    BY <1>0, <1>1, <2>3 DEF SavedT
  <2> QED BY <2>1, <2>2, <2>3, AskedBy
<1>2. CASE Answer
  <2>1. asked' = asked + 1 /\ UNCHANGED progress
    BY <1>2 DEF Answer, storage
  <2>2. snapshot' = [snapshot EXCEPT ![asked + 1] = [responseId |-> surveyState.responseId,
                                                     displayId |-> surveyState.displayId]]
    BY <1>2 DEF Answer
  <2>3. snapshot' \in Snapshots
    BY <1>0, <2>2 DEF Snapshots, State
  <2> QED BY <1>0, <2>1, <2>3 DEF SavedT
<1>3. CASE Reload
  <2>1. UNCHANGED snapshot
    BY <1>3 DEF Reload
  <2> QED BY <1>0, <1>3, <2>1, ReloadPage DEF SavedT
<1>4. CASE Added
  <2> DEFINE a == Head(idb).n
  <2>1. a \in 1..asked /\ a \in Answers
    BY <1>4, AddedAnswer
  <2>2. progress' = [saved |-> TRUE, upto |-> a, responseId |-> snapshot[a].responseId,
                     displayId |-> snapshot[a].displayId]
        /\ UNCHANGED <<snapshot, asked>>
    BY <1>4 DEF Added, page
  <2> HIDE DEF a
  <2>3. snapshot[a] \in [responseId : Nat, displayId : Nat]
    BY <1>0, <2>1 DEF Snapshots
  <2>4. progress' \in Saved /\ progress'.upto <= asked
    BY <1>0, <2>1, <2>2, <2>3
  <2> QED BY <1>0, <2>2, <2>4 DEF SavedT
<1>5. CASE Patched
  <2>1. UNCHANGED <<snapshot, asked>>
    BY <1>5 DEF Patched, page
  <2>2. Head(idb).n \in Nat
    <3>1. Head(idb) \in Request
      BY <1>0, <1>5, Tailed DEF Patched, Oldest
    <3> QED BY <3>1 DEF Request
  <2>3. \/ progress' = progress
        \/ progress' = [progress EXCEPT !.responseId = Head(idb).n]
        \/ progress' = [progress EXCEPT !.displayId = Head(idb).n]
    BY <1>5 DEF Patched
  <2> QED BY <1>0, <2>1, <2>2, <2>3 DEF SavedT
<1>6. CASE Cleared
  <2>1. UNCHANGED <<snapshot, asked>> /\ progress' = NoProgress
    BY <1>6 DEF Cleared, page
  <2> QED BY <1>0, <2>1 DEF SavedT, NoProgress
<1> QED BY <1>1, <1>2, <1>3, <1>4, <1>5, <1>6, SavedBy

LEMMA TypeInit == Init => TypeInv
<1> SUFFICES ASSUME Init PROVE TypeInv
  OBVIOUS
<1>1. PICK s \in Sessions :
          /\ ApiInit(s.net)
          /\ budget = [add |-> MaxAddFaults, db |-> MaxDbFaults, flap |-> s.flap,
                       reload |-> s.reload, delete |-> s.delete, display |-> MaxDisplays]
  BY DEF Init
<1>2. s \in [net : Nat, flap : Nat, reload : Nat, delete : Nat]
      /\ MaxAddFaults \in Nat /\ MaxDbFaults \in Nat /\ MaxDisplays \in Nat
  BY BoundsAssumption
<1>3. ApiT
  <2>1. <<>> \in Seq([answers : SUBSET Answers, display : Nat, live : BOOLEAN])
    BY EmptySeq
  <2> QED BY <1>1, <1>2, <2>1 DEF ApiInit, ApiT, ApiTypeOK
<1>4. BudgetT
  BY <1>1, <1>2 DEF BudgetT
<1>5. PageT
  <2>1. /\ asked = 0 /\ error = "none" /\ over = FALSE /\ online = TRUE
        /\ isRequestInProgress = FALSE /\ isSyncing = FALSE
    BY DEF Init
  <2>2. 0 \in 0..NumAnswers
    BY NumAnswersAssumption
  <2> QED BY <2>1, <2>2 DEF PageT
<1>6. QueueT
  <2>1. <<>> \in Seq(Answers)
    BY EmptySeq
  <2> QED BY <2>1 DEF Init, QueueT, Sorted, Elem
<1>7. MemoryT /\ StateT /\ StrayT
  BY DEF Init, MemoryT, StateT, State, FreshState, StrayT
<1>8. ReqT
  BY IdleTyped, RetryAssumption, NumAnswersAssumption DEF Init, ReqT, IdleReq
<1>9. SynT
  BY IdleTyped, NumAnswersAssumption DEF Init, SynT, IdleSyn
<1>10. IdbT
  <2>1. idb = <<>> /\ asked = 0
    BY DEF Init
  <2>2. idb \in Seq(Request)
    BY <2>1, EmptySeq
  <2> QED BY <2>1, <2>2 DEF IdbT, AddsUpTo
<1>11. SavedT
  <2>1. snapshot \in Snapshots
    BY DEF Init, Snapshots, NoSnapshot
  <2> QED BY <2>1, NumAnswersAssumption DEF Init, SavedT, NoProgress
<1> QED BY <1>3, <1>4, <1>5, <1>6, <1>7, <1>8, <1>9, <1>10, <1>11 DEF TypeInv

(* The types are kept by every step, in states where the head is sent.       *)
LEMMA TypeStep == ASSUME TypeInv, HeadIsSent, Next PROVE TypeInv'
  BY ApiTyped, PageTyped, QueueTyped, MemoryTyped, StateTyped, ReqTyped, SynTyped, IdbTyped,
     SavedTyped, StrayTyped, BudgetTyped DEF TypeInv

(* Types, exclusion of the senders and the head of the queue rest on each    *)
(* other.                                                                    *)
CoreInv == TypeInv /\ SenderInv /\ HeadIsSent

(* A step that changes nothing.                                              *)
LEMMA CoreStutters == ASSUME CoreInv, UNCHANGED vars PROVE CoreInv'
  BY DEF CoreInv, TypeInv, ApiT, ApiTypeOK, PageT, QueueT, Sorted, Elem, MemoryT, StateT, ReqT, SynT, IdbT,
         AddsUpTo, Adding, SavedT, StrayT, BudgetT, SenderInv, HeadIsSent, vars, apiVars, queueVars, page, memory,
         locks, storage

(* Types, exclusion and head hold in every state.                            *)
LEMMA CoreHolds == Spec => []CoreInv
<1>1. Init => CoreInv
  BY TypeInit, SenderInit DEF CoreInv, Init, HeadIsSent, IdleReq
<1>2. CoreInv /\ [Next]_vars => CoreInv'
  <2>1. ASSUME CoreInv, Next PROVE CoreInv'
    BY <2>1, TypeStep, HeadStep, PageStepSender, QueueStepSender, SyncStepSender DEF CoreInv, Next
  <2> QED BY <2>1, CoreStutters
<1> QED BY <1>1, <1>2, PTL DEF Spec

(* Every variable keeps its type: the queue holds answers, attempts stay     *)
(* below the limit of the retries, and faults are never overdrawn.           *)
THEOREM TypeCorrect == Spec => []TypeOK
<1>1. CoreInv => TypeOK
  BY TypeParts DEF CoreInv
<1> QED BY <1>1, CoreHolds, PTL

(* queue.shift() after the await of sendResponseWithRetry removes the answer *)
(* that was sent: what is appended meanwhile goes behind it, and no other    *)
(* turn of the page takes the head.                                          *)
THEOREM HeadHolds == Spec => []HeadIsSent
<1>1. CoreInv => HeadIsSent
  BY DEF CoreInv
<1> QED BY <1>1, CoreHolds, PTL

(***************************************************************************)
(* Locks: whoever waits for IndexedDB has its request under way.             *)
(***************************************************************************)

(* A request op is under way.                                                *)
Has(d, op) == \E i \in DOMAIN d : d[i].op = op

LEMMA GrownHas ==
    ASSUME NEW d \in Seq(Request), NEW e, NEW ops, Grown(d, e, ops), NEW op, Has(d, op)
    PROVE  Has(e, op)
<1>1. /\ Len(d) \in Nat /\ DOMAIN d = 1..Len(d)
      /\ Len(e) \in Nat /\ DOMAIN e = 1..Len(e)
  BY LenProperties DEF Grown
<1>2. \A i \in DOMAIN d : i \in DOMAIN e /\ e[i] = d[i]
  BY <1>1 DEF Grown
<1> QED BY <1>2 DEF Has

LEMMA TailHas ==
    ASSUME NEW d \in Seq(Request), d # <<>>, NEW op, Head(d).op # op, Has(d, op)
    PROVE  Has(Tail(d), op)
<1>1. PICK i \in DOMAIN d : d[i].op = op
  BY DEF Has
<1>2. i # 1 /\ DOMAIN d = 1..Len(d) /\ DOMAIN Tail(d) = 1..(Len(d) - 1) /\ Len(d) \in Nat
  BY <1>1, Tailed
<1>3. i - 1 \in DOMAIN Tail(d) /\ (i - 1) + 1 = i
  BY <1>2
<1>4. Tail(d)[i - 1] = d[i]
  BY <1>3, Tailed
<1> QED BY <1>1, <1>3, <1>4 DEF Has

LEMMA AppendHas == ASSUME NEW d \in Seq(Request), NEW op \in DbOps, NEW n \in Nat
                   PROVE  Has(Append(d, DbRequest(op, n)), op)
<1>1. DbRequest(op, n) \in Request /\ DbRequest(op, n).op = op
  BY RequestTyped
<1>2. Len(d) + 1 \in DOMAIN Append(d, DbRequest(op, n))
      /\ Append(d, DbRequest(op, n))[Len(d) + 1] = DbRequest(op, n)
  BY <1>1, Appended
<1> QED BY <1>1, <1>2 DEF Has

(* A request that a sender waits for stays until its own turn.               *)
Awaited == {"read", "sent", "dropped", "synced"}

(* No step takes away a request that a sender waits for.                     *)
AwaitedStay == \A op \in Awaited : Requested(op) => Requested(op)'

LEMMA GrowsStay ==
    ASSUME idb \in Seq(Request), NEW ops, Grown(idb, idb', ops)
    PROVE  AwaitedStay
<1> SUFFICES ASSUME NEW op \in Awaited, Has(idb, op) PROVE Has(idb', op)
  BY DEF AwaitedStay, Requested, Has
<1> QED BY GrownHas

LEMMA TailStays ==
    ASSUME idb \in Seq(Request), NEW ops, Grown(Tail(idb), idb', ops), idb # <<>>, Head(idb).op \notin Awaited
    PROVE  AwaitedStay
<1> SUFFICES ASSUME NEW op \in Awaited, Has(idb, op) PROVE Has(idb', op)
  BY DEF AwaitedStay, Requested, Has
<1>1. Has(Tail(idb), op)
  BY TailHas
<1>2. Tail(idb) \in Seq(Request)
  BY Tailed
<1> QED BY <1>1, <1>2, GrownHas

LEMMA PageStays == ASSUME TypeInv, PageStep, ~Reload PROVE AwaitedStay
<1>0. idb \in Seq(Request) /\ PageIdb
  BY PageIdbHolds DEF TypeInv, IdbT
<1>1. CASE Answer
  <2>1. "add" \in DbOps /\ asked + 1 \in Nat /\ idb' = Append(idb, DbRequest("add", asked + 1))
    BY <1>1 DEF Answer, DbOps, TypeInv, PageT
  <2>2. Grown(idb, idb', {"add"})
    BY <1>0, <2>1, AppendGrown
  <2> QED BY <1>0, <2>2, GrowsStay
<1>2. CASE CreateDisplay \/ Retry \/ GoOnline \/ GoOffline \/ StrayArrives \/ OwnerDeletes
  BY <1>0, <1>2, GrowsStay DEF PageIdb
<1> QED BY <1>1, <1>2 DEF PageStep

(* Every step keeps the locks in order: one case per action.                 *)
LEMMA LocksStep == ASSUME CoreInv, LocksReleased, Next PROVE LocksReleased'
<1>0. TypeInv /\ SenderInv /\ idb \in Seq(Request) /\ ReqT /\ SynT /\ TypeInv'
  BY TypeStep DEF CoreInv, TypeInv, IdbT
<1>q. req \in [pc : {"idle", "flight", "backoff", "sent", "dropped"}, answer : 0..NumAnswers,
               attempt : 0..(RetryAttempts - 1), manual : BOOLEAN, msg : Messages]
  BY <1>0 DEF ReqT
<1>y. syn \in [pc : {"idle", "reading", "flight", "removing"}, todo : SUBSET Answers,
               done : SUBSET Answers, answer : 0..NumAnswers, byEffect : BOOLEAN, msg : Messages]
  BY <1>0 DEF SynT
<1>r. req.pc # "idle" => ~isSyncing
  BY <1>0 DEF SenderInv
<1>s. syn.pc # "idle" => ~isRequestInProgress
  BY <1>0 DEF SenderInv
<1>1. CASE UNCHANGED <<locks, req, syn>> /\ AwaitedStay
  <2>1. UNCHANGED <<isRequestInProgress, isSyncing, req, syn>>
    BY <1>1 DEF locks
  <2> QED BY <1>1, <2>1 DEF LocksReleased, AwaitedStay, Awaited
<1>2. ASSUME ~isRequestInProgress', ~isSyncing' PROVE LocksReleased'
  BY <1>2 DEF LocksReleased
<1>3. ASSUME NEW e, StartSync(Tail(idb), e), idb # <<>>, ~isRequestInProgress' PROVE LocksReleased'
  <2>1. Tail(idb) \in Seq(Request) /\ "read" \in DbOps
    BY <1>0, <1>3, Tailed DEF DbOps
  <2>2. Has(idb', "read") /\ syn'.pc = "reading"
    BY <1>3, <2>1, AppendHas DEF StartSync, IdleSyn
  <2> QED BY <1>3, <2>2 DEF LocksReleased, Requested, Has
<1>4. ASSUME req'.pc \in {"flight", "backoff"}, ~isSyncing' PROVE LocksReleased'
  BY <1>4 DEF LocksReleased
<1>5. ASSUME ~isRequestInProgress', syn'.pc = "flight" PROVE LocksReleased'
  BY <1>5 DEF LocksReleased
<1>6. CASE Reload
  BY <1>2, <1>6 DEF Reload
<1>7. CASE PageStep /\ ~Reload
  <2>1. UNCHANGED <<locks, req, syn>>
    BY <1>7 DEF PageStep, Answer, CreateDisplay, Retry, GoOffline, GoOnline, StrayArrives, OwnerDeletes
  <2>2. AwaitedStay
    BY <1>0, <1>7, PageStays
  <2> QED BY <1>1, <2>1, <2>2
<1>8. CASE Added \/ Patched \/ Cleared \/ CountFails
  <2>1. UNCHANGED <<locks, req, syn>>
    BY <1>8 DEF Added, Patched, Cleared, CountFails
  <2>2. idb # <<>> /\ Head(idb).op \notin Awaited
    BY <1>8 DEF Added, Patched, Cleared, CountFails, Counting, Oldest, Awaited
  <2>3. AwaitedStay
    BY <1>0, <1>8, <2>2, TailStays, QueueIdbHolds DEF QueueIdb
  <2> QED BY <1>1, <2>1, <2>3
<1>9. CASE Counted
  <2>1. idb # <<>> /\ Head(idb).op \notin Awaited
    BY <1>9 DEF Counted, Counting, Oldest, Awaited
  <2>2. AwaitedStay
    BY <1>0, <1>9, <2>1, TailStays, QueueIdbHolds DEF QueueIdb
  <2>3. CASE isSyncing \/ isRequestInProgress \/ queue = <<>>
    BY <1>1, <1>9, <2>2, <2>3 DEF Counted
  <2>4. CASE /\ ~(isSyncing \/ isRequestInProgress \/ queue = <<>>)
             /\ Cardinality(db') > Cardinality(pendingRemoval') + 1
    <3>1. StartSync(Tail(idb), FALSE) /\ UNCHANGED isRequestInProgress
      BY <1>9, <2>4 DEF Counted
    <3> QED BY <1>3, <2>1, <2>4, <3>1
  <2>5. CASE /\ ~(isSyncing \/ isRequestInProgress \/ queue = <<>>)
             /\ ~(Cardinality(db') > Cardinality(pendingRemoval') + 1)
    <3>1. /\ req' = [pc |-> "flight", answer |-> Head(queue), attempt |-> 0,
                     manual |-> Head(idb).op = "retry", msg |-> Message(Head(queue), surveyState)]
          /\ UNCHANGED isSyncing
      BY <1>9, <2>5 DEF Counted
    <3>2. req'.pc = "flight"
      BY <3>1
    <3> QED BY <1>4, <2>5, <3>1, <3>2
  <2> QED BY <2>3, <2>4, <2>5
<1>10. CASE SendOk
  <2>0. ~isSyncing'
    BY <1>10, <1>r DEF SendOk
  <2>1. CASE req.answer \in pendingDbIds
    <3> DEFINE d == PatchAfter(req.msg, idb)
    <3>1. Len(responses') \in Nat
      BY <1>0, <1>10, ApiTyped, LenProperties DEF TypeInv, ApiT, ApiTypeOK
    <3>2. Grown(idb, d, {"patchResponse"})
      BY <1>0, <3>1, GrownNot, PatchGrown
    <3>3. d \in Seq(Request) /\ "sent" \in DbOps
      BY <3>2 DEF Grown, DbOps
    <3>4. idb' = Append(d, DbRequest("sent", 0)) /\ req' = [req EXCEPT !.pc = "sent", !.msg = NoMessage]
      BY <1>10, <2>1 DEF SendOk
    <3> HIDE DEF d
    <3>5. Has(idb', "sent")
      BY <3>3, <3>4, AppendHas
    <3>6. req'.pc = "sent"
      BY <1>q, <3>4
    <3> QED BY <2>0, <3>5, <3>6 DEF LocksReleased, Requested, Has
  <2>2. CASE req.answer \notin pendingDbIds
    BY <1>2, <1>10, <2>0, <2>2 DEF SendOk, Succeeded
  <2> QED BY <2>1, <2>2
<1>11. CASE SendRefused
  <2>0. ~isSyncing'
    BY <1>11, <1>r DEF SendRefused
  <2>1. CASE online /\ req.answer \in pendingDbIds
    <3>1. idb' = Append(idb, DbRequest("dropped", 0)) /\ req' = [req EXCEPT !.pc = "dropped", !.msg = NoMessage]
          /\ "dropped" \in DbOps
      BY <1>11, <2>1 DEF SendRefused, DbOps
    <3>2. Has(idb', "dropped")
      BY <1>0, <3>1, AppendHas
    <3>3. req'.pc = "dropped"
      BY <1>q, <3>1
    <3> QED BY <2>0, <3>2, <3>3 DEF LocksReleased, Requested, Has
  <2>2. CASE ~(online /\ req.answer \in pendingDbIds)
    BY <1>2, <1>11, <2>0, <2>2 DEF SendRefused, Failed
  <2> QED BY <2>1, <2>2
<1>12. CASE SendSuspected
  BY <1>2, <1>12, <1>r DEF SendSuspected, Failed
<1>13. CASE SendFails
  <2>1. req' = [req EXCEPT !.pc = "backoff", !.msg = NoMessage] /\ ~isSyncing'
    BY <1>13, <1>r DEF SendFails, locks
  <2>2. req'.pc = "backoff"
    BY <1>q, <2>1
  <2> QED BY <1>4, <2>1, <2>2
<1>14. CASE Resend
  <2>0. ~isSyncing'
    BY <1>14, <1>r DEF Resend
  <2>1. CASE req.attempt + 1 < RetryAttempts
    <3>1. req' = [req EXCEPT !.pc = "flight", !.attempt = @ + 1, !.msg = Message(req.answer, surveyState)]
      BY <1>14, <2>1 DEF Resend
    <3>2. req'.pc = "flight"
      BY <1>q, <3>1
    <3> QED BY <1>4, <2>0, <3>2
  <2>2. CASE ~(req.attempt + 1 < RetryAttempts)
    BY <1>2, <1>14, <2>0, <2>2 DEF Resend, Failed
  <2> QED BY <2>1, <2>2
<1>15. CASE SentRemoved
  BY <1>2, <1>15, <1>r DEF SentRemoved, Succeeded
<1>16. CASE DroppedRemoved
  BY <1>2, <1>16, <1>r DEF DroppedRemoved
<1>17. CASE EffectCounted
  <2>1. idb # <<>> /\ Head(idb).op \notin Awaited
    BY <1>17 DEF EffectCounted, Oldest, Awaited
  <2>2. AwaitedStay
    BY <1>0, <1>17, <2>1, TailStays, SyncIdbHolds DEF SyncIdb
  <2>3. CASE UNCHANGED <<isSyncing, syn>>
    BY <1>1, <1>17, <2>2, <2>3 DEF EffectCounted, locks
  <2>4. CASE StartSync(Tail(idb), TRUE) /\ ~isRequestInProgress
    BY <1>3, <1>17, <2>1, <2>4 DEF EffectCounted
  <2> QED BY <1>17, <2>3, <2>4 DEF EffectCounted
<1>18. ASSUME NEW todo, NEW done, NEW d, SyncNext(todo, done, d), ~isRequestInProgress' PROVE LocksReleased'
  <2>1. CASE todo = {}
    BY <1>2, <1>18, <2>1 DEF SyncNext, EndSync
  <2>2. CASE todo # {}
    <3> DEFINE a == Earliest(todo)
    <3>1. syn' = [syn EXCEPT !.pc = "flight", !.todo = todo \ {a}, !.done = done,
                             !.answer = a, !.msg = Message(a, surveyState')]
      BY <1>18, <2>2 DEF SyncNext
    <3> HIDE DEF a
    <3>2. syn'.pc = "flight"
      BY <1>y, <3>1
    <3> QED BY <1>5, <1>18, <3>2
  <2> QED BY <2>1, <2>2
<1>19. CASE SyncRead
  <2>0. ~isRequestInProgress'
    BY <1>19, <1>s DEF SyncRead
  <2> QED BY <1>2, <1>18, <1>19, <2>0 DEF SyncRead, EndSync
<1>20. CASE SyncOk \/ SyncRefused
  <2>0. ~isRequestInProgress' /\ "synced" \in DbOps
    <3>1. syn.pc = "flight" /\ UNCHANGED isRequestInProgress
      BY <1>20 DEF SyncOk, SyncRefused, locks
    <3> QED BY <1>s, <3>1 DEF DbOps
  <2>1. \E d \in Seq(Request) : idb' = Append(d, DbRequest("synced", 0))
    <3>1. CASE SyncOk
      <4>1. Len(responses') \in Nat
        BY <1>0, <3>1, ApiTyped, LenProperties DEF TypeInv, ApiT, ApiTypeOK
      <4>2. Grown(idb, PatchAfter(syn.msg, idb), {"patchResponse"})
        BY <1>0, <4>1, GrownNot, PatchGrown
      <4>3. PatchAfter(syn.msg, idb) \in Seq(Request)
        BY <4>2 DEF Grown
      <4> QED BY <3>1, <4>3 DEF SyncOk
    <3>2. CASE SyncRefused
      BY <1>0, <3>2 DEF SyncRefused
    <3> QED BY <1>20, <3>1, <3>2
  <2>2. Has(idb', "synced")
    BY <2>0, <2>1, AppendHas
  <2>3. syn' = [syn EXCEPT !.pc = "removing", !.msg = NoMessage]
    BY <1>20 DEF SyncOk, SyncRefused
  <2>4. syn'.pc = "removing"
    BY <1>y, <2>3
  <2> QED BY <2>0, <2>2, <2>4 DEF LocksReleased, Requested, Has
<1>21. CASE SyncNotFound
  <2>1. ~isRequestInProgress' /\ syn' = [syn EXCEPT !.msg = Message(syn.answer, surveyState')] /\ syn.pc = "flight"
    BY <1>21, <1>s DEF SyncNotFound, locks
  <2>2. syn'.pc = "flight"
    BY <1>y, <2>1
  <2> QED BY <1>5, <2>1, <2>2
<1>22. CASE SyncFails
  BY <1>2, <1>22, <1>s DEF SyncFails, EndSync
<1>23. CASE SyncedRemoved
  <2>0. ~isRequestInProgress'
    BY <1>23, <1>s DEF SyncedRemoved
  <2> QED BY <1>2, <1>18, <1>23, <2>0 DEF SyncedRemoved, EndSync
<1> QED
  BY <1>6, <1>7, <1>8, <1>9, <1>10, <1>11, <1>12, <1>13, <1>14, <1>15, <1>16, <1>17, <1>19, <1>20,
     <1>21, <1>22, <1>23 DEF Next, QueueStep, SyncStep

(* Neither lock is ever left behind: its holder waits for the server, for a  *)
(* backoff, or for an IndexedDB request that is really under way.            *)
THEOREM LocksHold == Spec => []LocksReleased
<1>1. Init => LocksReleased
  BY DEF Init, LocksReleased
<1>2. CoreInv /\ LocksReleased /\ [Next]_vars => LocksReleased'
  <2>1. ASSUME LocksReleased, UNCHANGED vars PROVE LocksReleased'
    BY <2>1 DEF LocksReleased, Requested, vars, queueVars, locks
  <2> QED BY <2>1, LocksStep
<1> QED BY <1>1, <1>2, CoreHolds, PTL DEF Spec

(***************************************************************************)
(* The rows of the server.                                                   *)
(***************************************************************************)

(* A response on the server.                                                 *)
Rows == [answers : SUBSET Answers, display : Nat, live : BOOLEAN]

LEMMA RowsTyped == ASSUME ApiTypeOK
                   PROVE  /\ responses \in Seq(Rows) /\ Len(responses) \in Nat
                          /\ DOMAIN responses = 1..Len(responses)
                          /\ \A r \in DOMAIN responses : responses[r] \in Rows
<1>1. responses \in Seq(Rows)
  BY DEF ApiTypeOK, Rows
<1>2. Len(responses) \in Nat /\ DOMAIN responses = 1..Len(responses)
  BY <1>1, LenProperties
<1> QED BY <1>1, <1>2, ElementOfSeq

(* What serving a request does to the rows.                                  *)
LEMMA StoredRows ==
    ASSUME ApiTypeOK, NEW m \in Messages
    PROVE  /\ m.response = 0 => /\ Len(Stored(m)) = Len(responses) + 1
                                /\ DOMAIN Stored(m) = 1..(Len(responses) + 1)
                                /\ \A r \in DOMAIN responses : Stored(m)[r] = responses[r]
                                /\ Stored(m)[Len(responses) + 1].answers = m.answers
           /\ m.response # 0 => /\ Len(Stored(m)) = Len(responses)
                                /\ DOMAIN Stored(m) = DOMAIN responses
                                /\ \A r \in DOMAIN responses :
                                      /\ Stored(m)[r].live = responses[r].live
                                      /\ Stored(m)[r].answers = IF r = m.response
                                                                THEN responses[r].answers \cup m.answers
                                                                ELSE responses[r].answers
<1>0. /\ responses \in Seq(Rows) /\ Len(responses) \in Nat
      /\ DOMAIN responses = 1..Len(responses)
      /\ \A r \in DOMAIN responses : responses[r] \in Rows
  BY RowsTyped
<1>1. ASSUME m.response = 0
      PROVE  /\ Len(Stored(m)) = Len(responses) + 1
             /\ DOMAIN Stored(m) = 1..(Len(responses) + 1)
             /\ \A r \in DOMAIN responses : Stored(m)[r] = responses[r]
             /\ Stored(m)[Len(responses) + 1].answers = m.answers
  <2> DEFINE row == [answers |-> m.answers, display |-> m.display, live |-> TRUE]
  <2>1. row \in Rows /\ row.answers = m.answers /\ Stored(m) = Append(responses, row)
    BY <1>1 DEF Messages, Rows, Stored
  <2> HIDE DEF row
  <2>2. Len(Append(responses, row)) = Len(responses) + 1
    BY <1>0, <2>1, AppendProperties
  <2> QED BY <1>0, <2>1, <2>2, Appended
<1>2. ASSUME m.response # 0
      PROVE  /\ Len(Stored(m)) = Len(responses)
             /\ DOMAIN Stored(m) = DOMAIN responses
             /\ \A r \in DOMAIN responses :
                   /\ Stored(m)[r].live = responses[r].live
                   /\ Stored(m)[r].answers = IF r = m.response
                                             THEN responses[r].answers \cup m.answers
                                             ELSE responses[r].answers
  <2> DEFINE q == Stored(m)
  <2>1. q = [responses EXCEPT ![m.response].answers = @ \cup m.answers]
    BY <1>2 DEF Stored
  <2>2. DOMAIN q = DOMAIN responses
    BY <2>1
  <2>3. q \in Seq(Rows)
    BY StoredTyped DEF Rows
  <2> HIDE DEF q
  <2>4. Len(q) = Len(responses)
    <3>1. Len(q) \in Nat /\ DOMAIN q = 1..Len(q)
      BY <2>3, LenProperties
    <3> QED BY <1>0, <2>2, <3>1
  <2>5. \A r \in DOMAIN responses :
           /\ q[r].live = responses[r].live
           /\ q[r].answers = IF r = m.response THEN responses[r].answers \cup m.answers ELSE responses[r].answers
    BY <1>0, <2>1 DEF Rows
  <2> QED BY <2>2, <2>4, <2>5 DEF q
<1> QED BY <1>1, <1>2

(* Nobody but the server changes the rows: it serves a request that is under *)
(* way or was, or deletes one.                                               *)
ServedBy == \/ UNCHANGED responses
            \/ \E m \in InFlight \cup stray : Acceptable(m) /\ responses' = Stored(m)
            \/ \E r \in DOMAIN responses : DeleteResponse(r)

(* Every action serves a request at most.                                    *)
LEMMA Serves == Next => ServedBy
<1> SUFFICES ASSUME Next PROVE ServedBy
  OBVIOUS
<1>1. CASE UNCHANGED apiVars
  BY <1>1 DEF ServedBy, apiVars
<1>2. ASSUME NEW m \in InFlight \cup stray,
             \/ Accept(m) \/ NotFound(m) \/ Refuse(m)
             \/ \E dropped : Suspect(m, dropped)
             \/ \E up : Fail(m, up)
      PROVE  ServedBy
  BY <1>2 DEF ServedBy, Accept, NotFound, Refuse, Suspect, Fail, apiVars
<1>3. CASE SendOk \/ SendRefused \/ SendSuspected \/ SendFails
  <2>1. req.msg \in InFlight
    BY <1>3 DEF SendOk, SendRefused, SendSuspected, SendFails, InFlight
  <2> QED BY <1>2, <1>3, <2>1 DEF SendOk, SendRefused, SendSuspected, SendFails
<1>4. CASE SyncOk \/ SyncRefused \/ SyncNotFound \/ SyncFails
  <2>1. syn.msg \in InFlight
    BY <1>4 DEF SyncOk, SyncRefused, SyncNotFound, SyncFails, InFlight
  <2> QED BY <1>2, <1>4, <2>1 DEF SyncOk, SyncRefused, SyncNotFound, SyncFails
<1>5. CASE Reload
  BY <1>5 DEF Reload, ServedBy
<1>6. CASE StrayArrives
  BY <1>6 DEF StrayArrives, ServedBy
<1>7. CASE OwnerDeletes
  BY <1>7 DEF OwnerDeletes, ServedBy
<1> QED BY <1>1, <1>3, <1>4, <1>5, <1>6, <1>7, ApiBy

LEMMA FlightsTyped == ASSUME TypeInv PROVE InFlight \subseteq Messages /\ stray \subseteq Messages
  BY DEF TypeInv, ReqT, SynT, StrayT, InFlight

(* Rows are only added, never brought back to life, and keep their answers.  *)
LEMMA RowsStep ==
    ASSUME TypeInv, Next
    PROVE  /\ Len(responses) \in Nat /\ Len(responses') \in Nat
           /\ Len(responses) <= Len(responses')
           /\ NoneDeleted' => NoneDeleted
           /\ \A a : Delivered(a) => Delivered(a)'
           /\ \A a : Delivered(a)' => Delivered(a) \/ \E m \in InFlight \cup stray :
                                                          a \in m.answers /\ Acceptable(m) /\ responses' = Stored(m)
<1>0. /\ responses \in Seq(Rows) /\ Len(responses) \in Nat
      /\ DOMAIN responses = 1..Len(responses)
      /\ \A r \in DOMAIN responses : responses[r] \in Rows
      /\ ApiTypeOK
  BY RowsTyped DEF TypeInv, ApiT
<1>1. CASE UNCHANGED responses
  BY <1>0, <1>1 DEF NoneDeleted, Delivered
<1>2. ASSUME NEW m \in InFlight \cup stray, Acceptable(m), responses' = Stored(m)
      PROVE  /\ Len(responses') \in Nat
             /\ Len(responses) <= Len(responses')
             /\ NoneDeleted' => NoneDeleted
             /\ \A a : Delivered(a) => Delivered(a)'
             /\ \A a : Delivered(a)' => Delivered(a) \/ a \in m.answers
  <2>0. m \in Messages
    BY FlightsTyped
  <2>1. CASE m.response = 0
    <3>1. /\ Len(responses') = Len(responses) + 1
          /\ DOMAIN responses' = 1..(Len(responses) + 1)
          /\ \A r \in DOMAIN responses : responses'[r] = responses[r]
          /\ responses'[Len(responses) + 1].answers = m.answers
      BY <1>0, <1>2, <2>0, <2>1, StoredRows
    <3>2. \A r \in DOMAIN responses : r \in DOMAIN responses'
      BY <1>0, <3>1
    <3>3. \A r \in DOMAIN responses' : r \in DOMAIN responses \/ r = Len(responses) + 1
      BY <1>0, <3>1
    <3>4. NoneDeleted' => NoneDeleted
      BY <3>1, <3>2 DEF NoneDeleted
    <3>5. \A a : Delivered(a) => Delivered(a)'
      BY <3>1, <3>2 DEF Delivered
    <3>6. \A a : Delivered(a)' => Delivered(a) \/ a \in m.answers
      BY <3>1, <3>3 DEF Delivered
    <3> QED BY <1>0, <3>1, <3>4, <3>5, <3>6
  <2>2. CASE m.response # 0
    <3>1. /\ Len(responses') = Len(responses)
          /\ DOMAIN responses' = DOMAIN responses
          /\ \A r \in DOMAIN responses :
                /\ responses'[r].live = responses[r].live
                /\ responses'[r].answers = IF r = m.response THEN responses[r].answers \cup m.answers
                                           ELSE responses[r].answers
      BY <1>0, <1>2, <2>0, <2>2, StoredRows
    <3>2. NoneDeleted' => NoneDeleted
      BY <3>1 DEF NoneDeleted
    <3>3. \A a : Delivered(a) => Delivered(a)'
      BY <3>1 DEF Delivered
    <3>4. \A a : Delivered(a)' => Delivered(a) \/ a \in m.answers
      BY <3>1 DEF Delivered
    <3> QED BY <1>0, <3>1, <3>2, <3>3, <3>4
  <2> QED BY <2>1, <2>2
<1>3. ASSUME NEW r \in DOMAIN responses, DeleteResponse(r)
      PROVE  /\ Len(responses') = Len(responses)
             /\ NoneDeleted' => NoneDeleted
             /\ \A a : Delivered(a) <=> Delivered(a)'
  <2>1. responses' = [responses EXCEPT ![r].live = FALSE]
    BY <1>3 DEF DeleteResponse
  <2>2. DOMAIN responses' = DOMAIN responses
    BY <2>1
  <2>3. Len(responses') = Len(responses)
    <3>1. Len(responses') \in Nat /\ DOMAIN responses' = 1..Len(responses')
      BY ApiTyped, LenProperties DEF ApiT, ApiTypeOK
    <3> QED BY <1>0, <2>2, <3>1
  <2>4. \A s \in DOMAIN responses : responses'[s].answers = responses[s].answers
    BY <1>0, <2>1 DEF Rows
  <2>5. ~NoneDeleted'
    <3>1. responses'[r].live = FALSE
      BY <1>0, <2>1 DEF Rows
    <3> QED BY <2>2, <3>1 DEF NoneDeleted
  <2> QED BY <2>2, <2>3, <2>4, <2>5 DEF Delivered
<1> QED
  <2>1. CASE \E m \in InFlight \cup stray : Acceptable(m) /\ responses' = Stored(m)
    BY <1>0, <1>2, <2>1
  <2>2. CASE \E r \in DOMAIN responses : DeleteResponse(r)
    BY <1>0, <1>3, <2>2
  <2> QED BY <1>0, <1>1, <2>1, <2>2, Serves DEF ServedBy

(***************************************************************************)
(* The response ids that the client holds.                                   *)
(***************************************************************************)

(* The response ids that the client holds anywhere are ids of rows.          *)
PatchesKnown(d, n) == \A i \in DOMAIN d : d[i].op = "patchResponse" => d[i].n <= n

(* Every id the client holds or has under way is that of a row.              *)
IdsKnown ==
    /\ surveyState.responseId <= Len(responses)
    /\ progress.responseId <= Len(responses)
    /\ \A a \in Answers : snapshot[a].responseId <= Len(responses)
    /\ req.msg.response <= Len(responses)
    /\ syn.msg.response <= Len(responses)
    /\ \A m \in stray : m.response <= Len(responses)
    /\ PatchesKnown(idb, Len(responses))

LEMMA GrownPatches ==
    ASSUME NEW d \in Seq(Request), NEW e, NEW ops, Grown(d, e, ops), "patchResponse" \notin ops,
           NEW n, PatchesKnown(d, n)
    PROVE  PatchesKnown(e, n)
<1>1. /\ Len(d) \in Nat /\ DOMAIN d = 1..Len(d)
      /\ Len(e) \in Nat /\ DOMAIN e = 1..Len(e)
  BY LenProperties DEF Grown
<1>2. \A i \in DOMAIN e : e[i].op = "patchResponse" => i \in DOMAIN d /\ d[i] = e[i]
  BY <1>1 DEF Grown
<1> QED BY <1>2 DEF PatchesKnown

LEMMA TailPatches ==
    ASSUME NEW d \in Seq(Request), d # <<>>, NEW n, PatchesKnown(d, n)
    PROVE  PatchesKnown(Tail(d), n)
<1>1. \A i \in DOMAIN Tail(d) : i + 1 \in DOMAIN d /\ Tail(d)[i] = d[i + 1]
  BY Tailed
<1> QED BY <1>1 DEF PatchesKnown

LEMMA AppendPatches ==
    ASSUME NEW d \in Seq(Request), NEW n \in Nat, PatchesKnown(d, n)
    PROVE  PatchesKnown(Append(d, DbRequest("patchResponse", n)), n)
<1> DEFINE r == DbRequest("patchResponse", n)
           e == Append(d, r)
<1>1. r \in Request /\ r.n = n
  BY RequestTyped DEF DbOps
<1> HIDE DEF r
<1>2. /\ DOMAIN d = 1..Len(d) /\ Len(d) \in Nat
      /\ DOMAIN e = 1..(Len(d) + 1)
      /\ \A i \in DOMAIN d : e[i] = d[i]
      /\ e[Len(d) + 1] = r
  BY <1>1, Appended
<1> HIDE DEF e
<1>3. ASSUME NEW i \in DOMAIN e, e[i].op = "patchResponse" PROVE e[i].n <= n
  <2>1. CASE i \in DOMAIN d
    BY <1>2, <1>3, <2>1 DEF PatchesKnown
  <2>2. CASE i \notin DOMAIN d
    <3>1. i = Len(d) + 1
      BY <1>2, <2>2
    <3> QED BY <1>1, <1>2, <3>1
  <2> QED BY <2>1, <2>2
<1> QED BY <1>3 DEF PatchesKnown, e, r

LEMMA MorePatches ==
    ASSUME NEW d \in Seq(Request), NEW n \in Nat, NEW k \in Nat, n <= k, PatchesKnown(d, n)
    PROVE  PatchesKnown(d, k)
<1>1. \A i \in DOMAIN d : d[i] \in Request
  BY LenProperties, ElementOfSeq
<1>2. \A i \in DOMAIN d : d[i].n \in Nat
  BY <1>1 DEF Request
<1> QED BY <1>2 DEF PatchesKnown

(* Only a create that the client knows of requests such a patch.             *)
LEMMA PatchedBy ==
    ASSUME TypeInv, Next, PatchesKnown(idb, Len(responses))
    PROVE  PatchesKnown(idb', Len(responses'))
<1> DEFINE n == Len(responses')
<1>0. /\ idb \in Seq(Request) /\ PageIdb /\ QueueIdb /\ SyncIdb /\ n \in Nat
      /\ PatchesKnown(idb, n)
  <2>1. Len(responses) \in Nat /\ n \in Nat /\ Len(responses) <= n /\ idb \in Seq(Request)
    BY RowsStep DEF TypeInv, IdbT
  <2> QED BY <2>1, MorePatches, PageIdbHolds, QueueIdbHolds, SyncIdbHolds
<1>1. ASSUME NEW ops, Grown(idb, idb', ops), "patchResponse" \notin ops PROVE PatchesKnown(idb', n)
  BY <1>0, <1>1, GrownPatches
<1>2. ASSUME NEW ops, Grown(Tail(idb), idb', ops), "patchResponse" \notin ops, idb # <<>> PROVE PatchesKnown(idb', n)
  <2>1. Tail(idb) \in Seq(Request) /\ PatchesKnown(Tail(idb), n)
    BY <1>0, <1>2, Tailed, TailPatches
  <2> QED BY <1>2, <2>1, GrownPatches
<1>3. CASE Answer
  <2>1. "add" \in DbOps /\ asked + 1 \in Nat /\ idb' = Append(idb, DbRequest("add", asked + 1))
    BY <1>3 DEF Answer, DbOps, TypeInv, PageT
  <2>2. Grown(idb, idb', {"add"})
    BY <1>0, <2>1, AppendGrown
  <2> QED BY <1>1, <2>2
<1>4. CASE CreateDisplay \/ Retry \/ GoOnline \/ GoOffline \/ StrayArrives \/ OwnerDeletes
  BY <1>0, <1>1, <1>4 DEF PageIdb
<1>5. CASE Reload
  BY <1>0, <1>5 DEF PageIdb, PatchesKnown
<1>6. ASSUME NEW op, Oldest(op) PROVE idb # <<>>
  BY <1>6 DEF Oldest
<1>7. CASE Added \/ Patched \/ Cleared \/ CountFails \/ Counted \/ SentRemoved \/ DroppedRemoved
  <2>1. idb # <<>>
    BY <1>6, <1>7 DEF Added, Patched, Cleared, CountFails, Counted, Counting, SentRemoved, DroppedRemoved
  <2> QED BY <1>0, <1>2, <1>7, <2>1 DEF QueueIdb
<1>8. CASE EffectCounted \/ SyncRead \/ SyncedRemoved
  <2>1. idb # <<>>
    BY <1>6, <1>8 DEF EffectCounted, SyncRead, SyncedRemoved
  <2> QED BY <1>0, <1>2, <1>8, <2>1 DEF SyncIdb
<1>9. CASE SendRefused \/ SendSuspected \/ SendFails \/ Resend
  BY <1>0, <1>1, <1>9 DEF QueueIdb
<1>10. CASE SyncRefused \/ SyncNotFound \/ SyncFails
  BY <1>0, <1>1, <1>10 DEF SyncIdb
<1>11. ASSUME NEW m PROVE PatchAfter(m, idb) \in Seq(Request) /\ PatchesKnown(PatchAfter(m, idb), n)
  <2>1. Grown(idb, PatchAfter(m, idb), {"patchResponse"})
    BY <1>0, GrownNot, PatchGrown DEF n
  <2>2. PatchesKnown(PatchAfter(m, idb), n)
    BY <1>0, AppendPatches DEF PatchAfter, n
  <2> QED BY <2>1, <2>2 DEF Grown
<1>12. CASE SendOk
  <2> DEFINE d == PatchAfter(req.msg, idb)
  <2>1. d \in Seq(Request) /\ PatchesKnown(d, n)
    BY <1>11
  <2>2. Grown(d, idb', {"sent", "count"})
    <3>1. "sent" \in DbOps /\ Grown(d, d, {"sent", "count"})
      BY <2>1, GrownNot DEF DbOps
    <3>2. Grown(d, Append(d, DbRequest("sent", 0)), {"sent", "count"})
      BY <2>1, <3>1, OneGrown
    <3>3. \A q, r, s : Grown(d, ProcessQueue(d, "count", q, r, s), {"sent", "count"})
      BY <2>1, <3>1, ProcessGrown
    <3> QED BY <1>12, <3>2, <3>3 DEF SendOk, Succeeded
  <2> QED BY <2>1, <2>2, GrownPatches
<1>13. CASE SyncOk
  <2> DEFINE d == PatchAfter(syn.msg, idb)
  <2>1. d \in Seq(Request) /\ PatchesKnown(d, n)
    BY <1>11
  <2>2. Grown(d, idb', {"synced"})
    <3>1. "synced" \in DbOps
      BY DEF DbOps
    <3> QED BY <1>13, <2>1, <3>1, AppendGrown DEF SyncOk
  <2> QED BY <2>1, <2>2, GrownPatches
<1> QED BY <1>3, <1>4, <1>5, <1>7, <1>8, <1>9, <1>10, <1>12, <1>13 DEF Next, PageStep, QueueStep, SyncStep, n

(* The id that a sync goes on with comes from the page or from a snapshot.   *)
LEMMA StateForId ==
    ASSUME SavedT, NEW a \in Answers, NEW st \in State
    PROVE  /\ snapshot[a].responseId # 0 => StateFor(a, st).responseId = snapshot[a].responseId
           /\ snapshot[a].responseId = 0 => StateFor(a, st) = st
  BY DEF SavedT, Snapshots, StateFor, State

LEMMA MessageId == ASSUME NEW a, NEW st PROVE Message(a, st).response = st.responseId
  BY DEF Message

LEMMA KnownIds ==
    ASSUME TypeInv
    PROVE  /\ surveyState.responseId \in Nat /\ progress.responseId \in Nat
           /\ \A a \in Answers : snapshot[a].responseId \in Nat
           /\ req.msg.response \in Nat /\ syn.msg.response \in Nat
           /\ \A m \in stray : m.response \in Nat
  BY DEF TypeInv, StateT, State, SavedT, Snapshots, ReqT, SynT, StrayT, Messages

LEMMA StateKnown == ASSUME TypeInv, IdsKnown, Next PROVE surveyState'.responseId <= Len(responses')
<1> DEFINE n == Len(responses')
<1>0. /\ Len(responses) \in Nat /\ n \in Nat /\ Len(responses) <= n
      /\ surveyState \in State /\ surveyState.responseId <= n /\ progress.responseId <= n
      /\ \A a \in Answers : snapshot[a].responseId <= n
      /\ SavedT /\ SynT /\ MemoryT'
  BY RowsStep, KnownIds, MemoryTyped DEF TypeInv, StateT, IdsKnown
<1>1. CASE surveyState'.responseId \in {surveyState.responseId, n, 0}
  BY <1>0, <1>1 DEF n
<1>2. CASE CreateDisplay \/ SendOk \/ SyncOk \/ SyncNotFound
  <2>1. CASE CreateDisplay
    BY <1>0, <1>1, <2>1 DEF CreateDisplay, State
  <2>2. ASSUME NEW m, surveyState' = Learn(m) PROVE surveyState'.responseId \in {surveyState.responseId, n, 0}
    BY <1>0, <2>2 DEF Learn, State, n
  <2>3. CASE SyncNotFound
    BY <1>0, <1>1, <2>3 DEF SyncNotFound, State
  <2> QED BY <1>1, <1>2, <2>1, <2>2, <2>3 DEF SendOk, SyncOk
<1>3. ASSUME NEW todo \in SUBSET Answers, NEW done, NEW d, SyncNext(todo, done, d)
      PROVE  surveyState'.responseId <= n
  <2>1. CASE todo = {}
    BY <1>0, <1>3, <2>1 DEF SyncNext
  <2>2. CASE todo # {}
    <3> DEFINE a == Earliest(todo)
    <3>1. a \in Answers
      BY <2>2, EarliestOf
    <3>2. surveyState' = StateFor(a, surveyState)
      BY <1>3, <2>2 DEF SyncNext
    <3> HIDE DEF a
    <3> QED BY <1>0, <3>1, <3>2, StateForId
  <2> QED BY <2>1, <2>2
<1>4. CASE SyncRead
  <2>1. UNCHANGED surveyState \/ SyncNext(db' \ pendingRemoval', {}, Tail(idb))
    BY <1>4 DEF SyncRead
  <2>2. db' \ pendingRemoval' \in SUBSET Answers
    BY <1>0 DEF MemoryT
  <2> QED BY <1>0, <1>3, <2>1, <2>2
<1>5. CASE SyncedRemoved
  <2>1. syn.todo \in SUBSET Answers
    BY <1>0 DEF SynT
  <2>2. UNCHANGED surveyState \/ \E done : SyncNext(syn.todo, done, Tail(idb))
    BY <1>5 DEF SyncedRemoved
  <2> QED BY <1>0, <1>3, <2>1, <2>2
<1>6. CASE Reload
  <2>1. PICK expired \in {FALSE, StaleReloads} : StartOver(expired) \/ (Unfinished(expired) /\ Restore)
    BY <1>6 DEF Reload
  <2>2. CASE StartOver(expired)
    BY <1>0, <2>2 DEF StartOver, FreshState, n
  <2>3. CASE Restore /\ db = {} /\ progress.responseId = 0
    <3>1. Lookup
      BY <2>3 DEF Restore
    <3>2. \/ surveyState'.responseId = 0
          \/ \E r \in DOMAIN responses : surveyState'.responseId = r
      <4> DEFINE b == [responseId |-> 0, displayId |-> progress.displayId, bootstrap |-> TRUE]
      <4>1. \/ surveyState' = b
            \/ surveyState' = [b EXCEPT !.displayId = 0]
            \/ \E r \in DOMAIN responses : surveyState' = [b EXCEPT !.responseId = r, !.bootstrap = FALSE]
        BY <3>1 DEF Lookup
      <4>2. /\ b.responseId = 0
            /\ [b EXCEPT !.displayId = 0].responseId = 0
            /\ \A r : [b EXCEPT !.responseId = r, !.bootstrap = FALSE].responseId = r
        OBVIOUS
      <4> HIDE DEF b
      <4> QED BY <4>1, <4>2
    <3>3. DOMAIN responses = 1..Len(responses)
      BY RowsTyped DEF TypeInv, ApiT
    <3> QED BY <1>0, <3>2, <3>3 DEF n
  <2>4. CASE Restore /\ ~(db = {} /\ progress.responseId = 0)
    <3>1. surveyState'.responseId = progress.responseId
      BY <2>4 DEF Restore
    <3> QED BY <1>0, <3>1 DEF n
  <2> QED BY <2>1, <2>2, <2>3, <2>4
<1> QED BY <1>0, <1>2, <1>3, <1>4, <1>5, <1>6, StateBy DEF n

LEMMA ProgressKnown == ASSUME TypeInv, IdsKnown, Next PROVE progress'.responseId <= Len(responses')
<1> DEFINE n == Len(responses')
<1>0. /\ Len(responses) \in Nat /\ n \in Nat /\ Len(responses) <= n
      /\ progress.responseId <= n
      /\ \A a \in Answers : snapshot[a].responseId <= n
      /\ progress \in [saved : BOOLEAN, upto : 0..NumAnswers, responseId : Nat, displayId : Nat]
      /\ idb \in Seq(Request)
  BY RowsStep, KnownIds DEF TypeInv, IdsKnown, SavedT, IdbT
<1>1. CASE UNCHANGED progress
  BY <1>0, <1>1 DEF n
<1>2. CASE Added
  BY <1>0, <1>2, AddedAnswer DEF Added, n
<1>3. CASE Patched
  <2>1. Head(idb).op = "patchResponse" => Head(idb).n <= n
    <3>1. idb # <<>>
      BY <1>3 DEF Patched, Oldest
    <3>2. Head(idb) = idb[1] /\ 1 \in DOMAIN idb /\ Head(idb) \in Request
      BY <1>0, <3>1, Tailed
    <3>3. Head(idb).op = "patchResponse" => Head(idb).n <= Len(responses)
      BY <3>2 DEF IdsKnown, PatchesKnown
    <3> QED BY <1>0, <3>2, <3>3 DEF Request
  <2>2. \/ progress' = progress
        \/ Head(idb).op = "patchResponse" /\ progress' = [progress EXCEPT !.responseId = Head(idb).n]
        \/ progress' = [progress EXCEPT !.displayId = Head(idb).n]
    BY <1>3 DEF Patched
  <2> QED BY <1>0, <2>1, <2>2 DEF n
<1>4. CASE Cleared
  BY <1>0, <1>4 DEF Cleared, NoProgress, n
<1>5. CASE Reload
  <2>1. PICK expired \in {FALSE, StaleReloads} : StartOver(expired) \/ (Unfinished(expired) /\ Restore)
    BY <1>5 DEF Reload
  <2>2. CASE StartOver(expired)
    BY <1>0, <2>2 DEF StartOver, NoProgress, n
  <2>3. CASE Restore /\ db = {} /\ progress.responseId = 0
    <3>1. Lookup
      BY <2>3 DEF Restore
    <3>2. \/ progress' = progress
          \/ \E r \in DOMAIN responses : progress' = [progress EXCEPT !.responseId = r]
          \/ progress' = [progress EXCEPT !.displayId = 0]
      BY <3>1 DEF Lookup
    <3>3. DOMAIN responses = 1..Len(responses)
      BY RowsTyped DEF TypeInv, ApiT
    <3>4. CASE \E r \in DOMAIN responses : progress' = [progress EXCEPT !.responseId = r]
      <4>1. PICK r \in DOMAIN responses : progress' = [progress EXCEPT !.responseId = r]
        BY <3>4
      <4>2. progress'.responseId = r
        BY <1>0, <4>1
      <4> QED BY <1>0, <3>3, <4>2 DEF n
    <3>5. CASE progress' = [progress EXCEPT !.displayId = 0]
      <4>1. progress'.responseId = progress.responseId
        BY <1>0, <3>5
      <4> QED BY <1>0, <4>1 DEF n
    <3> QED BY <1>1, <3>2, <3>4, <3>5
  <2>4. CASE Restore /\ ~(db = {} /\ progress.responseId = 0)
    BY <1>1, <2>4 DEF Restore
  <2> QED BY <2>1, <2>2, <2>3, <2>4
<1>6. CASE Answer
  BY <1>1, <1>6 DEF Answer
<1> QED BY <1>1, <1>2, <1>3, <1>4, <1>5, <1>6, SavedBy

(***************************************************************************)
(* How the two senders move from state to state.                             *)
(***************************************************************************)

(* What happens to the call of processQueue.                                 *)
Sends(a, st) == req'.pc = "flight" /\ req'.answer = a /\ req'.msg = Message(a, st)
(* A request is answered.                                                    *)
Leaves(p) == req.pc = "flight" /\ req'.pc = p /\ req'.answer = req.answer /\ req'.msg = NoMessage

(* The moves of the call of processQueue.                                    *)
ReqMoves ==
    \/ UNCHANGED req
    \/ req' = IdleReq
    \/ SendOk /\ Leaves("sent")
    \/ SendRefused /\ Leaves("dropped")
    \/ SendFails /\ Leaves("backoff")
    \/ Counted /\ queue # <<>> /\ ~isSyncing /\ ~isRequestInProgress /\ Sends(Head(queue), surveyState)
       /\ ~(Cardinality(db') > Cardinality(pendingRemoval') + 1)
    \/ Resend /\ req.pc = "backoff" /\ Sends(req.answer, surveyState)

(* Every step makes one of the moves.                                        *)
LEMMA ReqMoved == ASSUME TypeInv, Next PROVE ReqMoves
<1>q. req \in [pc : {"idle", "flight", "backoff", "sent", "dropped"}, answer : 0..NumAnswers,
               attempt : 0..(RetryAttempts - 1), manual : BOOLEAN, msg : Messages]
  BY DEF TypeInv, ReqT
<1>1. CASE UNCHANGED req \/ req' = IdleReq
  BY <1>1 DEF ReqMoves
<1>2. ASSUME NEW p, req.pc = "flight", req' = [req EXCEPT !.pc = p, !.msg = NoMessage] PROVE Leaves(p)
  BY <1>q, <1>2 DEF Leaves
<1>3. CASE Reload
  BY <1>1, <1>3 DEF Reload
<1>4. CASE SendOk
  BY <1>1, <1>2, <1>4, Zenon DEF SendOk, Succeeded, ReqMoves
<1>5. CASE SendRefused
  BY <1>1, <1>2, <1>5, Zenon DEF SendRefused, Failed, ReqMoves
<1>6. CASE SendFails
  BY <1>2, <1>6, Zenon DEF SendFails, ReqMoves
<1>7. CASE SendSuspected \/ SentRemoved \/ DroppedRemoved
  BY <1>1, <1>7 DEF SendSuspected, SentRemoved, DroppedRemoved, Succeeded, Failed
<1>8. CASE Counted
  <2>1. \/ UNCHANGED req
        \/ /\ queue # <<>> /\ ~isSyncing /\ ~isRequestInProgress
           /\ ~(Cardinality(db') > Cardinality(pendingRemoval') + 1)
           /\ req' = [pc |-> "flight", answer |-> Head(queue), attempt |-> 0,
                      manual |-> Head(idb).op = "retry", msg |-> Message(Head(queue), surveyState)]
    BY <1>8, Zenon DEF Counted
  <2>2. ASSUME req' = [pc |-> "flight", answer |-> Head(queue), attempt |-> 0,
                     manual |-> Head(idb).op = "retry", msg |-> Message(Head(queue), surveyState)]
         PROVE Sends(Head(queue), surveyState)
    <3>1. req'.pc = "flight"
      BY <2>2
    <3>2. req'.answer = Head(queue)
      BY <2>2
    <3>3. req'.msg = Message(Head(queue), surveyState)
      BY <2>2
    <3> QED BY <3>1, <3>2, <3>3 DEF Sends
  <2> QED BY <1>1, <1>8, <2>1, <2>2, Zenon DEF ReqMoves
<1>9. CASE Resend
  <2>1. CASE req.attempt + 1 < RetryAttempts
    <3>1. req' = [req EXCEPT !.pc = "flight", !.attempt = @ + 1, !.msg = Message(req.answer, surveyState)]
          /\ req.pc = "backoff"
      BY <1>9, <2>1 DEF Resend
    <3>2. Sends(req.answer, surveyState)
      BY <1>q, <3>1 DEF Sends
    <3> QED BY <1>9, <3>1, <3>2 DEF ReqMoves
  <2>2. CASE ~(req.attempt + 1 < RetryAttempts)
    BY <1>1, <1>9, <2>2 DEF Resend, Failed
  <2> QED BY <2>1, <2>2
<1> QED BY <1>1, <1>3, <1>4, <1>5, <1>6, <1>7, <1>8, <1>9, ReqBy

(* What happens to the call of syncPersistedResponses.                       *)
GoesOn(todo, done) ==
    /\ todo # {} /\ todo \subseteq Answers
    /\ Earliest(todo) \in todo /\ \A b \in todo : Earliest(todo) <= b
    /\ surveyState' = StateFor(Earliest(todo), surveyState)
    /\ syn'.pc = "flight" /\ syn'.todo = todo \ {Earliest(todo)} /\ syn'.done = done
    /\ syn'.answer = Earliest(todo) /\ syn'.msg = Message(Earliest(todo), surveyState')
    /\ UNCHANGED queue

(* syncPersistedResponses goes on with its earliest answer.                  *)
LEMMA NextGoesOn ==
    ASSUME TypeInv, NEW todo \in SUBSET Answers, NEW done, NEW d, SyncNext(todo, done, d)
    PROVE  (todo = {} /\ EndSync(done)) \/ GoesOn(todo, done)
<1>y. syn \in [pc : {"idle", "reading", "flight", "removing"}, todo : SUBSET Answers,
               done : SUBSET Answers, answer : 0..NumAnswers, byEffect : BOOLEAN, msg : Messages]
  BY DEF TypeInv, SynT
<1>1. CASE todo = {}
  BY <1>1 DEF SyncNext
<1>2. CASE todo # {}
  <2> DEFINE a == Earliest(todo)
  <2>1. a \in todo /\ \A b \in todo : a <= b
    BY <1>2, EarliestOf
  <2>2. /\ surveyState' = StateFor(a, surveyState) /\ UNCHANGED queue
        /\ syn' = [syn EXCEPT !.pc = "flight", !.todo = todo \ {a}, !.done = done,
                              !.answer = a, !.msg = Message(a, surveyState')]
    BY <1>2 DEF SyncNext
  <2> HIDE DEF a
  <2>3. syn'.pc = "flight" /\ syn'.todo = todo \ {a} /\ syn'.done = done
        /\ syn'.answer = a /\ syn'.msg = Message(a, surveyState')
    BY <1>y, <2>2
  <2> QED BY <1>2, <2>1, <2>2, <2>3 DEF GoesOn, a
<1> QED BY <1>1, <1>2

(* The moves of the call of syncPersistedResponses.                          *)
SynMoves ==
    \/ UNCHANGED syn
    \/ syn' = IdleSyn
    \/ /\ Counted \/ EffectCounted
       /\ ~isSyncing /\ ~isRequestInProgress
       /\ syn'.pc = "reading" /\ syn'.todo = {} /\ syn'.done = {} /\ syn'.msg = NoMessage
       /\ UNCHANGED req
    \/ SyncRead /\ syn.pc = "reading" /\ CleanUp /\ GoesOn(db' \ pendingRemoval', {})
    \/ SyncedRemoved /\ syn.pc = "removing" /\ GoesOn(syn.todo, syn.done \cup {syn.answer})
       /\ syn.answer \notin pendingRemoval'
    \/ /\ SyncOk \/ SyncRefused
       /\ syn.pc = "flight" /\ syn'.pc = "removing" /\ syn'.answer = syn.answer
       /\ syn'.todo = syn.todo /\ syn'.done = syn.done /\ syn'.msg = NoMessage
    \/ /\ SyncNotFound
       /\ syn.pc = "flight" /\ syn'.pc = "flight" /\ syn'.answer = syn.answer
       /\ syn'.todo = syn.todo /\ syn'.done = syn.done /\ syn'.msg = Message(syn.answer, surveyState')

(* Every step makes one of the moves.                                        *)
LEMMA SynMoved == ASSUME TypeInv, Next PROVE SynMoves
<1>y. syn \in [pc : {"idle", "reading", "flight", "removing"}, todo : SUBSET Answers,
               done : SUBSET Answers, answer : 0..NumAnswers, byEffect : BOOLEAN, msg : Messages]
      /\ MemoryT'
  BY MemoryTyped DEF TypeInv, SynT
<1>1. CASE UNCHANGED syn \/ syn' = IdleSyn
  BY <1>1 DEF SynMoves
<1>2. ASSUME NEW d, NEW e, StartSync(d, e)
      PROVE  syn'.pc = "reading" /\ syn'.todo = {} /\ syn'.done = {} /\ syn'.msg = NoMessage
  BY <1>2 DEF StartSync, IdleSyn
<1>3. ASSUME NEW todo \in SUBSET Answers, NEW done, NEW d, SyncNext(todo, done, d)
      PROVE  syn' = IdleSyn \/ GoesOn(todo, done)
  BY <1>3, NextGoesOn DEF EndSync
<1>4. CASE Reload
  BY <1>1, <1>4 DEF Reload
<1>5. CASE Counted
  <2>1. \/ UNCHANGED syn
        \/ StartSync(Tail(idb), FALSE) /\ ~isSyncing /\ ~isRequestInProgress /\ UNCHANGED req
    BY <1>5, Zenon DEF Counted
  <2> QED BY <1>1, <1>2, <1>5, <2>1 DEF SynMoves
<1>6. CASE EffectCounted
  <2>1. \/ UNCHANGED syn
        \/ StartSync(Tail(idb), TRUE) /\ ~isSyncing /\ ~isRequestInProgress /\ UNCHANGED req
    BY <1>6, Zenon DEF EffectCounted
  <2> QED BY <1>1, <1>2, <1>6, <2>1 DEF SynMoves
<1>7. CASE SyncRead
  <2>1. db' \ pendingRemoval' \in SUBSET Answers
    BY <1>y DEF MemoryT
  <2>2. \/ syn' = IdleSyn
        \/ CleanUp /\ SyncNext(db' \ pendingRemoval', {}, Tail(idb))
    BY <1>7 DEF SyncRead, EndSync
  <2>3. syn.pc = "reading"
    BY <1>7 DEF SyncRead
  <2> QED BY <1>1, <1>3, <1>7, <2>1, <2>2, <2>3 DEF SynMoves
<1>8. CASE SyncedRemoved
  <2>1. syn.todo \in SUBSET Answers
    BY <1>y
  <2>2. \/ syn' = IdleSyn
        \/ syn.answer \notin pendingRemoval' /\ SyncNext(syn.todo, syn.done \cup {syn.answer}, Tail(idb))
    BY <1>8 DEF SyncedRemoved, EndSync
  <2>3. syn.pc = "removing"
    BY <1>8 DEF SyncedRemoved
  <2> QED BY <1>1, <1>3, <1>8, <2>1, <2>2, <2>3 DEF SynMoves
<1>9. CASE SyncOk \/ SyncRefused
  <2>1. syn.pc = "flight" /\ syn' = [syn EXCEPT !.pc = "removing", !.msg = NoMessage]
    BY <1>9 DEF SyncOk, SyncRefused
  <2>2. syn'.pc = "removing" /\ syn'.answer = syn.answer /\ syn'.todo = syn.todo /\ syn'.done = syn.done
        /\ syn'.msg = NoMessage
    BY <1>y, <2>1
  <2> QED BY <1>9, <2>1, <2>2 DEF SynMoves
<1>10. CASE SyncNotFound
  <2>1. syn.pc = "flight" /\ syn' = [syn EXCEPT !.msg = Message(syn.answer, surveyState')]
    BY <1>10 DEF SyncNotFound
  <2>2. syn'.pc = "flight" /\ syn'.answer = syn.answer /\ syn'.todo = syn.todo /\ syn'.done = syn.done
        /\ syn'.msg = Message(syn.answer, surveyState')
    BY <1>y, <2>1
  <2> QED BY <1>10, <2>1, <2>2 DEF SynMoves
<1>11. CASE SyncFails
  BY <1>1, <1>11 DEF SyncFails, EndSync
<1> QED BY <1>1, <1>4, <1>5, <1>6, <1>7, <1>8, <1>9, <1>10, <1>11, SynBy

(* Rows are only added: an id that was known stays known.                    *)
LEMMA IdsStep == ASSUME TypeInv, IdsKnown, Next PROVE IdsKnown'
<1>0. /\ Len(responses) \in Nat /\ Len(responses') \in Nat /\ Len(responses) <= Len(responses')
      /\ surveyState.responseId \in Nat /\ req.msg.response \in Nat /\ syn.msg.response \in Nat
      /\ surveyState'.responseId <= Len(responses')
      /\ NoMessage.response = 0
  BY RowsStep, KnownIds, StateKnown DEF NoMessage
<1>1. progress'.responseId <= Len(responses') /\ PatchesKnown(idb', Len(responses'))
  BY ProgressKnown, PatchedBy DEF IdsKnown
<1>2. \A a \in Answers : snapshot'[a].responseId <= Len(responses')
  <2>1. \A a \in Answers : snapshot[a].responseId <= Len(responses')
    BY <1>0, KnownIds DEF IdsKnown
  <2>2. CASE UNCHANGED snapshot
    BY <2>1, <2>2
  <2>3. CASE Answer
    <3>1. snapshot' = [snapshot EXCEPT ![asked + 1] = [responseId |-> surveyState.responseId,
                                                       displayId |-> surveyState.displayId]]
      BY <2>3 DEF Answer
    <3>2. surveyState.responseId <= Len(responses') /\ snapshot \in Snapshots
      BY <1>0 DEF IdsKnown, TypeInv, SavedT
    <3> QED BY <2>1, <3>1, <3>2 DEF Snapshots
  <2>4. CASE Reload \/ Added \/ Patched \/ Cleared
    BY <2>1, <2>4 DEF Reload, Added, Patched, Cleared
  <2> QED BY <2>2, <2>3, <2>4, SavedBy
<1>3. req'.msg.response <= Len(responses')
  <2>1. CASE UNCHANGED req
    BY <1>0, <2>1 DEF IdsKnown
  <2>2. CASE req' = IdleReq \/ req'.msg = NoMessage
    BY <1>0, <2>2 DEF IdleReq
  <2>3. ASSUME NEW a, req'.msg = Message(a, surveyState) PROVE req'.msg.response <= Len(responses')
    BY <1>0, <2>3, MessageId DEF IdsKnown
  <2> QED BY <2>1, <2>2, <2>3, ReqMoved DEF ReqMoves, Sends, Leaves
<1>4. syn'.msg.response <= Len(responses')
  <2>1. CASE UNCHANGED syn
    BY <1>0, <2>1 DEF IdsKnown
  <2>2. CASE syn' = IdleSyn \/ syn'.msg = NoMessage
    BY <1>0, <2>2 DEF IdleSyn
  <2>3. ASSUME NEW a, syn'.msg = Message(a, surveyState') PROVE syn'.msg.response <= Len(responses')
    BY <1>0, <2>3 DEF Message
  <2> QED BY <2>1, <2>2, <2>3, SynMoved DEF SynMoves, GoesOn
<1>5. \A m \in stray' : m.response <= Len(responses')
  <2>1. \A m \in stray \cup InFlight : m.response <= Len(responses')
    <3>1. \A m \in stray \cup InFlight : m.response \in Nat /\ m.response <= Len(responses)
      BY KnownIds DEF IdsKnown, InFlight
    <3> QED BY <1>0, <3>1
  <2>2. stray' \subseteq stray \cup InFlight
    BY StrayBy DEF Reload, StartOver, Restore, StrayArrives
  <2> QED BY <2>1, <2>2
<1> QED BY <1>0, <1>1, <1>2, <1>3, <1>4, <1>5 DEF IdsKnown

(* The client knows the response it created, and none was deleted.           *)
Calm == ~unheard /\ NoneDeleted

(* As long as the client knows the response and none was deleted, it names   *)
(* the one row there is, and 0 before there is one.                          *)
CalmInv == Calm =>
    /\ Len(responses) <= 1
    /\ surveyState.responseId = Len(responses)
    /\ req.pc = "flight" => req.msg.response = Len(responses)
    /\ syn.pc = "flight" => syn.msg.response = Len(responses)

(* A lost reply is never heard later.                                        *)
LEMMA UnheardBy == ASSUME TypeInv, Next PROVE unheard => unheard'
  BY ApiBy DEF apiVars, SendOk, SendRefused, SendSuspected, SendFails, SyncOk, SyncRefused, SyncNotFound, SyncFails,
      Accept, NotFound, Refuse, Suspect, Fail, Reload, StrayArrives, OwnerDeletes, DeleteResponse

(***************************************************************************)
(* One response.                                                             *)
(***************************************************************************)

LEMMA DeletedRow ==
    ASSUME ApiTypeOK, NEW r \in DOMAIN responses, DeleteResponse(r)
    PROVE  ~NoneDeleted'
<1>1. \A s \in DOMAIN responses : responses[s] \in Rows
  BY RowsTyped
<1>2. responses' = [responses EXCEPT ![r].live = FALSE]
  BY DEF DeleteResponse
<1>3. DOMAIN responses' = DOMAIN responses /\ responses'[r].live = FALSE
  BY <1>1, <1>2 DEF Rows
<1> QED BY <1>3 DEF NoneDeleted

(* A sender that succeeds has nothing in flight any more.                    *)
LEMMA SentOff == ASSUME CoreInv, SendOk PROVE req'.pc # "flight" /\ syn'.pc = "idle"
<1>q. req \in [pc : {"idle", "flight", "backoff", "sent", "dropped"}, answer : 0..NumAnswers,
               attempt : 0..(RetryAttempts - 1), manual : BOOLEAN, msg : Messages]
  BY DEF CoreInv, TypeInv, ReqT
<1>1. req' = [req EXCEPT !.pc = "sent", !.msg = NoMessage] \/ req' = IdleReq
  BY Zenon DEF SendOk, Succeeded
<1>2. req'.pc # "flight"
  <2>1. CASE req' = [req EXCEPT !.pc = "sent", !.msg = NoMessage]
    BY <1>q, <2>1
  <2>2. CASE req' = IdleReq
    BY <2>2 DEF IdleReq
  <2> QED BY <1>1, <2>1, <2>2
<1>3. syn'.pc = "idle"
  BY DEF SendOk, CoreInv, SenderInv
<1> QED BY <1>2, <1>3

LEMMA SyncedOff == ASSUME CoreInv, SyncOk PROVE req'.pc = "idle" /\ syn'.pc # "flight"
<1>y. syn \in [pc : {"idle", "reading", "flight", "removing"}, todo : SUBSET Answers,
               done : SUBSET Answers, answer : 0..NumAnswers, byEffect : BOOLEAN, msg : Messages]
  BY DEF CoreInv, TypeInv, SynT
<1>1. syn' = [syn EXCEPT !.pc = "removing", !.msg = NoMessage]
  BY DEF SyncOk
<1>2. syn'.pc # "flight"
  BY <1>y, <1>1
<1>3. req'.pc = "idle"
  BY DEF SyncOk, CoreInv, SenderInv
<1> QED BY <1>2, <1>3

(* As long as it stays calm, only a create whose reply arrives adds a row.   *)
LEMMA CalmServes ==
    ASSUME TypeInv, Next, Calm'
    PROVE  \/ Len(responses') = Len(responses)
           \/ SendOk /\ req.msg.response = 0 /\ Len(responses') = Len(responses) + 1
           \/ SyncOk /\ syn.msg.response = 0 /\ Len(responses') = Len(responses) + 1
<1>0. ApiTypeOK /\ req.msg \in Messages /\ syn.msg \in Messages /\ stray \subseteq Messages
  BY DEF TypeInv, ApiT, ReqT, SynT, StrayT
<1>1. CASE UNCHANGED responses
  BY <1>1
<1>2. ASSUME NEW m \in Messages, responses' = Stored(m)
      PROVE  /\ m.response # 0 => Len(responses') = Len(responses)
             /\ m.response = 0 => Len(responses') = Len(responses) + 1
  BY <1>0, <1>2, StoredRows
<1>3. ASSUME NEW m \in Messages, NEW up, Fail(m, up) PROVE Len(responses') = Len(responses)
  <2>1. \/ UNCHANGED responses
        \/ responses' = Stored(m) /\ m.response # 0
    BY <1>3 DEF Fail, Calm, apiVars
  <2> QED BY <1>2, <2>1
<1>4. CASE SendOk \/ SyncOk
  BY <1>0, <1>2, <1>4 DEF SendOk, SyncOk, Accept
<1>5. CASE SendRefused \/ SendSuspected \/ SyncRefused \/ SyncNotFound
  BY <1>1, <1>5 DEF SendRefused, SendSuspected, SyncRefused, SyncNotFound, Refuse, Suspect, NotFound, apiVars
<1>6. CASE SendFails \/ SyncFails
  BY <1>0, <1>1, <1>3, <1>6 DEF SendFails, SyncFails, NotFound, apiVars
<1>7. CASE Reload
  BY <1>1, <1>7 DEF Reload
<1>8. CASE StrayArrives
  <2>1. \/ UNCHANGED responses
        \/ \E m \in stray : responses' = Stored(m) /\ m.response # 0
    BY <1>8 DEF StrayArrives, Calm
  <2> QED BY <1>0, <1>2, <2>1
<1>9. CASE OwnerDeletes
  BY <1>0, <1>9, DeletedRow DEF OwnerDeletes, Calm
<1>10. CASE UNCHANGED apiVars
  BY <1>1, <1>10 DEF apiVars
<1> QED BY <1>4, <1>5, <1>6, <1>7, <1>8, <1>9, <1>10, ApiBy

(* Calm is never regained.                                                   *)
LEMMA CalmBack == ASSUME TypeInv, Next, Calm' PROVE Calm
  BY UnheardBy, RowsStep DEF Calm

LEMMA CalmState ==
    ASSUME CoreInv, IdsKnown, Calm, CalmInv, Next, Calm'
    PROVE  surveyState'.responseId = Len(responses')
<1>0. /\ TypeInv /\ surveyState \in State /\ SavedT /\ MemoryT' /\ Len(responses) \in Nat
      /\ Len(responses) <= 1 /\ surveyState.responseId = Len(responses)
      /\ \A a \in Answers : snapshot[a].responseId \in Nat /\ snapshot[a].responseId <= Len(responses)
  BY MemoryTyped, KnownIds, RowsTyped DEF CoreInv, TypeInv, StateT, CalmInv, ApiT, IdsKnown
<1>1. CASE UNCHANGED surveyState /\ Len(responses') = Len(responses)
  BY <1>0, <1>1
<1>2. CASE SendOk \/ SyncOk
  <2>1. PICK m : /\ surveyState' = Learn(m)
                 /\ m.response # 0 => Len(responses') = Len(responses)
    <3>1. CASE SendOk
      <4>1. ~SyncOk \/ syn.msg.response # 0 \/ req.msg.response = 0 \/ Len(responses') = Len(responses)
        BY <1>0, <3>1 DEF SendOk, SyncOk, CoreInv, SenderInv
      <4> QED BY <1>0, <3>1, CalmServes, <4>1 DEF SendOk, SyncOk, CoreInv, SenderInv
    <3>2. CASE SyncOk
      BY <1>0, <3>2, CalmServes DEF SendOk, SyncOk, CoreInv, SenderInv
    <3> QED BY <1>2, <3>1, <3>2
  <2>2. CASE m.response = 0
    BY <1>0, <2>1, <2>2 DEF Learn, State
  <2>3. CASE m.response # 0
    BY <1>0, <2>1, <2>3 DEF Learn
  <2> QED BY <2>2, <2>3
<1>3. CASE ~SendOk /\ ~SyncOk
  <2>0. Len(responses') = Len(responses)
    BY <1>0, <1>3, CalmServes
  <2>1. CASE CreateDisplay
    BY <1>0, <2>0, <2>1 DEF CreateDisplay, State
  <2>2. ASSUME NEW a \in Answers, surveyState' = StateFor(a, surveyState)
        PROVE  surveyState'.responseId = Len(responses')
    BY <1>0, <2>0, <2>2, StateForId
  <2>3. ASSUME NEW todo \in SUBSET Answers, NEW done, NEW d, SyncNext(todo, done, d)
        PROVE  surveyState'.responseId = Len(responses')
    <3>1. CASE todo = {}
      BY <1>1, <2>0, <2>3, <3>1 DEF SyncNext
    <3>2. CASE todo # {}
      BY <2>2, <2>3, <3>2, EarliestOf DEF SyncNext
    <3> QED BY <3>1, <3>2
  <2>4. CASE SyncRead
    <3>1. UNCHANGED surveyState \/ SyncNext(db' \ pendingRemoval', {}, Tail(idb))
      BY <2>4 DEF SyncRead
    <3>2. db' \ pendingRemoval' \in SUBSET Answers
      BY <1>0 DEF MemoryT
    <3> QED BY <1>1, <2>0, <2>3, <3>1, <3>2
  <2>5. CASE SyncedRemoved
    <3>1. UNCHANGED surveyState \/ \E done : SyncNext(syn.todo, done, Tail(idb))
      BY <2>5 DEF SyncedRemoved
    <3>2. syn.todo \in SUBSET Answers
      BY <1>0 DEF TypeInv, SynT
    <3> QED BY <1>1, <2>0, <2>3, <3>1, <3>2
  <2>6. CASE SyncNotFound
    <3>1. syn.pc = "flight" /\ syn.msg.response # 0 /\ ~responses[syn.msg.response].live
      BY <2>6 DEF SyncNotFound, NotFound, Gone
    <3>2. syn.msg.response \in DOMAIN responses
      <4>1. syn.msg.response \in Nat /\ syn.msg.response <= Len(responses)
        BY <1>0, KnownIds DEF IdsKnown
      <4>2. DOMAIN responses = 1..Len(responses)
        BY <1>0, RowsTyped DEF TypeInv, ApiT
      <4> QED BY <1>0, <3>1, <4>1, <4>2
    <3> QED BY <3>1, <3>2 DEF Calm, NoneDeleted
  <2>7. CASE Reload
    <3>1. ~over' /\ surveyState.responseId = progress.responseId
      BY <2>7 DEF Reload, Calm
    <3>2. Restore
      BY <2>7, <3>1 DEF Reload, StartOver
    <3>3. CASE db = {} /\ progress.responseId = 0
      <4>1. DOMAIN responses = {}
        <5>1. DOMAIN responses = 1..Len(responses)
          BY <1>0, RowsTyped DEF TypeInv, ApiT
        <5> QED BY <1>0, <3>1, <3>3, <5>1
      <4>2. Lookup
        BY <3>2, <3>3 DEF Restore
      <4>3. surveyState' = [responseId |-> 0, displayId |-> progress.displayId, bootstrap |-> TRUE]
        BY <4>1, <4>2 DEF Lookup
      <4> QED BY <1>0, <2>0, <3>1, <3>3, <4>3
    <3>4. CASE ~(db = {} /\ progress.responseId = 0)
      BY <1>0, <2>0, <3>1, <3>2, <3>4 DEF Restore
    <3> QED BY <3>3, <3>4
  <2> QED BY <1>1, <1>3, <2>0, <2>1, <2>4, <2>5, <2>6, <2>7, StateBy
<1> QED BY <1>2, <1>3

(* Every step keeps the client in agreement with the row there is.           *)
LEMMA CalmStep == ASSUME CoreInv, IdsKnown, CalmInv, Next PROVE CalmInv'
<1> SUFFICES ASSUME Calm'
             PROVE  /\ Len(responses') <= 1
                    /\ surveyState'.responseId = Len(responses')
                    /\ req'.pc = "flight" => req'.msg.response = Len(responses')
                    /\ syn'.pc = "flight" => syn'.msg.response = Len(responses')
  BY DEF CalmInv
<1>0. TypeInv /\ Calm /\ Len(responses) \in Nat
  BY CalmBack, RowsTyped DEF CoreInv, TypeInv, ApiT
<1>1. /\ Len(responses) <= 1
      /\ surveyState.responseId = Len(responses)
      /\ req.pc = "flight" => req.msg.response = Len(responses)
      /\ syn.pc = "flight" => syn.msg.response = Len(responses)
  BY <1>0 DEF CalmInv
<1>2. Len(responses') <= 1
  BY <1>0, <1>1, CalmServes DEF SendOk, SyncOk
<1>3. surveyState'.responseId = Len(responses')
  BY <1>0, CalmState
<1>4. Len(responses') = Len(responses) \/ (req'.pc # "flight" /\ syn'.pc # "flight")
  BY <1>0, CalmServes, SentOff, SyncedOff
<1>5. req'.pc = "flight" => req'.msg.response = Len(responses')
  <2>1. CASE UNCHANGED req
    BY <1>1, <1>4, <2>1
  <2>2. CASE req' = IdleReq
    BY <2>2 DEF IdleReq
  <2>3. ASSUME NEW a, req'.msg = Message(a, surveyState) PROVE req'.pc = "flight" => req'.msg.response = Len(responses')
    BY <1>1, <1>4, <2>3, MessageId
  <2>4. ASSUME NEW p \in {"sent", "dropped", "backoff"}, Leaves(p) PROVE req'.pc # "flight"
    BY <2>4 DEF Leaves
  <2> QED BY <1>0, <2>1, <2>2, <2>3, <2>4, ReqMoved DEF ReqMoves, Sends
<1>6. syn'.pc = "flight" => syn'.msg.response = Len(responses')
  <2>1. CASE UNCHANGED syn
    BY <1>1, <1>4, <2>1
  <2>2. CASE syn' = IdleSyn \/ syn'.pc \in {"reading", "removing"}
    BY <2>2 DEF IdleSyn
  <2>3. ASSUME NEW a, syn'.msg = Message(a, surveyState') PROVE syn'.msg.response = Len(responses')
    BY <1>3, <2>3 DEF Message
  <2> QED BY <1>0, <2>1, <2>2, <2>3, SynMoved DEF SynMoves, GoesOn
<1> QED BY <1>2, <1>3, <1>5, <1>6

(* What one response rests on.                                               *)
IdsInv == IdsKnown /\ CalmInv

(* The ids are known in every state, and one in calm states.                 *)
LEMMA IdsHold == Spec => []IdsInv
<1>1. Init => IdsInv
  <2> SUFFICES ASSUME Init PROVE IdsInv
    OBVIOUS
  <2>1. responses = <<>> /\ stray = {} /\ idb = <<>> /\ req = IdleReq /\ syn = IdleSyn /\ surveyState = FreshState
        /\ progress = NoProgress /\ snapshot = [a \in Answers |-> NoSnapshot]
    BY DEF Init, ApiInit
  <2>2. Len(responses) = 0
    BY <2>1
  <2> QED BY <2>1, <2>2 DEF IdsInv, IdsKnown, CalmInv, IdleReq, IdleSyn, NoMessage, FreshState, NoProgress,
                            NoSnapshot, PatchesKnown
<1>2. CoreInv /\ IdsInv /\ [Next]_vars => IdsInv'
  <2>1. ASSUME CoreInv, IdsInv, Next PROVE IdsInv'
    BY <2>1, IdsStep, CalmStep DEF IdsInv, CoreInv
  <2>2. ASSUME IdsInv, UNCHANGED vars PROVE IdsInv'
    BY <2>2 DEF IdsInv, IdsKnown, PatchesKnown, CalmInv, Calm, NoneDeleted, vars, apiVars, queueVars, storage
  <2> QED BY <2>1, <2>2
<1> QED BY <1>1, <1>2, CoreHolds, PTL DEF Spec

(* One pass through the survey creates one response, while the client knows  *)
(* it and none was deleted: snapshots that IndexedDB kept from before the    *)
(* create do not make the sync create another one.                           *)
THEOREM OneResponseHolds == Spec => []OneResponse
<1>1. IdsInv => OneResponse
  BY DEF IdsInv, CalmInv, Calm, OneResponse
<1> QED BY <1>1, IdsHold, PTL

(***************************************************************************)
(* Settled answers, and the progress that is saved.                          *)
(***************************************************************************)

(* An answer is settled when the server has it or has refused it; stored     *)
(* ones have been written.                                                   *)
Settled(a) == Delivered(a) \/ a \in refused
(* The write of answer a has ended.                                          *)
Written(a) == a \in 1..asked /\ ~Adding(idb, a)

(* Every answer before one of S is settled, or is in S itself.               *)
Behind(S) == \A c \in S : \A b \in 1..(c - 1) : Settled(b) \/ b \in S

(* The saved progress ends where the answers begin that are being written.   *)
ProgressInv == progress.saved => \A a \in 1..asked : Adding(idb, a) <=> a > progress.upto

(* A refused answer stays refused.                                           *)
LEMMA RefusedBy == ASSUME Next PROVE refused \subseteq refused'
<1>1. ASSUME NEW m, \/ Accept(m) \/ NotFound(m) \/ Refuse(m)
                    \/ \E dropped : Suspect(m, dropped)
                    \/ \E up : Fail(m, up)
      PROVE  refused \subseteq refused'
  BY <1>1 DEF Accept, NotFound, Refuse, Suspect, Fail, apiVars
<1>2. CASE SendOk \/ SendRefused \/ SendSuspected \/ SendFails
  BY <1>1, <1>2 DEF SendOk, SendRefused, SendSuspected, SendFails
<1>3. CASE SyncOk \/ SyncRefused \/ SyncNotFound \/ SyncFails
  BY <1>1, <1>3 DEF SyncOk, SyncRefused, SyncNotFound, SyncFails
<1>4. CASE Reload \/ StrayArrives \/ OwnerDeletes \/ UNCHANGED apiVars
  BY <1>4 DEF Reload, StrayArrives, OwnerDeletes, DeleteResponse, apiVars
<1> QED BY <1>2, <1>3, <1>4, ApiBy

(* What is settled stays settled.                                            *)
LEMMA SettledStays == ASSUME TypeInv, Next PROVE \A a : Settled(a) => Settled(a)'
  BY RowsStep, RefusedBy DEF Settled

(* How the answers that are being written change.                            *)
AddingMoves ==
    /\ Answer => /\ asked' = asked + 1
                 /\ \A a : Adding(idb', a) <=> Adding(idb, a) \/ a = asked + 1
    /\ Added => /\ UNCHANGED asked /\ Head(idb).n \in 1..asked /\ Adding(idb, Head(idb).n)
                /\ \A a : Adding(idb', a) <=> Adding(idb, a) /\ a # Head(idb).n
                /\ \A a : Adding(idb, a) => Head(idb).n <= a
    /\ Reload => \A a : ~Adding(idb', a)
    /\ Answer \/ Added \/ Reload \/ (UNCHANGED asked /\ \A a : Adding(idb', a) <=> Adding(idb, a))

(* Every step changes the writes under way in one of these ways.             *)
LEMMA AddingMoved == ASSUME TypeInv, Next PROVE AddingMoves
<1>0. idb \in Seq(Request) /\ AddsUpTo(idb, asked) /\ asked \in Nat
  BY DEF TypeInv, IdbT, PageT
<1>1. ASSUME Answer
      PROVE  asked' = asked + 1 /\ \A a : Adding(idb', a) <=> Adding(idb, a) \/ a = asked + 1
  <2>1. idb' = Append(idb, DbRequest("add", asked + 1)) /\ asked' = asked + 1
    BY <1>1 DEF Answer
  <2> QED BY <1>0, <2>1, NewAdds
<1>2. ASSUME Reload PROVE \A a : ~Adding(idb', a)
  <2>1. idb' \in Seq(Request) /\ \A i \in DOMAIN idb' : idb'[i].op = "effect"
    BY <1>2, PageIdbHolds DEF PageIdb
  <2> QED BY <2>1 DEF Adding, Elem, DbRequest
<1>3. ASSUME Grown(idb, idb', DbOps \ {"add"}) PROVE \A a : Adding(idb', a) <=> Adding(idb, a)
  BY <1>0, <1>3, GrownAdds
<1>4. ASSUME idb # <<>>, Grown(Tail(idb), idb', DbOps \ {"add"}), Head(idb).op # "add"
      PROVE  \A a : Adding(idb', a) <=> Adding(idb, a)
  BY <1>0, <1>4, GrownAdds, TailAdds
<1>5. ASSUME Added
      PROVE  /\ UNCHANGED asked /\ Head(idb).n \in 1..asked /\ Adding(idb, Head(idb).n)
             /\ \A a : Adding(idb', a) <=> Adding(idb, a) /\ a # Head(idb).n
             /\ \A a : Adding(idb, a) => Head(idb).n <= a
  <2>1. idb # <<>> /\ Head(idb).op = "add" /\ UNCHANGED asked
    BY <1>5 DEF Added, Oldest, page
  <2>2. Grown(Tail(idb), idb', {"count"})
    BY <1>5, QueueIdbHolds DEF QueueIdb
  <2>3. /\ Tail(idb) \in Seq(Request) /\ AddsUpTo(Tail(idb), asked)
        /\ Head(idb).n \in 1..asked
        /\ \A a : Adding(idb, a) => Head(idb).n <= a
        /\ \A a : Adding(Tail(idb), a) <=> Adding(idb, a) /\ a # Head(idb).n
        /\ Adding(idb, Head(idb).n)
    BY <1>0, <2>1, TailAdds
  <2>4. \A a : Adding(idb', a) <=> Adding(Tail(idb), a)
    BY <1>0, <2>2, <2>3, GrownAdds
  <2> QED BY <2>1, <2>3, <2>4
<1>6. Answer \/ Added \/ Reload \/ (UNCHANGED asked /\ \A a : Adding(idb', a) <=> Adding(idb, a))
  BY <1>3, <1>4, IdbBy
<1> QED BY <1>1, <1>2, <1>5, <1>6 DEF AddingMoves

(* A reload goes on with the answers that were written, and no others.       *)
LEMMA ReloadKeeps ==
    ASSUME TypeInv, ProgressInv, Reload
    PROVE  \A a : a \in 1..asked' <=> Written(a)
<1>0. /\ idb \in Seq(Request) /\ AddsUpTo(idb, asked) /\ asked \in Nat
      /\ progress.upto \in Nat /\ (progress.saved => progress.upto <= asked)
  BY NumAnswersAssumption DEF TypeInv, IdbT, PageT, SavedT
<1>1. PICK expired \in {FALSE, StaleReloads} : StartOver(expired) \/ (Unfinished(expired) /\ Restore)
  BY DEF Reload
<1>2. CASE StartOver(expired)
  <2> DEFINE k == Cardinality({i \in DOMAIN idb : idb[i].op = "add"})
  <2>1. k \in 0..asked /\ \A a \in 1..asked : Adding(idb, a) <=> a > asked - k
    BY <1>0, AddsCounted
  <2>2. asked' = asked - k
    BY <1>2 DEF StartOver
  <2> HIDE DEF k
  <2> QED BY <1>0, <2>1, <2>2 DEF Written
<1>3. CASE Unfinished(expired) /\ Restore
  <2>1. progress.saved /\ asked' = progress.upto
    BY <1>3 DEF Unfinished, Restore
  <2>2. \A a \in 1..asked : Adding(idb, a) <=> a > progress.upto
    BY <2>1 DEF ProgressInv
  <2> QED BY <1>0, <2>1, <2>2 DEF Written
<1> QED BY <1>1, <1>2, <1>3

(* The saved progress is kept by every step.                                 *)
LEMMA ProgressStep == ASSUME TypeInv, ProgressInv, Next PROVE ProgressInv'
<1>0. /\ asked \in Nat /\ AddsUpTo(idb, asked) /\ (progress.saved => progress.upto <= asked) /\ progress.upto \in Nat
      /\ progress \in [saved : BOOLEAN, upto : 0..NumAnswers, responseId : Nat, displayId : Nat]
      /\ asked' \in Nat
  BY NumAnswersAssumption, PageTyped DEF TypeInv, IdbT, PageT, SavedT
<1>1. CASE Reload
  <2>1. \A a : ~Adding(idb', a)
    BY <1>1, PageIdbHolds DEF PageIdb, Adding, Elem, DbRequest
  <2>2. PICK expired \in {FALSE, StaleReloads} : StartOver(expired) \/ (Unfinished(expired) /\ Restore)
    BY <1>1 DEF Reload
  <2>3. CASE StartOver(expired)
    BY <2>3 DEF StartOver, NoProgress, ProgressInv
  <2>4. CASE Restore
    <3>1. asked' = progress.upto
      BY <2>4 DEF Restore
    <3>2. \/ progress' = progress
          \/ \E r \in DOMAIN responses : progress' = [progress EXCEPT !.responseId = r]
          \/ progress' = [progress EXCEPT !.displayId = 0]
      BY <2>4 DEF Restore, Lookup
    <3>3. progress'.upto = progress.upto
      BY <1>0, <3>2
    <3> QED BY <1>0, <2>1, <3>1, <3>3 DEF ProgressInv
  <2> QED BY <2>2, <2>3, <2>4
<1>2. CASE Added
  <2>1. /\ UNCHANGED asked /\ Head(idb).n \in 1..asked /\ Adding(idb, Head(idb).n)
        /\ \A a : Adding(idb', a) <=> Adding(idb, a) /\ a # Head(idb).n
        /\ \A a : Adding(idb, a) => Head(idb).n <= a
    BY <1>2, AddingMoved DEF AddingMoves
  <2>2. progress'.upto = Head(idb).n
    BY <1>2 DEF Added
  <2>3. ASSUME NEW a \in 1..asked PROVE Adding(idb', a) <=> a > Head(idb).n
    <3>1. Adding(idb, a) <=> Head(idb).n <= a
      BY <1>0, <2>1, <2>3 DEF AddsUpTo
    <3> QED BY <1>0, <2>1, <3>1
  <2> QED BY <2>1, <2>2, <2>3 DEF ProgressInv
<1>3. CASE Answer
  <2>1. UNCHANGED progress /\ asked' = asked + 1 /\ \A a : Adding(idb', a) <=> Adding(idb, a) \/ a = asked + 1
    BY <1>3, AddingMoved DEF AddingMoves, Answer
  <2>2. ASSUME progress.saved, NEW a \in 1..(asked + 1) PROVE Adding(idb', a) <=> a > progress.upto
    <3>1. CASE a = asked + 1
      BY <1>0, <2>1, <2>2, <3>1
    <3>2. CASE a # asked + 1
      <4>1. a \in 1..asked
        BY <1>0, <3>2
      <4> QED BY <2>1, <2>2, <3>2, <4>1 DEF ProgressInv
    <3> QED BY <3>1, <3>2
  <2> QED BY <2>1, <2>2 DEF ProgressInv
<1>4. CASE ~Answer /\ ~Added /\ ~Reload
  <2>1. UNCHANGED asked /\ \A a : Adding(idb', a) <=> Adding(idb, a)
    BY <1>4, AddingMoved DEF AddingMoves
  <2>2. UNCHANGED progress \/ ~progress'.saved \/ (progress'.saved = progress.saved /\ progress'.upto = progress.upto)
    <3>1. CASE Patched
      BY <1>0, <3>1 DEF Patched
    <3>2. CASE Cleared
      BY <3>2 DEF Cleared, NoProgress
    <3> QED BY <1>4, <3>1, <3>2, SavedBy
  <2> QED BY <2>1, <2>2 DEF ProgressInv
<1> QED BY <1>1, <1>2, <1>3, <1>4

(* What was written stays written.                                           *)
LEMMA WrittenStays == ASSUME TypeInv, ProgressInv, Next PROVE \A a : Written(a) => Written(a)'
<1> SUFFICES ASSUME NEW a, Written(a) PROVE Written(a)'
  OBVIOUS
<1>0. asked \in Nat /\ a \in 1..asked /\ ~Adding(idb, a)
  BY DEF Written, TypeInv, PageT
<1>1. CASE Reload
  BY <1>1, ReloadKeeps, AddingMoved DEF AddingMoves, Written
<1>2. CASE Answer
  <2>1. asked' = asked + 1 /\ (Adding(idb', a) <=> Adding(idb, a) \/ a = asked + 1)
    BY <1>2, AddingMoved DEF AddingMoves
  <2> QED BY <1>0, <2>1 DEF Written
<1>3. CASE ~Reload /\ ~Answer
  BY <1>0, <1>3, AddingMoved DEF AddingMoves, Written
<1> QED BY <1>1, <1>2, <1>3

(***************************************************************************)
(* Which requests are under way, and in which order they stand.              *)
(***************************************************************************)

(* The requests of processQueue's first await.                               *)
Counts == {"count", "retry"}
(* No call of processQueue is waiting for its count.                         *)
NoCounts(d) == \A i \in DOMAIN d : d[i].op \notin Counts

(* Once op has been requested, neither a count nor another op follows.       *)
Sole(d, op) == \A i, j \in DOMAIN d : d[i].op = op /\ i < j => d[j].op \notin Counts \cup {op}

(* Whoever counts does not get ahead of the write of answer a.               *)
Waits(d, a) == \A i, j \in DOMAIN d : d[i].op \in Counts /\ i < j => d[j] # DbRequest("add", a)

LEMMA GrownAt ==
    ASSUME NEW d \in Seq(Request), NEW e, NEW ops, Grown(d, e, ops)
    PROVE  /\ DOMAIN d \subseteq DOMAIN e
           /\ \A i \in DOMAIN e : i \in Nat
           /\ \A i \in DOMAIN d : e[i] = d[i]
           /\ \A i \in DOMAIN e : i \notin DOMAIN d => e[i].op \in ops
           /\ \A i, j \in DOMAIN e : i < j /\ j \in DOMAIN d => i \in DOMAIN d
<1>1. /\ Len(d) \in Nat /\ DOMAIN d = 1..Len(d)
      /\ Len(e) \in Nat /\ DOMAIN e = 1..Len(e)
      /\ Len(d) <= Len(e)
      /\ \A i \in DOMAIN d : e[i] = d[i]
      /\ \A i \in DOMAIN e : i > Len(d) => e[i].op \in ops
  BY LenProperties DEF Grown
<1>2. \A i \in DOMAIN e : i \in Nat
  BY <1>1
<1>3. \A i \in DOMAIN e : i \notin DOMAIN d => i > Len(d)
  BY <1>1
<1> QED BY <1>1, <1>2, <1>3

LEMMA TailAt ==
    ASSUME NEW d \in Seq(Request), d # <<>>
    PROVE  /\ 1 \in DOMAIN d /\ Head(d) = d[1]
           /\ \A i \in DOMAIN d : i \in Nat /\ i >= 1
           /\ \A i \in DOMAIN Tail(d) : i \in Nat /\ i >= 1 /\ i + 1 \in DOMAIN d /\ Tail(d)[i] = d[i + 1]
  BY Tailed

LEMMA HasNotGrown ==
    ASSUME NEW d \in Seq(Request), NEW e, NEW ops, Grown(d, e, ops), NEW op, op \notin ops, Has(e, op)
    PROVE  Has(d, op)
  BY GrownAt DEF Has

LEMMA HasTail == ASSUME NEW d \in Seq(Request), d # <<>>, NEW op, Has(Tail(d), op) PROVE Has(d, op)
  BY TailAt DEF Has

LEMMA SoleGrown ==
    ASSUME NEW d \in Seq(Request), NEW e, NEW ops, Grown(d, e, ops), NEW op,
           ops \cap (Counts \cup {op}) = {}, Sole(d, op)
    PROVE  Sole(e, op)
<1>1. /\ \A i \in DOMAIN d : e[i] = d[i]
      /\ \A i \in DOMAIN e : i \notin DOMAIN d => e[i].op \in ops
      /\ \A i, j \in DOMAIN e : i < j /\ j \in DOMAIN d => i \in DOMAIN d
  BY GrownAt
<1> SUFFICES ASSUME NEW i \in DOMAIN e, NEW j \in DOMAIN e, e[i].op = op, i < j
             PROVE  e[j].op \notin Counts \cup {op}
  BY DEF Sole
<1>2. CASE j \in DOMAIN d
  <2>1. i \in DOMAIN d /\ d[i].op = op
    BY <1>1, <1>2
  <2> QED BY <1>1, <1>2, <2>1 DEF Sole
<1>3. CASE j \notin DOMAIN d
  BY <1>1, <1>3
<1> QED BY <1>2, <1>3

LEMMA SoleTail ==
    ASSUME NEW d \in Seq(Request), d # <<>>, NEW op, Sole(d, op)
    PROVE  /\ Sole(Tail(d), op)
           /\ Head(d).op = op => NoCounts(Tail(d)) /\ ~Has(Tail(d), op)
<1>1. /\ 1 \in DOMAIN d /\ Head(d) = d[1]
      /\ \A i \in DOMAIN Tail(d) : i \in Nat /\ i >= 1 /\ i + 1 \in DOMAIN d /\ Tail(d)[i] = d[i + 1]
  BY TailAt
<1>2. Sole(Tail(d), op)
  <2> SUFFICES ASSUME NEW i \in DOMAIN Tail(d), NEW j \in DOMAIN Tail(d), Tail(d)[i].op = op, i < j
               PROVE  Tail(d)[j].op \notin Counts \cup {op}
    BY DEF Sole
  <2>1. i + 1 \in DOMAIN d /\ j + 1 \in DOMAIN d /\ i + 1 < j + 1 /\ d[i + 1].op = op /\ Tail(d)[j] = d[j + 1]
    BY <1>1
  <2> QED BY <2>1 DEF Sole
<1>3. ASSUME Head(d).op = op, NEW i \in DOMAIN Tail(d) PROVE Tail(d)[i].op \notin Counts \cup {op}
  <2>1. i + 1 \in DOMAIN d /\ 1 < i + 1 /\ Tail(d)[i] = d[i + 1] /\ d[1].op = op
    BY <1>1, <1>3
  <2> QED BY <1>1, <2>1 DEF Sole
<1> QED BY <1>2, <1>3 DEF NoCounts, Has

LEMMA SoleLast ==
    ASSUME NEW d \in Seq(Request), NEW op \in DbOps, NEW n \in Nat, ~Has(d, op)
    PROVE  Sole(Append(d, DbRequest(op, n)), op)
<1> DEFINE r == DbRequest(op, n)
           e == Append(d, r)
<1>1. r \in Request
  BY RequestTyped
<1>2. /\ DOMAIN d = 1..Len(d) /\ Len(d) \in Nat
      /\ DOMAIN e = 1..(Len(d) + 1)
      /\ \A i \in DOMAIN d : e[i] = d[i]
  BY <1>1, Appended
<1> HIDE DEF e
<1>3. ASSUME NEW i \in DOMAIN e, NEW j \in DOMAIN e, e[i].op = op, i < j PROVE FALSE
  <2>1. i \in DOMAIN d
    BY <1>2, <1>3
  <2> QED BY <1>2, <1>3, <2>1 DEF Has
<1> QED BY <1>3 DEF Sole, e

LEMMA SoleNone == ASSUME NEW d, NEW op, ~Has(d, op) PROVE Sole(d, op)
  BY DEF Sole, Has

LEMMA NoCountsGrown ==
    ASSUME NEW d \in Seq(Request), NEW e, NEW ops, Grown(d, e, ops), ops \cap Counts = {}, NoCounts(d)
    PROVE  NoCounts(e)
  BY GrownAt DEF NoCounts

LEMMA NoCountsTail == ASSUME NEW d \in Seq(Request), d # <<>>, NoCounts(d) PROVE NoCounts(Tail(d))
  BY TailAt DEF NoCounts

LEMMA WaitsGrown ==
    ASSUME NEW d \in Seq(Request), NEW e, NEW ops, Grown(d, e, ops), "add" \notin ops, NEW a, Waits(d, a)
    PROVE  Waits(e, a)
<1>1. /\ \A i \in DOMAIN d : e[i] = d[i]
      /\ \A i \in DOMAIN e : i \notin DOMAIN d => e[i].op \in ops
      /\ \A i, j \in DOMAIN e : i < j /\ j \in DOMAIN d => i \in DOMAIN d
  BY GrownAt
<1> SUFFICES ASSUME NEW i \in DOMAIN e, NEW j \in DOMAIN e, e[i].op \in Counts, i < j
             PROVE  e[j] # DbRequest("add", a)
  BY DEF Waits
<1>2. CASE j \in DOMAIN d
  <2>1. i \in DOMAIN d /\ d[i].op \in Counts
    BY <1>1, <1>2
  <2> QED BY <1>1, <1>2, <2>1 DEF Waits
<1>3. CASE j \notin DOMAIN d
  BY <1>1, <1>3 DEF DbRequest
<1> QED BY <1>2, <1>3

LEMMA WaitsTail ==
    ASSUME NEW d \in Seq(Request), d # <<>>, NEW a, Waits(d, a)
    PROVE  /\ Waits(Tail(d), a)
           /\ Head(d).op \in Counts => ~Adding(d, a)
<1>1. /\ 1 \in DOMAIN d /\ Head(d) = d[1]
      /\ \A i \in DOMAIN d : i \in Nat /\ i >= 1
      /\ \A i \in DOMAIN Tail(d) : i \in Nat /\ i >= 1 /\ i + 1 \in DOMAIN d /\ Tail(d)[i] = d[i + 1]
  BY TailAt
<1>2. Waits(Tail(d), a)
  <2> SUFFICES ASSUME NEW i \in DOMAIN Tail(d), NEW j \in DOMAIN Tail(d), Tail(d)[i].op \in Counts, i < j
               PROVE  Tail(d)[j] # DbRequest("add", a)
    BY DEF Waits
  <2>1. i + 1 \in DOMAIN d /\ j + 1 \in DOMAIN d /\ i + 1 < j + 1 /\ d[i + 1].op \in Counts /\ Tail(d)[j] = d[j + 1]
    BY <1>1
  <2> QED BY <2>1 DEF Waits
<1>3. ASSUME Head(d).op \in Counts, NEW i \in DOMAIN d PROVE d[i] # DbRequest("add", a)
  <2>1. CASE i = 1
    BY <1>1, <1>3, <2>1 DEF Counts, DbRequest
  <2>2. CASE i # 1
    <3>1. 1 < i
      BY <1>1, <2>2
    <3> QED BY <1>1, <1>3, <3>1 DEF Waits
  <2> QED BY <2>1, <2>2
<1> QED BY <1>2, <1>3 DEF Adding, Elem

LEMMA WaitsNone == ASSUME NEW d, NoCounts(d), NEW a PROVE Waits(d, a)
  BY DEF Waits, NoCounts

LEMMA WaitsAdd ==
    ASSUME NEW d \in Seq(Request), NEW a, Waits(d, a), NEW b \in Nat, b # a
    PROVE  Waits(Append(d, DbRequest("add", b)), a)
<1> DEFINE r == DbRequest("add", b)
           e == Append(d, r)
<1>1. r \in Request
  BY RequestTyped DEF DbOps
<1>2. /\ DOMAIN d = 1..Len(d) /\ Len(d) \in Nat
      /\ DOMAIN e = 1..(Len(d) + 1)
      /\ \A i \in DOMAIN d : e[i] = d[i]
      /\ e[Len(d) + 1] = r
  BY <1>1, Appended
<1> HIDE DEF e
<1>3. ASSUME NEW i \in DOMAIN e, NEW j \in DOMAIN e, e[i].op \in Counts, i < j
      PROVE  e[j] # DbRequest("add", a)
  <2>1. i \in DOMAIN d /\ (j \in DOMAIN d \/ j = Len(d) + 1)
    BY <1>2, <1>3
  <2>2. CASE j \in DOMAIN d
    BY <1>2, <1>3, <2>1, <2>2 DEF Waits
  <2>3. CASE j = Len(d) + 1
    BY <1>2, <2>3 DEF DbRequest
  <2> QED BY <2>1, <2>2, <2>3
<1> QED BY <1>3 DEF Waits, e

(***************************************************************************)
(* The invariant of the order.                                               *)
(***************************************************************************)

(* IndexedDB has stored every answer so far.                                 *)
Storing == budget.add = MaxAddFaults

(* Stored answers are written ones, and what is to be removed is stored.     *)
StoredInv ==
    /\ \A a \in db : Written(a)
    /\ pendingRemoval \subseteq db

(* A sync has its answers stored until it removes them, in their order; each *)
(* one it is done with is settled, and a request carries no answer before an *)
(* unsettled one.                                                            *)
SyncInv ==
    /\ syn.pc \in {"idle", "reading"} => syn.todo = {} /\ syn.done = {}
    /\ syn.pc \in {"flight", "removing"} =>
          /\ syn.answer \in db \ pendingRemoval
          /\ syn.todo \subseteq db \ pendingRemoval
          /\ \A c \in syn.todo : c > syn.answer
          /\ Behind(syn.todo \cup {syn.answer})
    /\ \A a \in syn.done : Written(a) /\ Settled(a) /\ a \notin db
    /\ syn.pc = "flight" => syn.answer \in syn.msg.answers /\ Behind(syn.msg.answers)
    /\ syn.pc = "removing" => Settled(syn.answer)

(* What processQueue sends has only settled answers before it; what it sent  *)
(* stays stored, and settled, until it is removed.                           *)
SendInv ==
    /\ req.pc \in {"flight", "backoff"} =>
          Written(req.answer) /\ \A b \in 1..(req.answer - 1) : Settled(b)
    /\ req.pc = "flight" => req.answer \in req.msg.answers /\ Behind(req.msg.answers)
    /\ req.pc \in {"sent", "dropped"} =>
          /\ req.answer \in db \ pendingRemoval
          /\ ~Elem(queue, req.answer)
          /\ Settled(req.answer)

(* A queued answer is being written, or stored, or was sent by the sync that *)
(* is under way and has not dropped it from the queue yet.                   *)
QueuedInv ==
    \A x \in Answers : Elem(queue, x) =>
        Adding(idb, x) \/ (x \in pendingDbIds /\ x \in (db \ pendingRemoval) \cup syn.done)

(* What is to be removed is settled; every answer is settled, stored or      *)
(* being written.                                                            *)
SettledInv ==
    /\ \A a \in pendingRemoval : Settled(a)
    /\ \A a \in 1..asked : Settled(a) \/ a \in db \/ Adding(idb, a)

(* The server has an answer only with those before it, and so has any        *)
(* request of a page that was left.                                          *)
OrderInv ==
    /\ Behind({a \in Answers : Delivered(a)})
    /\ \A m \in stray : Behind(m.answers)

(* The requests that senders wait for are theirs alone, with no count behind *)
(* them; and a count that may start processQueue does not get ahead of the   *)
(* write of the head of the queue.                                           *)
CountInv ==
    /\ Has(idb, "sent") => req.pc = "sent"
    /\ Has(idb, "dropped") => req.pc = "dropped"
    /\ Has(idb, "read") => syn.pc = "reading"
    /\ \A op \in {"sent", "dropped", "read"} : Sole(idb, op)
    /\ syn.pc \in {"flight", "removing"} => NoCounts(idb)
    /\ req.pc \in {"idle", "flight", "backoff"} /\ syn.pc = "idle" =>
          \/ NoCounts(idb)
          \/ queue # <<>> /\ Waits(idb, Head(queue))

(* What the order of the answers rests on.                                   *)
FlowInv == StoredInv /\ SyncInv /\ SendInv /\ QueuedInv /\ SettledInv /\ OrderInv /\ CountInv

(* What the steps of the flow are proved from.                               *)
Flow == CoreInv /\ ProgressInv /\ IdsKnown /\ Storing /\ FlowInv

(* A write that does not use up a fault stores its answer.                   *)
LEMMA AddStored ==
    ASSUME TypeInv, Added, Storing'
    PROVE  UNCHANGED budget /\ db' = db \cup {Head(idb).n} /\ pendingDbIds' = pendingDbIds \cup {Head(idb).n}
<1>0. budget \in [add : Nat, db : Nat, flap : Nat, reload : Nat, delete : Nat, display : Nat]
      /\ budget.add <= MaxAddFaults /\ MaxAddFaults \in Nat
  BY BoundsAssumption DEF TypeInv, BudgetT
<1>1. CASE budget.add > 0 /\ budget' = [budget EXCEPT !.add = @ - 1]
  <2>1. budget'.add = budget.add - 1
    BY <1>0, <1>1
  <2> QED BY <1>0, <2>1 DEF Storing
<1> QED BY <1>1 DEF Added

(* A fault once used is not given back.                                      *)
LEMMA StoringBack == ASSUME TypeInv, Next, Storing' PROVE Storing
<1>0. budget \in [add : Nat, db : Nat, flap : Nat, reload : Nat, delete : Nat, display : Nat]
  BY DEF TypeInv, BudgetT
<1>1. CASE UNCHANGED budget
  BY <1>1 DEF Storing
<1>2. CASE CreateDisplay \/ GoOffline \/ Reload \/ OwnerDeletes \/ DbFault
  <2>1. budget'.add = budget.add
    BY <1>0, <1>2 DEF CreateDisplay, GoOffline, Reload, OwnerDeletes, DbFault
  <2> QED BY <2>1 DEF Storing
<1>3. CASE Added
  BY <1>1, <1>3, AddStored
<1> QED BY <1>1, <1>2, <1>3, BudgetBy

(* A sender that waits for IndexedDB goes on when it answers, not before.    *)
LEMMA SenderWaits ==
    ASSUME CoreInv, Next, ~Reload
    PROVE  /\ req.pc = "sent" /\ ~SentRemoved => UNCHANGED req
           /\ req.pc = "dropped" /\ ~DroppedRemoved => UNCHANGED req
           /\ syn.pc = "reading" /\ ~SyncRead => UNCHANGED syn
<1>0. SenderInv
  BY DEF CoreInv
<1>1. ASSUME req.pc \in {"sent", "dropped"}, ~SentRemoved, ~DroppedRemoved PROVE UNCHANGED req
  <2>1. isRequestInProgress
    BY <1>0, <1>1 DEF SenderInv
  <2>2. CASE Counted
    BY <2>1, <2>2 DEF Counted
  <2>3. CASE SendOk \/ SendRefused \/ SendSuspected \/ SendFails \/ Resend
    BY <1>1, <2>3 DEF SendOk, SendRefused, SendSuspected, SendFails, Resend
  <2> QED BY <1>1, <2>2, <2>3, ReqBy
<1>2. SentRemoved => req.pc = "sent"
  BY DEF SentRemoved
<1>3. DroppedRemoved => req.pc = "dropped"
  BY DEF DroppedRemoved
<1>4. ASSUME syn.pc = "reading", ~SyncRead PROVE UNCHANGED syn
  <2>1. isSyncing
    BY <1>0, <1>4 DEF SenderInv
  <2>2. CASE Counted \/ EffectCounted
    BY <2>1, <2>2 DEF Counted, EffectCounted, memory
  <2>3. CASE SyncOk \/ SyncRefused \/ SyncNotFound \/ SyncFails \/ SyncedRemoved
    BY <1>4, <2>3 DEF SyncOk, SyncRefused, SyncNotFound, SyncFails, SyncedRemoved
  <2> QED BY <1>4, <2>2, <2>3, SynBy
<1> QED BY <1>1, <1>2, <1>3, <1>4

(***************************************************************************)
(* What a step requests of IndexedDB.                                        *)
(***************************************************************************)

(* The head of a queue is queued.                                            *)
LEMMA HeadQueued ==
    ASSUME queue \in Seq(Answers), queue # <<>>
    PROVE  Head(queue) \in Answers /\ Elem(queue, Head(queue))
  BY ElemTailed, Tailed

(* With no sync under way a queued answer that was written is stored, and    *)
(* the queue knows it.                                                       *)
LEMMA HeadStored ==
    ASSUME Flow, queue # <<>>, ~Adding(idb, Head(queue)), syn.pc = "idle"
    PROVE  Head(queue) \in pendingDbIds /\ Head(queue) \in db \ pendingRemoval
<1>1. Head(queue) \in Answers /\ Elem(queue, Head(queue))
  BY HeadQueued DEF Flow, CoreInv, TypeInv, QueueT
<1>2. syn.done = {}
  BY DEF Flow, FlowInv, SyncInv
<1> QED BY <1>1, <1>2 DEF Flow, FlowInv, QueuedInv

LEMMA SentStored ==
    ASSUME Flow, req.pc \in {"flight", "backoff"}
    PROVE  /\ req.answer \in pendingDbIds /\ req.answer \in db \ pendingRemoval
           /\ queue # <<>> /\ Head(queue) = req.answer
<1>1. queue # <<>> /\ Head(queue) = req.answer /\ syn.pc = "idle"
  BY DEF Flow, CoreInv, HeadIsSent, SenderInv
<1>2. ~Adding(idb, req.answer)
  BY DEF Flow, FlowInv, SendInv, Written
<1> QED BY <1>1, <1>2, HeadStored

(* What a step requests of IndexedDB behind what is under way.               *)
Adds(d, ops) ==
    /\ d = idb \/ (idb # <<>> /\ d = Tail(idb))
    /\ d \in Seq(Request)
    /\ Grown(d, idb', ops)
    /\ "sent" \in ops => SendOk
    /\ "dropped" \in ops => SendRefused
    /\ "read" \in ops => syn.pc = "idle" /\ syn'.pc = "reading"
    /\ "add" \in ops => Answer
    /\ isSyncing \/ (isRequestInProgress /\ ~SentRemoved) => ops \cap Counts = {}
    /\ ops \cap Counts # {} => queue # <<>> /\ UNCHANGED queue

(* A sync that ends or goes on asks for no count: it still has its lock.     *)
LEMMA SyncTakes ==
    ASSUME CoreInv, SyncRead \/ SyncedRemoved
    PROVE  idb # <<>> /\ Grown(Tail(idb), idb', {"clear"})
<1>0. idb \in Seq(Request) /\ idb # <<>> /\ isSyncing
  BY DEF CoreInv, TypeInv, IdbT, SyncRead, SyncedRemoved, Oldest, SenderInv
<1>1. Tail(idb) \in Seq(Request)
  BY <1>0, Tailed
<1>2. \A q, r : ProcessQueue(Tail(idb), "count", q, r, isSyncing) = Tail(idb)
  BY <1>0 DEF ProcessQueue
<1>3. idb' = Tail(idb) \/ \E todo, done : SyncNext(todo, done, Tail(idb))
  BY Zenon DEF SyncRead, SyncedRemoved
<1>4. idb' = Tail(idb) \/ idb' = Append(Tail(idb), DbRequest("clear", 0))
  BY <1>2, <1>3, Zenon DEF SyncNext, SyncSucceeds
<1>5. "clear" \in DbOps
  BY DEF DbOps
<1> QED BY <1>0, <1>1, <1>4, <1>5, GrownNot, AppendGrown

(* Every step but a reload takes the oldest request off or none, and adds to *)
(* the rest.                                                                 *)
LEMMA IdbGrows == ASSUME Flow, Next, ~Reload PROVE \E d, ops : Adds(d, ops)
<1>0. /\ TypeInv /\ SenderInv /\ idb \in Seq(Request) /\ IdbT /\ PageIdb /\ QueueIdb /\ SyncIdb /\ asked \in Nat
  BY PageIdbHolds, QueueIdbHolds, SyncIdbHolds DEF Flow, CoreInv, TypeInv, IdbT, PageT
<1>1. idb # <<>> => Tail(idb) \in Seq(Request)
  BY <1>0, Tailed
<1>2. ASSUME NEW d, NEW ops, d = idb \/ (idb # <<>> /\ d = Tail(idb)), Grown(d, idb', ops),
             ops \cap {"sent", "dropped", "read", "add", "count", "retry"} = {}
      PROVE  \E e, o : Adds(e, o)
  BY <1>0, <1>1, <1>2 DEF Adds, Counts
<1>3. ASSUME NEW d, NEW op, NEW q, d = idb \/ (idb # <<>> /\ d = Tail(idb)), op \in Counts,
             isSyncing \/ (isRequestInProgress /\ ~SentRemoved) => idb' = d,
             idb' = d \/ (idb' = Append(d, DbRequest(op, 0)) /\ queue # <<>> /\ UNCHANGED queue)
      PROVE  \E e, o : Adds(e, o)
  <2>0. d \in Seq(Request) /\ op \in DbOps
    BY <1>0, <1>1, <1>3 DEF Counts, DbOps
  <2>1. CASE idb' = d
    BY <1>2, <1>3, <2>0, <2>1, GrownNot
  <2>2. CASE idb' # d
    <3>1. Grown(d, idb', {op})
      BY <1>3, <2>0, <2>2, AppendGrown
    <3>2. op \notin {"sent", "dropped", "read", "add"}
      BY <1>3 DEF Counts
    <3>3. Adds(d, {op})
      BY <1>3, <2>0, <2>2, <3>1, <3>2, Zenon DEF Adds
    <3> QED BY <3>3
  <2> QED BY <2>1, <2>2
<1>4. ASSUME NEW op, Oldest(op) PROVE idb # <<>>
  BY <1>4 DEF Oldest
<1>5. CASE Answer
  <2>1. Grown(idb, idb', {"add"})
    <3>1. "add" \in DbOps /\ asked + 1 \in Nat /\ idb' = Append(idb, DbRequest("add", asked + 1))
      BY <1>0, <1>5 DEF Answer, DbOps
    <3> QED BY <1>0, <3>1, AppendGrown
  <2>2. Adds(idb, {"add"})
    BY <1>0, <1>5, <2>1 DEF Adds, Counts
  <2> QED BY <2>2
<1>6. CASE CreateDisplay \/ GoOnline \/ GoOffline \/ StrayArrives \/ OwnerDeletes
  <2>1. \E ops \in {{"patchDisplay"}, {"effect"}, {}} : Grown(idb, idb', ops)
    BY <1>0, <1>6 DEF PageIdb
  <2> QED BY <1>2, <2>1
<1>7. CASE Retry
  <2>1. /\ UNCHANGED queue
        /\ idb' = ProcessQueue(idb, "retry", queue, isRequestInProgress, isSyncing)
    BY <1>7 DEF Retry, memory
  <2> QED BY <1>3, <2>1 DEF ProcessQueue, Counts
<1>8. CASE Added
  <2>1. /\ UNCHANGED queue /\ idb # <<>>
        /\ idb' = ProcessQueue(Tail(idb), "count", queue, isRequestInProgress, isSyncing)
    BY <1>4, <1>8 DEF Added
  <2> QED BY <1>3, <2>1 DEF ProcessQueue, Counts
<1>9. CASE Patched \/ Cleared \/ CountFails \/ DroppedRemoved
  <2>1. Grown(Tail(idb), idb', {}) /\ idb # <<>>
    BY <1>0, <1>4, <1>9 DEF QueueIdb, Patched, Cleared, CountFails, DroppedRemoved, Counting
  <2> QED BY <1>2, <2>1
<1>10. ASSUME Counted \/ EffectCounted PROVE \E e, o : Adds(e, o)
  <2>1. idb # <<>>
    BY <1>4, <1>10 DEF Counted, EffectCounted, Counting
  <2>2. CASE idb' = Tail(idb)
    <3>1. Grown(Tail(idb), idb', {})
      BY <1>1, <2>1, <2>2, GrownNot
    <3> QED BY <1>2, <2>1, <3>1
  <2>3. CASE \E e : StartSync(Tail(idb), e) /\ ~isSyncing
    <3>1. syn'.pc = "reading" /\ syn.pc = "idle"
      <4>1. syn.pc = "idle"
        BY <1>0, <2>3 DEF SenderInv, SynT, TypeInv
      <4> QED BY <2>3, <4>1 DEF StartSync, IdleSyn
    <3>2. Grown(Tail(idb), idb', {"read"})
      BY <1>0, <1>10 DEF QueueIdb, SyncIdb
    <3>3. Adds(Tail(idb), {"read"})
      BY <1>1, <2>1, <3>1, <3>2 DEF Adds, Counts
    <3> QED BY <3>3
  <2>4. idb' = Tail(idb) \/ \E e : StartSync(Tail(idb), e) /\ ~isSyncing
    BY <1>10, Zenon DEF Counted, EffectCounted
  <2> QED BY <2>2, <2>3, <2>4
<1>11. CASE SendOk
  <2> DEFINE d == PatchAfter(req.msg, idb)
             ops == {"patchResponse", "sent"}
  <2>0. req.answer \in pendingDbIds
    BY <1>11, SentStored DEF SendOk
  <2>1. Len(responses') \in Nat
    BY <1>0, <1>11, ApiTyped, LenProperties DEF TypeInv, ApiT, ApiTypeOK
  <2>2. Grown(idb, d, ops)
    BY <1>0, <2>1, GrownNot, PatchGrown
  <2>3. Grown(idb, Append(d, DbRequest("sent", 0)), ops)
    <3>1. "sent" \in DbOps
      BY DEF DbOps
    <3> QED BY <1>0, <2>2, <3>1, OneGrown
  <2>4. Adds(idb, ops)
    BY <1>0, <1>11, <2>0, <2>3 DEF SendOk, Adds, Counts
  <2> QED BY <2>4
<1>12. CASE SendRefused
  <2>1. Grown(idb, idb', {"dropped"})
    BY <1>0, <1>12 DEF QueueIdb
  <2>2. Adds(idb, {"dropped"})
    BY <1>0, <1>12, <2>1 DEF Adds, Counts
  <2> QED BY <2>2
<1>13. CASE SendSuspected \/ SendFails \/ Resend
  BY <1>0, <1>2, <1>13 DEF QueueIdb
<1>14. CASE SentRemoved
  <2>1. /\ idb # <<>> /\ UNCHANGED <<queue, isSyncing>>
        /\ idb' = ProcessQueue(Tail(idb), "count", queue, FALSE, isSyncing)
    BY <1>4, <1>14 DEF SentRemoved, Succeeded
  <2> QED BY <1>3, <1>14, <2>1 DEF ProcessQueue, Counts
<1>16. CASE SyncRead \/ SyncedRemoved
  <2>1. idb # <<>> /\ Grown(Tail(idb), idb', {"clear"})
    BY <1>16, SyncTakes DEF Flow
  <2> QED BY <1>2, <2>1
<1>17. CASE SyncOk \/ SyncRefused \/ SyncNotFound \/ SyncFails
  <2>1. \E ops \in {{"patchResponse", "synced"}, {"synced"}, {}} : Grown(idb, idb', ops)
    BY <1>0, <1>17 DEF SyncIdb
  <2> QED BY <1>2, <2>1
<1> QED BY <1>5, <1>6, <1>7, <1>8, <1>9, <1>10, <1>11, <1>12, <1>13, <1>14, <1>16, <1>17
        DEF Next, PageStep, QueueStep, SyncStep

(***************************************************************************)
(* No count stands behind the request a sender waits for.                    *)
(***************************************************************************)

(* Where a request op stands for a sender that waits for it.                 *)
LEMMA StaysSole ==
    ASSUME Flow, Next, ~Reload, NEW op, NEW d, NEW ops, Adds(d, ops), op \notin ops, Sole(idb, op),
           Has(idb, op) => ops \cap Counts = {}
    PROVE  /\ Has(idb', op) => Has(idb, op)
           /\ Sole(idb', op)
<1>0. idb \in Seq(Request) /\ d \in Seq(Request) /\ Grown(d, idb', ops)
  BY DEF Adds, Flow, CoreInv, TypeInv, IdbT
<1>1. Has(idb', op) => Has(idb, op)
  BY <1>0, HasNotGrown, HasTail DEF Adds
<1>2. ASSUME Has(idb', op) PROVE Sole(idb', op)
  <2>1. ops \cap (Counts \cup {op}) = {}
    BY <1>1, <1>2
  <2>2. Sole(d, op)
    BY <1>0, SoleTail DEF Adds
  <2> QED BY <1>0, <2>1, <2>2, SoleGrown
<1> QED BY <1>1, <1>2, SoleNone

LEMMA SentCount ==
    ASSUME Flow, Next
    PROVE  (Has(idb', "sent") => req'.pc = "sent") /\ Sole(idb', "sent")
<1>0. /\ idb \in Seq(Request) /\ TypeInv /\ SenderInv /\ CoreInv
      /\ Has(idb, "sent") => req.pc = "sent"
      /\ Sole(idb, "sent")
  BY DEF Flow, CoreInv, TypeInv, IdbT, FlowInv, CountInv
<1>1. CASE Reload
  BY <1>0, <1>1, SoleNone, PageIdbHolds DEF PageIdb, Has
<1>2. CASE SendOk
  <2> DEFINE e == PatchAfter(req.msg, idb)
  <2>1. req.answer \in pendingDbIds /\ req.pc = "flight"
    BY <1>2, SentStored DEF SendOk
  <2>2. Len(responses') \in Nat
    BY <1>0, <1>2, ApiTyped, LenProperties DEF TypeInv, ApiT, ApiTypeOK
  <2>3. Grown(idb, e, {"patchResponse"})
    BY <1>0, <2>2, GrownNot, PatchGrown
  <2>4. e \in Seq(Request) /\ "sent" \in DbOps
    BY <2>3 DEF Grown, DbOps
  <2>5. idb' = Append(e, DbRequest("sent", 0)) /\ req' = [req EXCEPT !.pc = "sent", !.msg = NoMessage]
    BY <1>2, <2>1 DEF SendOk
  <2> HIDE DEF e
  <2>6. ~Has(e, "sent")
    BY <1>0, <2>1, <2>3, HasNotGrown
  <2>7. req'.pc = "sent"
    <3>1. req \in [pc : {"idle", "flight", "backoff", "sent", "dropped"}, answer : 0..NumAnswers,
                   attempt : 0..(RetryAttempts - 1), manual : BOOLEAN, msg : Messages]
      BY <1>0 DEF TypeInv, ReqT
    <3> QED BY <2>5, <3>1
  <2> QED BY <2>4, <2>5, <2>6, <2>7, SoleLast
<1>3. CASE SentRemoved
  <2>1. idb # <<>> /\ Head(idb).op = "sent"
    BY <1>3 DEF SentRemoved, Oldest
  <2>2. ~Has(Tail(idb), "sent") /\ Tail(idb) \in Seq(Request)
    BY <1>0, <2>1, SoleTail, Tailed
  <2>3. Grown(Tail(idb), idb', {"count"})
    BY <1>0, <1>3, QueueIdbHolds DEF QueueIdb
  <2>4. ~Has(idb', "sent")
    <3>1. "sent" \notin {"count"}
      OBVIOUS
    <3> QED BY <2>2, <2>3, <3>1, HasNotGrown
  <2> QED BY <2>4, SoleNone
<1>4. CASE ~Reload /\ ~SendOk /\ ~SentRemoved
  <2>1. PICK d, ops : Adds(d, ops)
    BY <1>4, IdbGrows
  <2>2. "sent" \notin ops
    BY <1>4, <2>1 DEF Adds
  <2>3. Has(idb, "sent") => ops \cap Counts = {} /\ UNCHANGED req
    BY <1>0, <1>4, <2>1, SenderWaits DEF Adds, SenderInv
  <2>4. (Has(idb', "sent") => Has(idb, "sent")) /\ Sole(idb', "sent")
    BY <1>0, <1>4, <2>1, <2>2, <2>3, StaysSole
  <2> QED BY <1>0, <2>3, <2>4
<1> QED BY <1>1, <1>2, <1>3, <1>4

LEMMA DroppedCount ==
    ASSUME Flow, Next
    PROVE  (Has(idb', "dropped") => req'.pc = "dropped") /\ Sole(idb', "dropped")
<1>0. /\ idb \in Seq(Request) /\ TypeInv /\ SenderInv /\ CoreInv
      /\ Has(idb, "dropped") => req.pc = "dropped"
      /\ Sole(idb, "dropped")
  BY DEF Flow, CoreInv, TypeInv, IdbT, FlowInv, CountInv
<1>1. CASE Reload
  BY <1>0, <1>1, SoleNone, PageIdbHolds DEF PageIdb, Has
<1>2. CASE SendRefused
  <2>1. req.answer \in pendingDbIds /\ req.pc = "flight" /\ "dropped" \in DbOps
    BY <1>2, SentStored DEF SendRefused, DbOps
  <2>2. ~Has(idb, "dropped")
    BY <1>0, <2>1
  <2>3. CASE ~online
    BY <1>0, <1>2, <2>2, <2>3, SoleNone DEF SendRefused
  <2>4. CASE online
    <3>1. idb' = Append(idb, DbRequest("dropped", 0)) /\ req' = [req EXCEPT !.pc = "dropped", !.msg = NoMessage]
      BY <1>2, <2>1, <2>4 DEF SendRefused
    <3>2. req'.pc = "dropped"
      <4>1. req \in [pc : {"idle", "flight", "backoff", "sent", "dropped"}, answer : 0..NumAnswers,
                     attempt : 0..(RetryAttempts - 1), manual : BOOLEAN, msg : Messages]
        BY <1>0 DEF TypeInv, ReqT
      <4> QED BY <3>1, <4>1
    <3> QED BY <1>0, <2>1, <2>2, <3>1, <3>2, SoleLast
  <2> QED BY <2>3, <2>4
<1>3. CASE DroppedRemoved
  <2>1. idb # <<>> /\ Head(idb).op = "dropped" /\ idb' = Tail(idb)
    BY <1>3 DEF DroppedRemoved, Oldest
  <2>2. ~Has(idb', "dropped")
    BY <1>0, <2>1, SoleTail
  <2> QED BY <2>2, SoleNone
<1>4. CASE ~Reload /\ ~SendRefused /\ ~DroppedRemoved
  <2>1. PICK d, ops : Adds(d, ops)
    BY <1>4, IdbGrows
  <2>2. "dropped" \notin ops
    BY <1>4, <2>1 DEF Adds
  <2>3. Has(idb, "dropped") => ops \cap Counts = {} /\ UNCHANGED req
    <3>1. SentRemoved => req.pc = "sent"
      BY DEF SentRemoved
    <3> QED BY <1>0, <1>4, <2>1, <3>1, SenderWaits DEF Adds, SenderInv
  <2>4. (Has(idb', "dropped") => Has(idb, "dropped")) /\ Sole(idb', "dropped")
    BY <1>0, <1>4, <2>1, <2>2, <2>3, StaysSole
  <2> QED BY <1>0, <2>3, <2>4
<1> QED BY <1>1, <1>2, <1>3, <1>4

LEMMA ReadCount ==
    ASSUME Flow, Next
    PROVE  (Has(idb', "read") => syn'.pc = "reading") /\ Sole(idb', "read")
<1>0. /\ idb \in Seq(Request) /\ TypeInv /\ SenderInv /\ CoreInv
      /\ Has(idb, "read") => syn.pc = "reading"
      /\ Sole(idb, "read")
  BY DEF Flow, CoreInv, TypeInv, IdbT, FlowInv, CountInv
<1>1. CASE Reload
  BY <1>0, <1>1, SoleNone, PageIdbHolds DEF PageIdb, Has
<1>2. CASE SyncRead
  <2>1. idb # <<>> /\ Head(idb).op = "read" /\ Grown(Tail(idb), idb', {"clear"})
    BY <1>0, <1>2, SyncTakes DEF SyncRead, Oldest
  <2>2. ~Has(Tail(idb), "read") /\ Tail(idb) \in Seq(Request)
    BY <1>0, <2>1, SoleTail, Tailed
  <2>3. ~Has(idb', "read")
    <3>1. "read" \notin {"clear"}
      OBVIOUS
    <3> QED BY <2>1, <2>2, <3>1, HasNotGrown
  <2> QED BY <2>3, SoleNone
<1>3. CASE Counted \/ EffectCounted
  <2>1. idb # <<>>
    BY <1>3 DEF Counted, EffectCounted, Counting, Oldest
  <2>2. Tail(idb) \in Seq(Request) /\ "read" \in DbOps /\ (Has(Tail(idb), "read") => syn.pc = "reading")
    BY <1>0, <2>1, Tailed, HasTail DEF DbOps
  <2>3. \/ idb' = Tail(idb)
        \/ \E e : StartSync(Tail(idb), e) /\ ~isSyncing
    BY <1>3, Zenon DEF Counted, EffectCounted
  <2>4. CASE idb' = Tail(idb)
    <3>1. syn.pc = "reading" => UNCHANGED syn
      BY <1>0, <1>3, SenderWaits DEF SenderInv, Counted, EffectCounted, memory
    <3> QED BY <1>0, <2>1, <2>2, <2>4, <3>1, SoleTail
  <2>5. CASE \E e : StartSync(Tail(idb), e) /\ ~isSyncing
    <3>1. syn'.pc = "reading" /\ idb' = Append(Tail(idb), DbRequest("read", 0)) /\ syn.pc # "reading"
      BY <1>0, <2>5 DEF StartSync, IdleSyn, SenderInv
    <3> QED BY <2>2, <3>1, SoleLast
  <2> QED BY <2>3, <2>4, <2>5
<1>4. CASE ~Reload /\ ~SyncRead /\ ~Counted /\ ~EffectCounted
  <2>1. PICK d, ops : Adds(d, ops)
    BY <1>4, IdbGrows
  <2>2. "read" \notin ops
    <3>1. ~(syn.pc = "idle" /\ syn'.pc = "reading")
      BY <1>0, <1>4, SynMoved DEF SynMoves, IdleSyn
    <3> QED BY <2>1, <3>1 DEF Adds
  <2>3. Has(idb, "read") => ops \cap Counts = {} /\ UNCHANGED syn
    BY <1>0, <1>4, <2>1, SenderWaits DEF Adds, SenderInv
  <2>4. (Has(idb', "read") => Has(idb, "read")) /\ Sole(idb', "read")
    BY <1>0, <1>4, <2>1, <2>2, <2>3, StaysSole
  <2> QED BY <1>0, <2>3, <2>4
<1> QED BY <1>1, <1>2, <1>3, <1>4

(***************************************************************************)
(* A count stands behind the write of the answer it will send.               *)
(***************************************************************************)

(* Once a sync reads on, what is under way holds no count, until it ends.    *)
LEMMA SyncCountless ==
    ASSUME Flow, Next, ~Reload,
           syn.pc \in {"flight", "removing"} \/ (syn.pc = "reading" /\ syn'.pc # "reading")
    PROVE  NoCounts(idb')
<1>0. /\ idb \in Seq(Request) /\ TypeInv /\ SenderInv /\ CoreInv
      /\ Sole(idb, "read")
      /\ syn.pc \in {"flight", "removing"} => NoCounts(idb)
  BY DEF Flow, CoreInv, TypeInv, IdbT, FlowInv, CountInv
<1>1. CASE syn.pc \in {"flight", "removing"}
  <2>1. PICK d, ops : Adds(d, ops)
    BY IdbGrows
  <2>2. d \in Seq(Request) /\ NoCounts(d)
    BY <1>0, <1>1, <2>1, NoCountsTail DEF Adds
  <2>3. ops \cap Counts = {} /\ Grown(d, idb', ops)
    BY <1>0, <1>1, <2>1 DEF Adds, SenderInv
  <2> QED BY <2>2, <2>3, NoCountsGrown
<1>2. CASE syn.pc = "reading" /\ syn'.pc # "reading"
  <2>1. SyncRead
    BY <1>0, <1>2, SenderWaits
  <2>2. idb # <<>> /\ Head(idb).op = "read" /\ Grown(Tail(idb), idb', {"clear"})
    BY <1>0, <2>1, SyncTakes DEF SyncRead, Oldest
  <2>3. NoCounts(Tail(idb)) /\ Tail(idb) \in Seq(Request)
    BY <1>0, <2>2, SoleTail, Tailed
  <2>4. {"clear"} \cap Counts = {}
    BY DEF Counts
  <2> QED BY <2>2, <2>3, <2>4, NoCountsGrown
<1> QED BY <1>1, <1>2

(* The head of the queue stays while processQueue is idle or sends it.       *)
LEMMA HeadStays ==
    ASSUME Flow, Next, ~Reload, req.pc \in {"idle", "flight", "backoff"}, syn.pc = "idle",
           req'.pc \in {"idle", "flight", "backoff"}, queue # <<>>
    PROVE  queue' # <<>> /\ Head(queue') = Head(queue)
<1>0. queue \in Seq(Answers) /\ asked \in Nat /\ TypeInv
  BY DEF Flow, CoreInv, TypeInv, QueueT, PageT
<1>q. req \in [pc : {"idle", "flight", "backoff", "sent", "dropped"}, answer : 0..NumAnswers,
               attempt : 0..(RetryAttempts - 1), manual : BOOLEAN, msg : Messages]
  BY <1>0 DEF TypeInv, ReqT
<1>1. CASE Answer
  <2>1. asked + 1 \in Answers /\ queue' = Append(queue, asked + 1)
    BY <1>0, <1>1, NumAnswersAssumption DEF Answer, Answers, TypeInv, PageT
  <2> QED BY <1>0, <2>1, Appended
<1>2. CASE SendOk
  <2>1. req.answer \in pendingDbIds
    BY <1>2, SentStored DEF SendOk
  <2>2. req' = [req EXCEPT !.pc = "sent", !.msg = NoMessage]
    BY <1>2, <2>1 DEF SendOk
  <2>3. req'.pc = "sent"
    BY <1>q, <2>2
  <2> QED BY <2>3
<1>3. CASE SendRefused
  <2>1. req.answer \in pendingDbIds
    BY <1>3, SentStored DEF SendRefused
  <2>2. CASE ~online
    BY <1>3, <2>2 DEF SendRefused
  <2>3. CASE online
    <3>1. req' = [req EXCEPT !.pc = "dropped", !.msg = NoMessage]
      BY <1>3, <2>1, <2>3 DEF SendRefused
    <3>2. req'.pc = "dropped"
      BY <1>q, <3>1
    <3> QED BY <3>2
  <2> QED BY <2>2, <2>3
<1>4. CASE SyncRead \/ SyncFails \/ SyncedRemoved
  BY <1>4 DEF SyncRead, SyncFails, SyncedRemoved
<1>5. CASE UNCHANGED queue
  BY <1>5
<1> QED BY <1>1, <1>2, <1>3, <1>4, <1>5, QueueBy

LEMMA CountsWait ==
    ASSUME Flow, Next, req'.pc \in {"idle", "flight", "backoff"}, syn'.pc = "idle"
    PROVE  NoCounts(idb') \/ (queue' # <<>> /\ Waits(idb', Head(queue')))
<1>0. /\ idb \in Seq(Request) /\ TypeInv /\ SenderInv /\ CoreInv
      /\ Sole(idb, "sent") /\ Sole(idb, "dropped")
      /\ queue \in Seq(Answers) /\ asked \in Nat /\ \A x : Elem(queue, x) => x \in 1..asked
  BY DEF Flow, CoreInv, TypeInv, IdbT, FlowInv, CountInv, QueueT, PageT
<1>1. CASE Reload
  BY <1>0, <1>1, PageIdbHolds DEF PageIdb, NoCounts, Counts
<1>2. CASE ~Reload /\ syn.pc # "idle"
  <2>1. syn.pc \in {"reading", "flight", "removing"}
    BY <1>0, <1>2 DEF TypeInv, SynT
  <2> QED BY <1>2, <2>1, SyncCountless
<1>3. CASE ~Reload /\ req.pc \in {"sent", "dropped"}
  <2>1. CASE SentRemoved
    <3>1. /\ idb # <<>> /\ Head(idb).op = "sent"
          /\ idb' = ProcessQueue(Tail(idb), "count", queue, FALSE, isSyncing) /\ UNCHANGED queue
      BY <2>1 DEF SentRemoved, Succeeded, Oldest
    <3>2. NoCounts(Tail(idb)) /\ Tail(idb) \in Seq(Request)
      BY <1>0, <3>1, SoleTail, Tailed
    <3>3. CASE idb' = Tail(idb)
      BY <3>2, <3>3
    <3>4. CASE idb' # Tail(idb)
      <4>1. queue' # <<>>
        BY <3>1, <3>4 DEF ProcessQueue
      <4>2. Waits(Tail(idb), Head(queue'))
        BY <3>2, WaitsNone
      <4>3. Grown(Tail(idb), idb', {"count"}) /\ "add" \notin {"count"}
        BY <1>0, <2>1, QueueIdbHolds DEF QueueIdb
      <4> QED BY <3>2, <4>1, <4>2, <4>3, WaitsGrown
    <3> QED BY <3>3, <3>4
  <2>2. CASE DroppedRemoved
    <3>1. idb # <<>> /\ Head(idb).op = "dropped" /\ idb' = Tail(idb)
      BY <2>2 DEF DroppedRemoved, Oldest
    <3> QED BY <1>0, <3>1, SoleTail
  <2>3. SentRemoved \/ DroppedRemoved
    <3>1. ~UNCHANGED req
      BY <1>3
    <3> QED BY <1>0, <1>3, <3>1, SenderWaits
  <2> QED BY <2>1, <2>2, <2>3
<1>4. CASE ~Reload /\ req.pc \in {"idle", "flight", "backoff"} /\ syn.pc = "idle"
  <2>0. NoCounts(idb) \/ (queue # <<>> /\ Waits(idb, Head(queue)))
    BY <1>4 DEF Flow, FlowInv, CountInv
  <2>1. PICK d, ops : Adds(d, ops)
    BY <1>4, IdbGrows
  <2>2. d \in Seq(Request) /\ Grown(d, idb', ops)
    BY <2>1 DEF Adds
  <2>3. CASE NoCounts(idb) /\ ops \cap Counts = {}
    <3>1. NoCounts(d)
      BY <1>0, <2>1, <2>3, NoCountsTail DEF Adds
    <3> QED BY <2>2, <2>3, <3>1, NoCountsGrown
  <2>4. CASE ~(NoCounts(idb) /\ ops \cap Counts = {})
    <3>1. queue # <<>> /\ Waits(idb, Head(queue))
      BY <2>0, <2>1, <2>4, WaitsNone DEF Adds
    <3>2. queue' # <<>> /\ Head(queue') = Head(queue)
      BY <1>4, <3>1, HeadStays
    <3>3. Waits(idb', Head(queue))
      <4>1. CASE Answer
        <5>1. idb' = Append(idb, DbRequest("add", asked + 1))
          BY <4>1 DEF Answer
        <5>2. Head(queue) \in 1..asked
          BY <1>0, <3>1, HeadQueued
        <5>3. asked + 1 \in Nat /\ asked + 1 # Head(queue)
          BY <1>0, <5>2
        <5> QED BY <1>0, <3>1, <5>1, <5>3, WaitsAdd
      <4>2. CASE ~Answer
        <5>1. "add" \notin ops
          BY <2>1, <4>2 DEF Adds
        <5>2. Waits(d, Head(queue))
          BY <1>0, <2>1, <3>1, WaitsTail DEF Adds
        <5> QED BY <2>2, <5>1, <5>2, WaitsGrown
      <4> QED BY <4>1, <4>2
    <3> QED BY <3>2, <3>3
  <2> QED BY <2>3, <2>4
<1>5. req.pc \in {"idle", "flight", "backoff", "sent", "dropped"}
  BY <1>0 DEF TypeInv, ReqT
<1> QED BY <1>1, <1>2, <1>3, <1>4, <1>5

(* The order of the requests is kept by every step.                          *)
LEMMA CountStep == ASSUME Flow, Next PROVE CountInv'
<1>1. ASSUME syn'.pc \in {"flight", "removing"} PROVE NoCounts(idb')
  <2>1. ~Reload
    <3>1. Reload => syn' = IdleSyn
      BY DEF Reload
    <3>2. IdleSyn.pc = "idle"
      BY DEF IdleSyn
    <3> QED BY <1>1, <3>1, <3>2
  <2>2. syn.pc \in {"flight", "removing"} \/ (syn.pc = "reading" /\ syn'.pc # "reading")
    BY <1>1, SynMoved DEF SynMoves, IdleSyn, Flow, CoreInv
  <2> QED BY <2>1, <2>2, SyncCountless
<1> QED BY <1>1, SentCount, DroppedCount, ReadCount, CountsWait DEF CountInv

(***************************************************************************)
(* What is stored, and what is delivered, after a step.                      *)
(***************************************************************************)

(* What was stored and is still to be sent.                                  *)
Live == db \ pendingRemoval

(* How the stored answers change.                                            *)
Cleans == \E gone \in SUBSET pendingRemoval :
              /\ db' = db \ gone /\ pendingRemoval' = pendingRemoval \ gone
              /\ pendingDbIds' = pendingDbIds \ gone
(* A removal of a, or the note that it failed.                               *)
Removes(a) ==
    \/ db' = db \ {a} /\ pendingRemoval' = pendingRemoval \ {a}
    \/ db' = db /\ pendingRemoval' = pendingRemoval \cup {a}
(* The oldest write stores its answer.                                       *)
StoresHead ==
    LET a == Head(idb).n
    IN  db' = db \cup {a} /\ pendingDbIds' = pendingDbIds \cup {a} /\ pendingRemoval' = pendingRemoval

(* The moves of what is stored.                                              *)
MemoryMoves ==
    \/ UNCHANGED <<pendingDbIds, pendingRemoval, db>>
    \/ Reload /\ db' = db /\ pendingRemoval' = {} /\ pendingDbIds' = {}
    \/ Added /\ StoresHead
    \/ (Counted \/ EffectCounted \/ SyncRead) /\ Cleans
    \/ (SentRemoved \/ DroppedRemoved) /\ req.pc \in {"sent", "dropped"} /\ Removes(req.answer)
       /\ ForgetRemoved(req.answer)
    \/ SyncFails /\ UNCHANGED <<db, pendingRemoval>> /\ pendingDbIds' = pendingDbIds \ syn.done
    \/ SyncedRemoved /\ syn.pc = "removing" /\ Removes(syn.answer)

(* Every step makes one of the moves.                                        *)
LEMMA MemoryMoved == ASSUME TypeInv, Next, Storing' PROVE MemoryMoves
<1>1. CASE Reload
  BY <1>1 DEF Reload, MemoryMoves
<1>2. CASE Added
  <2>1. StoresHead
    BY <1>2, AddStored DEF StoresHead, Added
  <2> QED BY <1>2, <2>1 DEF MemoryMoves
<1>3. CASE Counted
  BY <1>3 DEF Counted, CleanUp, Cleans, MemoryMoves
<1>4. CASE EffectCounted
  BY <1>4 DEF EffectCounted, CleanUp, Cleans, MemoryMoves, memory
<1>5. CASE SyncRead
  BY <1>5 DEF SyncRead, CleanUp, Cleans, MemoryMoves
<1>6. CASE SentRemoved \/ DroppedRemoved
  BY <1>6 DEF SentRemoved, DroppedRemoved, RemoveStored, Removes, MemoryMoves
<1>7. CASE SyncFails
  BY <1>7 DEF SyncFails, MemoryMoves, storage
<1>8. CASE SyncedRemoved
  BY <1>8 DEF SyncedRemoved, RemoveStored, Removes, MemoryMoves
<1>9. CASE UNCHANGED <<pendingDbIds, pendingRemoval, db>>
  BY <1>9 DEF MemoryMoves
<1> QED BY <1>1, <1>2, <1>3, <1>4, <1>5, <1>6, <1>7, <1>8, <1>9, MemoryBy

(* An answer whose write settles is new to the store.                        *)
LEMMA AddedNew ==
    ASSUME Flow, Added
    PROVE  LET a == Head(idb).n IN a \in 1..asked /\ ~Written(a) /\ a \notin db /\ a \notin pendingRemoval
<1>1. Head(idb).n \in 1..asked /\ Adding(idb, Head(idb).n)
  <2>1. idb \in Seq(Request) /\ AddsUpTo(idb, asked) /\ asked \in Nat
    BY DEF Flow, CoreInv, TypeInv, IdbT, PageT
  <2>2. idb # <<>> /\ Head(idb).op = "add"
    BY DEF Added, Oldest
  <2> QED BY <2>1, <2>2, TailAdds
<1> QED BY <1>1 DEF Written, Flow, FlowInv, StoredInv

(* What is to be sent stays stored until its own sender removes it.          *)
LEMMA LiveStays ==
    ASSUME Flow, Next, Storing', NEW x \in Live,
           SentRemoved \/ DroppedRemoved => x # req.answer,
           SyncedRemoved => x # syn.answer
    PROVE  x \in Live'
<1>0. TypeInv
  BY DEF Flow, CoreInv
<1>1. CASE Added /\ StoresHead
  BY <1>1, AddedNew DEF Live, StoresHead
<1>2. CASE Cleans
  BY <1>2 DEF Live, Cleans
<1>3. ASSUME NEW a, Removes(a), x # a PROVE x \in Live'
  BY <1>3 DEF Live, Removes
<1>4. CASE UNCHANGED <<db, pendingRemoval>> \/ (db' = db /\ pendingRemoval' = {})
  BY <1>4 DEF Live
<1> QED BY <1>0, <1>1, <1>2, <1>3, <1>4, MemoryMoved DEF MemoryMoves

(* The cleanup removes nothing that is to be sent.                           *)
LEMMA LiveCleaned == ASSUME Cleans PROVE Live' = Live
  BY DEF Cleans, Live

(* Every step keeps what is stored written.                                  *)
LEMMA StoredStep == ASSUME Flow, Next, Storing' PROVE StoredInv'
<1>0. TypeInv /\ StoredInv /\ ProgressInv /\ SyncInv /\ SendInv
  BY DEF Flow, CoreInv, FlowInv
<1>1. \A a \in db : Written(a)'
  BY <1>0, WrittenStays DEF StoredInv
<1>2. CASE Added /\ StoresHead
  <2>1. PICK n : n = Head(idb).n /\ n \in 1..asked /\ UNCHANGED asked /\ ~Adding(idb', n)
    BY <1>0, <1>2, AddedNew, AddingMoved DEF AddingMoves
  <2>2. Written(n)'
    BY <2>1 DEF Written
  <2> QED BY <1>0, <1>1, <1>2, <2>1, <2>2 DEF StoredInv, StoresHead
<1>3. CASE Cleans
  BY <1>0, <1>1, <1>3 DEF StoredInv, Cleans
<1>4. ASSUME NEW a \in db, Removes(a) PROVE StoredInv'
  BY <1>0, <1>1, <1>4 DEF StoredInv, Removes
<1>5. CASE UNCHANGED <<db, pendingRemoval>> \/ (db' = db /\ pendingRemoval' = {})
  BY <1>0, <1>1, <1>5 DEF StoredInv
<1>6. (req.pc \in {"sent", "dropped"} => req.answer \in db) /\ (syn.pc = "removing" => syn.answer \in db)
  BY <1>0 DEF SendInv, SyncInv
<1> QED BY <1>0, <1>2, <1>3, <1>4, <1>5, <1>6, MemoryMoved DEF MemoryMoves

(* An answer leaves the store only when it is settled.                       *)
LEMMA SettledStep == ASSUME Flow, Next, Storing' PROVE SettledInv'
<1>0. TypeInv /\ StoredInv /\ ProgressInv /\ SyncInv /\ SendInv /\ SettledInv /\ asked \in Nat
  BY DEF Flow, CoreInv, FlowInv, TypeInv, PageT
<1>1. \A a : Settled(a) => Settled(a)'
  BY <1>0, SettledStays
<1>2. (req.pc \in {"sent", "dropped"} => Settled(req.answer)) /\ (syn.pc = "removing" => Settled(syn.answer))
  BY <1>0 DEF SendInv, SyncInv
<1>3. ASSUME NEW a \in db PROVE a \in db' \/ Settled(a)
  <2>1. CASE Added /\ StoresHead
    BY <1>3, <2>1 DEF StoresHead
  <2>2. CASE Cleans
    BY <1>0, <1>3, <2>2 DEF Cleans, SettledInv
  <2>3. ASSUME NEW c, Removes(c), Settled(c) PROVE a \in db' \/ Settled(a)
    BY <1>3, <2>3 DEF Removes
  <2>4. CASE db' = db
    BY <1>3, <2>4
  <2> QED BY <1>0, <1>2, <2>1, <2>2, <2>3, <2>4, MemoryMoved DEF MemoryMoves
<1>4. \A a \in pendingRemoval' : Settled(a)'
  <2>1. CASE Added /\ StoresHead
    BY <1>0, <1>1, <2>1 DEF StoresHead, SettledInv
  <2>2. CASE Cleans
    BY <1>0, <1>1, <2>2 DEF Cleans, SettledInv
  <2>3. ASSUME NEW c, Removes(c), Settled(c) PROVE \A a \in pendingRemoval' : Settled(a)'
    BY <1>0, <1>1, <2>3 DEF Removes, SettledInv
  <2>4. CASE pendingRemoval' = pendingRemoval \/ pendingRemoval' = {}
    BY <1>0, <1>1, <2>4 DEF SettledInv
  <2> QED BY <1>0, <1>2, <2>1, <2>2, <2>3, <2>4, MemoryMoved DEF MemoryMoves
<1>5. ASSUME NEW a \in 1..asked' PROVE Settled(a)' \/ a \in db' \/ Adding(idb', a)
  <2>1. ASSUME a \in 1..asked, Settled(a) \/ a \in db PROVE Settled(a)' \/ a \in db'
    BY <1>1, <1>3, <2>1
  <2>2. CASE Reload
    <3>1. a \in 1..asked /\ ~Adding(idb, a)
      BY <1>0, <1>5, <2>2, ReloadKeeps DEF Written
    <3> QED BY <1>0, <2>1, <3>1 DEF SettledInv
  <2>3. CASE Answer
    <3>1. a \in 1..asked \/ a = asked + 1
      BY <1>0, <1>5, <2>3, AddingMoved DEF AddingMoves
    <3>2. \A b : Adding(idb', b) <=> Adding(idb, b) \/ b = asked + 1
      BY <1>0, <2>3, AddingMoved DEF AddingMoves
    <3> QED BY <1>0, <2>1, <3>1, <3>2 DEF SettledInv
  <2>4. CASE Added
    <3>1. UNCHANGED asked /\ \A b : Adding(idb', b) <=> Adding(idb, b) /\ b # Head(idb).n
      BY <1>0, <2>4, AddingMoved DEF AddingMoves
    <3>2. Head(idb).n \in db'
      BY <1>0, <2>4, AddStored
    <3> QED BY <1>0, <1>5, <2>1, <3>1, <3>2 DEF SettledInv
  <2>5. CASE ~Answer /\ ~Added /\ ~Reload
    <3>1. UNCHANGED asked /\ \A b : Adding(idb', b) <=> Adding(idb, b)
      BY <1>0, <2>5, AddingMoved DEF AddingMoves
    <3> QED BY <1>0, <1>5, <2>1, <3>1 DEF SettledInv
  <2> QED BY <2>2, <2>3, <2>4, <2>5
<1> QED BY <1>4, <1>5 DEF SettledInv

(* Serving a request delivers all its answers.                               *)
LEMMA StoredDelivers ==
    ASSUME ApiTypeOK, NEW m \in Messages, m.response <= Len(responses), responses' = Stored(m)
    PROVE  \A a \in m.answers : Delivered(a)'
<1>0. Len(responses) \in Nat /\ DOMAIN responses = 1..Len(responses) /\ m.response \in Nat
  BY RowsTyped DEF Messages
<1>1. CASE m.response = 0
  <2>1. /\ Len(responses) + 1 \in DOMAIN responses'
        /\ responses'[Len(responses) + 1].answers = m.answers
    BY <1>0, <1>1, StoredRows
  <2> QED BY <2>1 DEF Delivered
<1>2. CASE m.response # 0
  <2>1. m.response \in DOMAIN responses
    BY <1>0, <1>2
  <2>2. /\ DOMAIN responses' = DOMAIN responses
        /\ responses'[m.response].answers = responses[m.response].answers \cup m.answers
    BY <1>2, <2>1, StoredRows
  <2> QED BY <2>1, <2>2 DEF Delivered
<1> QED BY <1>1, <1>2

(* No request carries an answer without the ones before it that are not      *)
(* settled.                                                                  *)
LEMMA FlightsBehind ==
    ASSUME Flow, NEW m \in InFlight \cup stray
    PROVE  m \in Messages /\ Behind(m.answers) /\ m.response <= Len(responses)
<1>1. m \in Messages
  BY FlightsTyped DEF Flow, CoreInv
<1>2. Behind(m.answers)
  BY DEF InFlight, Flow, FlowInv, SendInv, SyncInv, OrderInv
<1>3. m.response <= Len(responses)
  BY DEF InFlight, Flow, IdsKnown
<1> QED BY <1>1, <1>2, <1>3

(* What is served comes with, or after, the answers before it.               *)
LEMMA OrderStep == ASSUME Flow, Next PROVE OrderInv'
<1>0. TypeInv /\ OrderInv /\ ApiTypeOK
  BY DEF Flow, CoreInv, FlowInv, TypeInv, ApiT
<1>1. \A a : Settled(a) => Settled(a)'
  BY <1>0, SettledStays
<1>2. ASSUME NEW c \in Answers, Delivered(c)', NEW b \in 1..(c - 1) PROVE Settled(b)'
  <2>1. CASE Delivered(c)
    <3>1. Settled(b) \/ b \in {a \in Answers : Delivered(a)}
      BY <1>0, <1>2, <2>1 DEF OrderInv, Behind
    <3> QED BY <1>1, <3>1 DEF Settled
  <2>2. ASSUME NEW m \in InFlight \cup stray, c \in m.answers, responses' = Stored(m) PROVE Settled(b)'
    <3>1. m \in Messages /\ Behind(m.answers) /\ m.response <= Len(responses)
      BY <2>2, FlightsBehind
    <3>2. Settled(b) \/ b \in m.answers
      BY <2>2, <3>1 DEF Behind
    <3>3. \A a \in m.answers : Delivered(a)'
      BY <1>0, <2>2, <3>1, StoredDelivers
    <3> QED BY <1>1, <3>2, <3>3 DEF Settled
  <2> QED BY <1>0, <1>2, <2>1, <2>2, RowsStep
<1>3. Behind({a \in Answers : Delivered(a)})'
  BY <1>2 DEF Behind
<1>4. ASSUME NEW m \in stray' PROVE Behind(m.answers)'
  <2>1. stray' \subseteq stray \cup InFlight
    BY <1>0, StrayBy DEF Reload, StartOver, Restore, StrayArrives
  <2>2. Behind(m.answers)
    BY <1>4, <2>1, FlightsBehind
  <2> QED BY <1>1, <2>2 DEF Behind
<1> QED BY <1>3, <1>4 DEF OrderInv

(***************************************************************************)
(* What processQueue sends.                                                  *)
(***************************************************************************)

(* With both locks free, nothing is under way.                               *)
LEMMA FreeIdle ==
    ASSUME CoreInv, ~isSyncing, ~isRequestInProgress
    PROVE  syn.pc = "idle" /\ req.pc = "idle"
  BY DEF CoreInv, SenderInv

(* An answer that was written comes after written answers only.              *)
LEMMA WrittenBefore ==
    ASSUME TypeInv, NEW a, Written(a), NEW b \in 1..(a - 1)
    PROVE  Written(b)
<1>1. asked \in Nat /\ a \in 1..asked /\ ~Adding(idb, a) /\ AddsUpTo(idb, asked)
  BY DEF TypeInv, PageT, IdbT, Written
<1>2. b \in 1..asked /\ b <= a
  BY <1>1
<1> QED BY <1>1, <1>2 DEF AddsUpTo, Written

(* When nothing else is stored, everything before is settled.                *)
LEMMA AloneSettled ==
    ASSUME Flow, NEW a, Written(a), NEW b \in 1..(a - 1), b \notin Live
    PROVE  Settled(b)
<1>1. Written(b)
  BY WrittenBefore DEF Flow, CoreInv
<1> QED BY <1>1 DEF Written, Live, Flow, FlowInv, SettledInv

LEMMA CleanedFinite ==
    ASSUME Flow, Cleans, ~(Cardinality(db') > Cardinality(pendingRemoval') + 1), NEW h \in Live
    PROVE  Live = {h}
<1>0. db' \subseteq Answers /\ pendingRemoval' \subseteq db'
  BY DEF Flow, CoreInv, TypeInv, MemoryT, Cleans, FlowInv, StoredInv
<1>1. IsFiniteSet(Answers)
  BY NumAnswersAssumption, FS_Interval DEF Answers
<1>2. IsFiniteSet(db') /\ IsFiniteSet(pendingRemoval')
  BY <1>0, <1>1, FS_Subset
<1>3. Live = db' \ pendingRemoval'
  BY LiveCleaned DEF Live
<1>4. SUFFICES ASSUME NEW x \in Live, x # h PROVE FALSE
  OBVIOUS
<1> DEFINE one == pendingRemoval' \cup {h}
           two == one \cup {x}
<1>5. IsFiniteSet(one) /\ Cardinality(one) = Cardinality(pendingRemoval') + 1
  BY <1>2, <1>3, FS_AddElement
<1>6. x \notin one
  BY <1>3, <1>4
<1>7. IsFiniteSet(two) /\ Cardinality(two) = Cardinality(one) + 1
  BY <1>5, <1>6, FS_AddElement
<1>8. two \subseteq db'
  BY <1>0, <1>3, <1>4
<1>9. Cardinality(two) <= Cardinality(db')
  BY <1>2, <1>8, FS_Subset
<1>10. Cardinality(pendingRemoval') \in Nat /\ Cardinality(db') \in Nat
  BY <1>2, FS_CardinalityType
<1> HIDE DEF one, two
<1> QED BY <1>5, <1>7, <1>9, <1>10

(* processQueue sends the head only when nothing else is stored: what was    *)
(* given before is settled.                                                  *)
LEMMA HeadNext ==
    ASSUME Flow, Counted, ~isSyncing, ~isRequestInProgress, queue # <<>>,
           ~(Cardinality(db') > Cardinality(pendingRemoval') + 1)
    PROVE  LET h == Head(queue)
           IN  h \in Answers /\ Written(h) /\ \A b \in 1..(h - 1) : Settled(b)
<1> DEFINE h == Head(queue)
<1>0. /\ idb \in Seq(Request) /\ queue \in Seq(Answers) /\ \A x : Elem(queue, x) => x \in 1..asked
      /\ syn.pc = "idle" /\ req.pc = "idle"
  BY FreeIdle DEF Flow, CoreInv, TypeInv, IdbT, QueueT
<1>1. h \in Answers /\ h \in 1..asked
  BY <1>0, HeadQueued
<1>2. idb # <<>> /\ Head(idb).op \in Counts
  BY DEF Counted, Counting, Oldest, Counts
<1>3. Waits(idb, h)
  <2>1. NoCounts(idb) \/ Waits(idb, h)
    BY <1>0 DEF Flow, FlowInv, CountInv
  <2>2. ~NoCounts(idb)
    BY <1>0, <1>2, TailAt DEF NoCounts
  <2> QED BY <2>1, <2>2
<1>4. ~Adding(idb, h)
  BY <1>0, <1>2, <1>3, WaitsTail
<1>5. Written(h) /\ h \in Live
  BY <1>0, <1>1, <1>4, HeadStored DEF Written, Live
<1>6. Live = {h}
  <2>1. Cleans
    BY DEF Counted, CleanUp, Cleans
  <2> QED BY <1>5, <2>1, CleanedFinite
<1>7. ASSUME NEW b \in 1..(h - 1) PROVE Settled(b)
  <2>1. b \notin Live
    BY <1>1, <1>6, <1>7 DEF Answers
  <2> QED BY <1>5, <1>7, <2>1, AloneSettled
<1> QED BY <1>1, <1>5, <1>7

(* A request for an answer carries it, and what is not settled before it.    *)
LEMMA MessageBehind ==
    ASSUME asked \in Nat, NEW a \in 1..asked, NEW st, \A b \in 1..(a - 1) : Settled(b)'
    PROVE  LET m == Message(a, st)
           IN  /\ a \in m.answers
               /\ \A c \in m.answers : \A b \in 1..(c - 1) : Settled(b)' \/ b \in m.answers
<1>1. Message(a, st).answers = IF st.responseId = 0 /\ st.bootstrap THEN 1..asked ELSE {a}
  BY DEF Message
<1>2. CASE Message(a, st).answers = 1..asked
  BY <1>2
<1>3. CASE Message(a, st).answers = {a}
  BY <1>3
<1> QED BY <1>1, <1>2, <1>3

(* A sender's request is served, or refused: its answer is settled.          *)
LEMMA FlightSettled ==
    ASSUME Flow, NEW m \in InFlight, Accept(m) \/ Refuse(m) \/ Suspect(m, TRUE)
    PROVE  \A a \in m.answers : Settled(a)'
<1>0. m \in Messages /\ m.response <= Len(responses) /\ ApiTypeOK
  BY FlightsBehind DEF Flow, CoreInv, TypeInv, ApiT
<1>1. CASE Accept(m)
  BY <1>0, <1>1, StoredDelivers DEF Accept, Settled
<1>2. CASE Refuse(m) \/ Suspect(m, TRUE)
  BY <1>2 DEF Refuse, Suspect, Settled
<1> QED BY <1>1, <1>2

(* The invariant of processQueue is kept by every step.                      *)
LEMMA SendStep == ASSUME Flow, Next, Storing' PROVE SendInv'
<1>0. /\ TypeInv /\ ProgressInv /\ SendInv /\ StoredInv /\ SenderInv /\ CoreInv /\ asked \in Nat
      /\ queue \in Seq(Answers) /\ Sorted(queue) /\ \A x : Elem(queue, x) => x \in 1..asked
  BY DEF Flow, CoreInv, FlowInv, TypeInv, PageT, QueueT
<1>1. \A a : Settled(a) => Settled(a)'
  BY <1>0, SettledStays
<1>2. \A a : Written(a) => Written(a)'
  BY <1>0, WrittenStays
<1>3. CASE UNCHANGED req
  <2>1. req.pc \in {"flight", "backoff"} =>
            Written(req.answer)' /\ \A b \in 1..(req.answer - 1) : Settled(b)'
    BY <1>0, <1>1, <1>2, <1>3 DEF SendInv
  <2>2. req.pc = "flight" => req.answer \in req.msg.answers /\ Behind(req.msg.answers)'
    BY <1>0, <1>1, <1>3 DEF SendInv, Behind
  <2>3. ASSUME req.pc \in {"sent", "dropped"}, NEW a, a = req.answer
        PROVE  a \in Live' /\ ~Elem(queue', a) /\ Settled(a)'
    <3>1. a \in Live /\ ~Elem(queue, a) /\ Settled(a) /\ Written(a)
      BY <1>0, <2>3 DEF SendInv, Live, StoredInv
    <3>2. ~SentRemoved /\ ~DroppedRemoved /\ ~Reload
      <4>1. req' # IdleReq
        BY <1>3, <2>3 DEF IdleReq
      <4> QED BY <4>1 DEF SentRemoved, DroppedRemoved, Succeeded, Reload
    <3>3. ~SendOk /\ ~SendRefused
      BY <2>3 DEF SendOk, SendRefused
    <3>4. ~SyncRead /\ ~SyncFails /\ ~SyncedRemoved
      BY <1>0, <2>3 DEF SenderInv, SyncRead, SyncFails, SyncedRemoved
    <3>5. a \in Live'
      BY <3>1, <3>2, <3>4, LiveStays
    <3>6. ~Elem(queue', a)
      <4>1. CASE UNCHANGED queue
        BY <3>1, <4>1 DEF Elem
      <4>2. CASE Answer
        <5>1. queue' = Append(queue, asked + 1) /\ asked + 1 \in Answers
          BY <1>0, <4>2, NumAnswersAssumption DEF Answer, Answers, TypeInv, PageT
        <5>2. a # asked + 1
          BY <1>0, <3>1 DEF Written
        <5> QED BY <1>0, <3>1, <5>1, <5>2, ElemAppended
      <4> QED BY <3>2, <3>3, <3>4, <4>1, <4>2, QueueBy
    <3> QED BY <1>1, <3>1, <3>5, <3>6
  <2> QED BY <1>3, <2>1, <2>2, <2>3 DEF SendInv, Behind, Written, Settled, Delivered, Live
<1>4. CASE req' = IdleReq
  BY <1>4 DEF SendInv, IdleReq
<1>5. CASE (SendOk /\ Leaves("sent")) \/ (SendRefused /\ Leaves("dropped"))
  <2>1. /\ req.pc = "flight" /\ req'.answer = req.answer /\ req'.pc \in {"sent", "dropped"}
        /\ queue' = Tail(queue) /\ UNCHANGED <<db, pendingRemoval>>
    <3>1. CASE SendOk /\ Leaves("sent")
      BY <3>1 DEF Leaves, SendOk, storage
    <3>2. CASE SendRefused /\ Leaves("dropped")
      <4>1. online
        BY <3>2 DEF Leaves, SendRefused, Failed, IdleReq
      <4> QED BY <3>2, <4>1 DEF Leaves, SendRefused, storage
    <3> QED BY <1>5, <3>1, <3>2
  <2>2. req.answer \in db \ pendingRemoval /\ queue # <<>> /\ Head(queue) = req.answer
    BY <2>1, SentStored
  <2>3. ~Elem(queue', req.answer)
    <3>1. \A x : Elem(Tail(queue), x) => Head(queue) < x
      BY <1>0, <2>2, SortedTailed
    <3>2. Head(queue) \in Nat
      BY <1>0, <2>2, HeadQueued DEF Answers
    <3> QED BY <2>1, <2>2, <3>1, <3>2
  <2>4. ASSUME NEW a, a = req.answer PROVE Settled(a)'
    <3>1. req.msg \in InFlight /\ req.answer \in req.msg.answers
      BY <1>0, <2>1 DEF InFlight, SendInv
    <3>2. Accept(req.msg) \/ Refuse(req.msg)
      BY <1>5 DEF SendOk, SendRefused
    <3> QED BY <2>4, <3>1, <3>2, FlightSettled
  <2>5. req'.answer \in db' \ pendingRemoval' /\ ~Elem(queue', req'.answer)
    BY <2>1, <2>2, <2>3
  <2> QED BY <2>1, <2>4, <2>5 DEF SendInv, Settled, Delivered
<1>6. CASE SendFails /\ Leaves("backoff")
  <2>1. req.pc = "flight" /\ req'.answer = req.answer /\ req'.pc = "backoff"
    BY <1>6 DEF Leaves
  <2>2. PICK a : a = req.answer
    OBVIOUS
  <2>3. Written(a) /\ \A b \in 1..(a - 1) : Settled(b)
    BY <1>0, <2>1, <2>2 DEF SendInv
  <2>4. Written(a)' /\ \A b \in 1..(a - 1) : Settled(b)'
    BY <1>1, <1>2, <2>3
  <2> QED BY <2>1, <2>2, <2>4 DEF SendInv, Written
<1>7. ASSUME NEW a, Sends(a, surveyState), Written(a), \A b \in 1..(a - 1) : Settled(b) PROVE SendInv'
  <2>1. a \in 1..asked
    BY <1>7 DEF Written
  <2>2. \A b \in 1..(a - 1) : Settled(b)'
    BY <1>1, <1>7
  <2>3. a \in req'.msg.answers /\ \A c \in req'.msg.answers : \A b \in 1..(c - 1) : Settled(b)' \/ b \in req'.msg.answers
    BY <1>0, <1>7, <2>1, <2>2, MessageBehind DEF Sends
  <2>4. req'.pc = "flight" /\ req'.answer = a
    BY <1>7 DEF Sends
  <2>5. Written(a)'
    BY <1>2, <1>7
  <2> QED BY <2>2, <2>3, <2>4, <2>5 DEF SendInv, Behind, Written
<1>8. CASE Counted /\ queue # <<>> /\ ~isSyncing /\ ~isRequestInProgress /\ Sends(Head(queue), surveyState)
           /\ ~(Cardinality(db') > Cardinality(pendingRemoval') + 1)
  BY <1>7, <1>8, HeadNext
<1>9. CASE Resend /\ req.pc = "backoff" /\ Sends(req.answer, surveyState)
  BY <1>0, <1>7, <1>9 DEF SendInv
<1> QED BY <1>0, <1>3, <1>4, <1>5, <1>6, <1>8, <1>9, ReqMoved DEF ReqMoves

(***************************************************************************)
(* What a sync sends.                                                        *)
(***************************************************************************)

(* A settled removal ends the sync, or leads it to its next answer.          *)
LEMMA SyncedGoes ==
    ASSUME TypeInv, SyncedRemoved
    PROVE  /\ syn.pc = "removing"
           /\ \/ EndSync(syn.done \cup {syn.answer})
              \/ syn.answer \notin pendingRemoval' /\ GoesOn(syn.todo, syn.done \cup {syn.answer})
           /\ pendingDbIds' = pendingDbIds
              \/ (pendingDbIds' = pendingDbIds \ (syn.done \cup {syn.answer}) /\ EndSync(syn.done \cup {syn.answer}))
           /\ EndSync(syn.done \cup {syn.answer}) => pendingDbIds' = pendingDbIds \ (syn.done \cup {syn.answer})
<1>1. syn.todo \in SUBSET Answers /\ syn.pc = "removing"
  BY DEF TypeInv, SynT, SyncedRemoved
<1>2. CASE syn.answer \in pendingRemoval'
  BY <1>1, <1>2 DEF SyncedRemoved
<1>3. CASE syn.answer \notin pendingRemoval'
  <2>1. SyncNext(syn.todo, syn.done \cup {syn.answer}, Tail(idb))
        /\ pendingDbIds' = IF syn.todo = {} THEN pendingDbIds \ (syn.done \cup {syn.answer}) ELSE pendingDbIds
    BY <1>3 DEF SyncedRemoved
  <2>2. (syn.todo = {} /\ EndSync(syn.done \cup {syn.answer})) \/ GoesOn(syn.todo, syn.done \cup {syn.answer})
    BY <1>1, <2>1, NextGoesOn
  <2>3. GoesOn(syn.todo, syn.done \cup {syn.answer}) => syn.todo # {} /\ ~EndSync(syn.done \cup {syn.answer})
    BY DEF GoesOn, EndSync, IdleSyn
  <2> QED BY <1>1, <1>3, <2>1, <2>2, <2>3
<1> QED BY <1>2, <1>3

LEMMA SyncKeeps ==
    ASSUME Flow, Next, Storing'
    PROVE  \A a : (Written(a) /\ Settled(a) /\ a \notin db => (Written(a) /\ Settled(a) /\ a \notin db)')
<1> SUFFICES ASSUME NEW a, Written(a), Settled(a), a \notin db PROVE Written(a)' /\ Settled(a)' /\ a \notin db'
  OBVIOUS
<1>0. TypeInv /\ ProgressInv
  BY DEF Flow, CoreInv
<1>1. Written(a)' /\ Settled(a)'
  BY <1>0, WrittenStays, SettledStays
<1>2. a \notin db'
  <2>1. Added => a # Head(idb).n
    BY AddedNew
  <2> QED BY <1>0, <2>1, MemoryMoved DEF MemoryMoves, StoresHead, Cleans, Removes
<1> QED BY <1>1, <1>2

(* The next answer of a sync, when all before the ones to send is settled.   *)
LEMMA GoesBehind ==
    ASSUME TypeInv, NEW todo, NEW done, GoesOn(todo, done), todo \subseteq 1..asked,
           \A c \in todo : \A b \in 1..(c - 1) : Settled(b)' \/ b \in todo
    PROVE  /\ syn'.answer \in todo /\ syn'.todo \subseteq todo
           /\ \A c \in syn'.todo : c > syn'.answer
           /\ Behind(syn.todo \cup {syn.answer})'
           /\ syn'.answer \in syn'.msg.answers /\ Behind(syn.msg.answers)'
<1>0. asked \in Nat
  BY DEF TypeInv, PageT
<1>1. PICK a : /\ a = Earliest(todo) /\ a \in todo /\ \A b \in todo : a <= b
               /\ syn'.todo = todo \ {a} /\ syn'.answer = a /\ syn'.msg = Message(a, surveyState')
  BY DEF GoesOn
<1>2. ASSUME NEW b \in 1..(a - 1) PROVE Settled(b)'
  <2>1. b \notin todo
    BY <1>0, <1>1, <1>2
  <2> QED BY <1>1, <1>2, <2>1
<1>3. a \in syn'.msg.answers /\ \A c \in syn'.msg.answers : \A b \in 1..(c - 1) : Settled(b)' \/ b \in syn'.msg.answers
  BY <1>0, <1>1, <1>2, MessageBehind
<1>4. ASSUME NEW c \in syn'.todo PROVE c > a
  <2>1. c \in todo /\ c # a /\ a <= c
    BY <1>1, <1>4
  <2>2. c \in Nat /\ a \in Nat
    BY <1>0, <1>1, <2>1
  <2> QED BY <2>1, <2>2
<1>5. syn'.todo \cup {a} = todo
  BY <1>1
<1> QED BY <1>1, <1>3, <1>4, <1>5 DEF Behind

LEMMA ReadBehind ==
    ASSUME Flow, Next, Cleans, Storing'
    PROVE  /\ Live' \subseteq 1..asked
           /\ \A c \in Live' : \A b \in 1..(c - 1) : Settled(b)' \/ b \in Live'
<1>0. TypeInv /\ Live' = Live /\ (\A a : Settled(a) => Settled(a)')
  BY LiveCleaned, SettledStays DEF Flow, CoreInv
<1>1. \A c \in Live : Written(c)
  BY DEF Live, Flow, FlowInv, StoredInv
<1>2. ASSUME NEW c \in Live, NEW b \in 1..(c - 1), b \notin Live PROVE Settled(b)
  BY <1>1, <1>2, AloneSettled
<1> QED BY <1>0, <1>1, <1>2 DEF Written

(* The invariant of a sync is kept by every step.                            *)
LEMMA SyncStepHolds == ASSUME Flow, Next, Storing' PROVE SyncInv'
<1>0. /\ TypeInv /\ CoreInv /\ ProgressInv /\ SyncInv /\ StoredInv /\ SenderInv /\ asked \in Nat
      /\ syn.pc \in {"idle", "reading", "flight", "removing"}
  BY DEF Flow, CoreInv, FlowInv, TypeInv, PageT, SynT
<1>1. \A a : Settled(a) => Settled(a)'
  BY <1>0, SettledStays
<1>2. \A a \in syn.done : (Written(a) /\ Settled(a) /\ a \notin db)'
  BY <1>0, SyncKeeps DEF SyncInv
<1>a. syn.pc \in {"flight", "removing"} => syn.answer \in Live /\ syn.todo \subseteq Live
  BY <1>0 DEF SyncInv, Live
<1>3. ASSUME syn.pc \in {"flight", "removing"}, ~SyncedRemoved, NEW x \in Live PROVE x \in db' \ pendingRemoval'
  <2>1. ~SentRemoved /\ ~DroppedRemoved
    BY <1>0, <1>3 DEF SenderInv, SentRemoved, DroppedRemoved
  <2> QED BY <1>3, <2>1, LiveStays DEF Live
<1>4. CASE UNCHANGED syn
  <2>1. syn.pc \in {"flight", "removing"} =>
            /\ syn'.answer \in db' \ pendingRemoval' /\ syn'.todo \subseteq db' \ pendingRemoval'
            /\ \A c \in syn'.todo : c > syn'.answer
            /\ Behind(syn.todo \cup {syn.answer})'
    <3>1. ~SyncedRemoved
      <4>1. SyncedRemoved => syn.pc = "removing" /\ syn'.pc # "removing"
        <5>1. IdleSyn.pc = "idle" /\ (EndSync(syn.done \cup {syn.answer}) => syn' = IdleSyn)
          BY DEF IdleSyn, EndSync
        <5>2. GoesOn(syn.todo, syn.done \cup {syn.answer}) => syn'.pc = "flight"
          BY DEF GoesOn
        <5> QED BY <1>0, <5>1, <5>2, SyncedGoes
      <4> QED BY <1>4, <4>1
    <3>2. ASSUME syn.pc \in {"flight", "removing"} PROVE Behind(syn.todo \cup {syn.answer})'
      <4>1. Behind(syn.todo \cup {syn.answer})
        BY <1>0, <3>2 DEF SyncInv
      <4> QED BY <1>1, <1>4, <4>1 DEF Behind
    <3> QED BY <1>0, <1>a, <1>3, <1>4, <3>1, <3>2 DEF SyncInv
  <2>2. syn.pc = "flight" => syn'.answer \in syn'.msg.answers /\ Behind(syn.msg.answers)'
    BY <1>0, <1>1, <1>4 DEF SyncInv, Behind
  <2>3. ASSUME syn.pc = "removing" PROVE Settled(syn.answer)'
    <3>1. PICK a : a = syn.answer /\ a = syn'.answer
      BY <1>4
    <3>2. Settled(a)'
      BY <1>0, <1>1, <2>3, <3>1 DEF SyncInv
    <3> QED BY <3>1, <3>2 DEF Settled, Delivered
  <2> QED BY <1>0, <1>2, <1>4, <2>1, <2>2, <2>3 DEF SyncInv
<1>5. CASE syn' = IdleSyn
  BY <1>5 DEF SyncInv, IdleSyn
<1>6. CASE syn'.pc = "reading" /\ syn'.todo = {} /\ syn'.done = {} /\ syn'.msg = NoMessage
  BY <1>6 DEF SyncInv
<1>7. CASE SyncRead /\ syn.pc = "reading" /\ CleanUp /\ GoesOn(db' \ pendingRemoval', {})
  <2>1. Cleans
    BY <1>7 DEF CleanUp, Cleans
  <2>2. /\ db' \ pendingRemoval' \subseteq 1..asked
        /\ \A c \in db' \ pendingRemoval' : \A b \in 1..(c - 1) : Settled(b)' \/ b \in db' \ pendingRemoval'
    BY <2>1, ReadBehind DEF Live
  <2>3. /\ syn'.answer \in db' \ pendingRemoval' /\ syn'.todo \subseteq db' \ pendingRemoval'
        /\ \A c \in syn'.todo : c > syn'.answer
        /\ Behind(syn.todo \cup {syn.answer})'
        /\ syn'.answer \in syn'.msg.answers /\ Behind(syn.msg.answers)'
    BY <1>0, <1>7, <2>2, GoesBehind
  <2>4. syn'.pc = "flight" /\ syn'.done = {}
    BY <1>7 DEF GoesOn
  <2> QED BY <2>3, <2>4 DEF SyncInv
<1>8. CASE /\ SyncedRemoved /\ syn.pc = "removing" /\ GoesOn(syn.todo, syn.done \cup {syn.answer})
           /\ syn.answer \notin pendingRemoval'
  <2>1. PICK a : a = syn.answer
    OBVIOUS
  <2>2. /\ a \in Live /\ Settled(a) /\ syn.todo \subseteq Live /\ \A c \in syn.todo : c > a
        /\ Behind(syn.todo \cup {a})
    BY <1>0, <1>8, <2>1 DEF SyncInv, Live
  <2>3. a \in Nat
    BY <1>0, <2>2 DEF Live, StoredInv, Written
  <2>4. ASSUME NEW x \in syn.todo PROVE x \in db' \ pendingRemoval' /\ x \in 1..asked
    <3>1. x # a /\ x \in Live
      BY <2>2, <2>3
    <3>2. ~SentRemoved /\ ~DroppedRemoved
      BY <1>0, <1>8 DEF SenderInv, SentRemoved, DroppedRemoved
    <3> QED BY <1>0, <2>1, <3>1, <3>2, LiveStays DEF Live, StoredInv, Written
  <2>5. \A c \in syn.todo : \A b \in 1..(c - 1) : Settled(b)' \/ b \in syn.todo
    BY <1>1, <2>2 DEF Behind
  <2>6. /\ syn'.answer \in syn.todo /\ syn'.todo \subseteq syn.todo
        /\ \A c \in syn'.todo : c > syn'.answer
        /\ Behind(syn.todo \cup {syn.answer})'
        /\ syn'.answer \in syn'.msg.answers /\ Behind(syn.msg.answers)'
    <3>1. syn.todo \subseteq 1..asked
      BY <2>4
    <3> QED BY <1>0, <1>8, <2>5, <3>1, GoesBehind
  <2>7. syn'.pc = "flight" /\ syn'.done = syn.done \cup {a}
    BY <1>8, <2>1 DEF GoesOn
  <2>8. (Written(a) /\ Settled(a) /\ a \notin db)'
    <3>1. a \notin db'
      BY <1>0, <1>8, <2>1 DEF SyncedRemoved, RemoveStored
    <3>2. Written(a)'
      BY <1>0, <2>2, WrittenStays DEF Live, StoredInv
    <3> QED BY <1>1, <2>2, <3>1, <3>2
  <2> QED BY <1>2, <2>4, <2>6, <2>7, <2>8 DEF SyncInv
<1>9. CASE /\ SyncOk \/ SyncRefused
           /\ syn.pc = "flight" /\ syn'.pc = "removing" /\ syn'.answer = syn.answer
           /\ syn'.todo = syn.todo /\ syn'.done = syn.done /\ syn'.msg = NoMessage
  <2>1. PICK a : a = syn.answer
    OBVIOUS
  <2>2. Settled(a)'
    <3>1. syn.msg \in InFlight /\ a \in syn.msg.answers
      BY <1>0, <1>9, <2>1 DEF InFlight, SyncInv
    <3>2. Accept(syn.msg) \/ Refuse(syn.msg) \/ Suspect(syn.msg, TRUE)
      BY <1>9 DEF SyncOk, SyncRefused
    <3> QED BY <3>1, <3>2, FlightSettled
  <2>3. Behind(syn.todo \cup {syn.answer})'
    <3>1. Behind(syn.todo \cup {syn.answer})
      BY <1>0, <1>9 DEF SyncInv
    <3> QED BY <1>1, <1>9, <3>1 DEF Behind
  <2>4. ~SyncedRemoved
    BY <1>9 DEF SyncedRemoved
  <2>5. /\ syn'.answer \in db' \ pendingRemoval' /\ syn'.todo \subseteq db' \ pendingRemoval'
        /\ \A c \in syn'.todo : c > syn'.answer
    BY <1>0, <1>a, <1>3, <1>9, <2>4 DEF SyncInv
  <2>6. Settled(syn.answer)'
    BY <1>9, <2>1, <2>2 DEF Settled, Delivered
  <2> QED BY <1>2, <1>9, <2>3, <2>5, <2>6 DEF SyncInv
<1>10. CASE /\ SyncNotFound
            /\ syn.pc = "flight" /\ syn'.pc = "flight" /\ syn'.answer = syn.answer
            /\ syn'.todo = syn.todo /\ syn'.done = syn.done /\ syn'.msg = Message(syn.answer, surveyState')
  <2>1. PICK a : a = syn.answer
    OBVIOUS
  <2>2. a \in 1..asked /\ a \in Live /\ Behind(syn.todo \cup {a}) /\ \A c \in syn.todo : c > a /\ c \in Nat
    BY <1>0, <1>10, <2>1 DEF SyncInv, Live, StoredInv, Written
  <2>3. ASSUME NEW b \in 1..(a - 1) PROVE Settled(b)'
    <3>1. b \notin syn.todo \cup {a}
      BY <1>0, <2>2, <2>3
    <3>2. Settled(b)
      BY <2>2, <2>3, <3>1 DEF Behind
    <3> QED BY <1>1, <3>2
  <2>4. a \in syn'.msg.answers /\ \A c \in syn'.msg.answers : \A b \in 1..(c - 1) : Settled(b)' \/ b \in syn'.msg.answers
    BY <1>0, <1>10, <2>1, <2>2, <2>3, MessageBehind
  <2>5. Behind(syn.todo \cup {syn.answer})'
    BY <1>1, <1>10, <2>1, <2>2 DEF Behind
  <2>6. ~SyncedRemoved
    BY <1>10 DEF SyncedRemoved
  <2>7. /\ syn'.answer \in db' \ pendingRemoval' /\ syn'.todo \subseteq db' \ pendingRemoval'
        /\ \A c \in syn'.todo : c > syn'.answer
    BY <1>0, <1>a, <1>3, <1>10, <2>6 DEF SyncInv
  <2> QED BY <1>2, <1>10, <2>1, <2>4, <2>5, <2>7 DEF SyncInv, Behind
<1> QED BY <1>0, <1>4, <1>5, <1>6, <1>7, <1>8, <1>9, <1>10, SynMoved DEF SynMoves

(***************************************************************************)
(* What is queued; the order holds.                                          *)
(***************************************************************************)

(* What is queued was queued before, or is the answer just given.            *)
LEMMA QueuedBefore ==
    ASSUME TypeInv, HeadIsSent, Next, ~Reload, NEW x, Elem(queue', x)
    PROVE  Elem(queue, x) \/ (Answer /\ x = asked + 1)
<1>0. queue \in Seq(Answers) /\ Sorted(queue) /\ asked \in Nat
  BY DEF TypeInv, QueueT, PageT
<1>1. CASE UNCHANGED queue
  BY <1>1 DEF Elem
<1>2. CASE Answer
  <2>1. asked + 1 \in Answers /\ queue' = Append(queue, asked + 1)
    BY <1>0, <1>2, NumAnswersAssumption DEF Answer, Answers, TypeInv, PageT
  <2> QED BY <1>0, <1>2, <2>1, ElemAppended
<1>3. CASE queue # <<>> /\ queue' = Tail(queue)
  BY <1>0, <1>3, ElemTailed
<1>4. CASE SendOk \/ SendRefused
  <2>1. queue # <<>> /\ (queue' = Tail(queue) \/ UNCHANGED queue)
    BY <1>4 DEF SendOk, SendRefused, HeadIsSent
  <2> QED BY <1>1, <1>3, <2>1
<1>5. CASE SyncRead \/ SyncFails \/ SyncedRemoved
  <2>1. UNCHANGED queue \/ \E done : queue' = Unprocessed(done)
    BY <1>5, SyncQueue DEF SyncRead, SyncFails, SyncedRemoved, EndSync
  <2> QED BY <1>0, <1>1, <2>1, UnprocessedLeft
<1> QED BY <1>1, <1>2, <1>4, <1>5, QueueBy

(* A sync that ends drops from the queue what it is done with.               *)
LEMMA EndedQueue ==
    ASSUME TypeInv, NEW done, EndSync(done), NEW x, Elem(queue', x)
    PROVE  Elem(queue, x) /\ ~(x \in pendingDbIds /\ x \in done) /\ syn'.done = {}
<1>1. queue \in Seq(Answers) /\ Sorted(queue)
  BY DEF TypeInv, QueueT
<1> QED BY <1>1, UnprocessedLeft DEF EndSync, IdleSyn

(* The invariant of the queue is kept by every step.                         *)
LEMMA QueuedStep == ASSUME Flow, Next, Storing' PROVE QueuedInv'
<1>0. /\ TypeInv /\ CoreInv /\ SyncInv /\ SendInv /\ StoredInv /\ SenderInv /\ QueuedInv
      /\ HeadIsSent
  BY DEF Flow, CoreInv, FlowInv
<1> SUFFICES ASSUME NEW x \in Answers, Elem(queue', x)
             PROVE  Adding(idb', x) \/ (x \in pendingDbIds' /\ x \in Live' \cup syn'.done)
  BY DEF QueuedInv, Live
<1>1. CASE Reload
  <2>1. queue' = <<>>
    BY <1>1 DEF Reload
  <2> QED BY <2>1 DEF Elem
<1>2. CASE Answer /\ x = asked + 1
  BY <1>0, <1>2, AddingMoved DEF AddingMoves
<1>3. CASE ~Reload /\ Elem(queue, x) /\ Adding(idb, x)
  <2>1. CASE Added /\ x = Head(idb).n
    BY <1>0, <2>1, AddStored, AddedNew DEF Live, Added
  <2>2. CASE ~(Added /\ x = Head(idb).n)
    BY <1>0, <1>3, <2>2, AddingMoved DEF AddingMoves
  <2> QED BY <2>1, <2>2
<1>4. CASE ~Reload /\ Elem(queue, x) /\ x \in pendingDbIds /\ x \in Live \cup syn.done
  <2>0. x \in syn.done => x \notin db /\ x \notin pendingRemoval
    BY <1>0 DEF SyncInv, StoredInv
  <2>1. CASE SyncedRemoved
    <3> DEFINE done == syn.done \cup {syn.answer}
    <3>1. ~SentRemoved /\ ~DroppedRemoved
      BY <1>0, <2>1 DEF SenderInv, SentRemoved, DroppedRemoved, SyncedRemoved
    <3>2. x \in Live /\ x # syn.answer => x \in Live'
      BY <2>1, <3>1, LiveStays
    <3>3. CASE EndSync(done)
      <4>1. x \notin done
        BY <1>0, <1>4, <3>3, EndedQueue
      <4>2. pendingDbIds' = pendingDbIds \ done
        BY <1>0, <2>1, <3>3, SyncedGoes
      <4> QED BY <1>4, <3>2, <4>1, <4>2
    <3>4. CASE GoesOn(syn.todo, done) /\ ~EndSync(done)
      <4>1. pendingDbIds' = pendingDbIds /\ syn'.done = done
        BY <1>0, <2>1, <3>4, SyncedGoes DEF GoesOn
      <4> QED BY <1>4, <3>2, <4>1
    <3> QED BY <1>0, <2>1, <3>3, <3>4, SyncedGoes
  <2>2. CASE SyncFails
    <3>1. EndSync(syn.done) /\ pendingDbIds' = pendingDbIds \ syn.done /\ UNCHANGED <<db, pendingRemoval>>
      BY <2>2 DEF SyncFails, storage
    <3>2. x \notin syn.done
      BY <1>0, <1>4, <3>1, EndedQueue
    <3> QED BY <1>4, <3>1, <3>2 DEF Live
  <2>3. CASE ~SyncedRemoved /\ ~SyncFails
    <3>1. x \in syn.done => x \in syn'.done
      <4>1. CASE UNCHANGED syn
        BY <4>1
      <4>2. CASE syn.pc \in {"idle", "reading"}
        BY <1>0, <4>2 DEF SyncInv
      <4>3. CASE SyncOk \/ SyncRefused \/ SyncNotFound
        <5>1. syn \in [pc : {"idle", "reading", "flight", "removing"}, todo : SUBSET Answers,
                       done : SUBSET Answers, answer : 0..NumAnswers, byEffect : BOOLEAN, msg : Messages]
          BY <1>0 DEF TypeInv, SynT
        <5>2. \/ syn' = [syn EXCEPT !.pc = "removing", !.msg = NoMessage]
              \/ syn' = [syn EXCEPT !.msg = Message(syn.answer, surveyState')]
          BY <4>3 DEF SyncOk, SyncRefused, SyncNotFound
        <5>3. syn'.done = syn.done
          BY <5>1, <5>2
        <5> QED BY <5>3
      <4>4. CASE (Counted \/ EffectCounted) /\ ~UNCHANGED syn
        <5>1. ~isSyncing
          BY <4>4 DEF Counted, EffectCounted, memory
        <5>2. syn.pc = "idle"
          BY <1>0, <5>1 DEF SenderInv
        <5> QED BY <4>2, <5>2
      <4>5. SyncRead => syn.pc = "reading"
        BY DEF SyncRead
      <4> QED BY <1>4, <2>3, <4>1, <4>2, <4>3, <4>4, <4>5, SynBy
    <3>2. SentRemoved \/ DroppedRemoved => x # req.answer
      <4>1. SentRemoved \/ DroppedRemoved => req.pc \in {"sent", "dropped"}
        BY DEF SentRemoved, DroppedRemoved
      <4> QED BY <1>0, <1>4, <4>1 DEF SendInv
    <3>3. x \in Live => x \in Live'
      BY <2>3, <3>2, LiveStays
    <3>4. x \in pendingDbIds'
      <4>1. x \notin pendingRemoval
        BY <1>4, <2>0 DEF Live
      <4>2. CASE Cleans
        BY <1>4, <4>1, <4>2 DEF Cleans
      <4>3. CASE (SentRemoved \/ DroppedRemoved) /\ ForgetRemoved(req.answer)
        BY <1>4, <3>2, <4>3 DEF ForgetRemoved
      <4> QED BY <1>0, <1>4, <2>3, <4>2, <4>3, MemoryMoved DEF MemoryMoves, StoresHead
    <3> QED BY <1>4, <3>1, <3>3, <3>4
  <2> QED BY <2>1, <2>2, <2>3
<1>5. Reload \/ (Answer /\ x = asked + 1) \/ Elem(queue, x)
  BY <1>0, QueuedBefore
<1> QED BY <1>0, <1>1, <1>2, <1>3, <1>4, <1>5 DEF QueuedInv, Live

(* Every step keeps the order, as long as answers can be stored.             *)
LEMMA FlowStep == ASSUME Flow, Next, Storing' PROVE FlowInv'
  BY StoredStep, SyncStepHolds, SendStep, QueuedStep, SettledStep, OrderStep, CountStep DEF FlowInv

LEMMA FlowInit == Init => FlowInv /\ ProgressInv
<1> SUFFICES ASSUME Init PROVE FlowInv /\ ProgressInv
  OBVIOUS
<1>1. /\ responses = <<>> /\ stray = {} /\ idb = <<>> /\ req = IdleReq /\ syn = IdleSyn /\ asked = 0 /\ db = {}
      /\ pendingRemoval = {} /\ queue = <<>> /\ progress = NoProgress /\ refused = {}
  BY DEF Init, ApiInit
<1>2. \A a : ~Delivered(a)
  BY <1>1 DEF Delivered
<1>3. StoredInv /\ SyncInv /\ SendInv /\ QueuedInv
  BY <1>1 DEF StoredInv, SyncInv, SendInv, QueuedInv, IdleReq, IdleSyn, Elem
<1>4. SettledInv /\ OrderInv
  BY <1>1, <1>2 DEF SettledInv, OrderInv, Behind
<1>5. CountInv /\ ProgressInv
  BY <1>1 DEF CountInv, Has, Sole, NoCounts, ProgressInv, NoProgress
<1> QED BY <1>3, <1>4, <1>5 DEF FlowInv

LEMMA FlowStutters == ASSUME FlowInv, UNCHANGED vars PROVE FlowInv'
  BY DEF FlowInv, StoredInv, Written, SyncInv, Behind, Settled, Delivered, SendInv, QueuedInv, SettledInv, OrderInv,
         CountInv, Has, Sole, NoCounts, Waits, Elem, Adding, vars, apiVars, queueVars, page, memory, storage

(* The order holds in every state in which every answer was stored.          *)
LEMMA FlowHolds == Spec => [](ProgressInv /\ (Storing => FlowInv))
<1> DEFINE Inv == ProgressInv /\ (Storing => FlowInv)
<1>1. Init => Inv
  BY FlowInit
<1>2. CoreInv /\ IdsInv /\ Inv /\ [Next]_vars => Inv'
  <2>1. ASSUME CoreInv, IdsInv, Inv, Next PROVE Inv'
    <3>1. ProgressInv'
      BY <2>1, ProgressStep DEF CoreInv
    <3>2. ASSUME Storing' PROVE FlowInv'
      <4>1. Storing
        BY <2>1, <3>2, StoringBack DEF CoreInv
      <4> QED BY <2>1, <3>2, <4>1, FlowStep DEF Flow, IdsInv
    <3> QED BY <3>1, <3>2
  <2>2. ASSUME Inv, UNCHANGED vars PROVE Inv'
    <3>1. ProgressInv'
      BY <2>2 DEF ProgressInv, Adding, Elem, vars, queueVars, page, storage
    <3>2. Storing' => Storing
      BY <2>2 DEF Storing, vars, queueVars
    <3> QED BY <2>2, <3>1, <3>2, FlowStutters
  <2> QED BY <2>1, <2>2
<1> QED BY <1>1, <1>2, CoreHolds, IdsHold, PTL DEF Spec

(* The answers reach the server in order, in whichever way processQueue,     *)
(* syncs, reloads and failed removals interleave, as long as IndexedDB       *)
(* stores every answer.                                                      *)
THEOREM InOrderHolds == Spec => []InOrder
<1>1. (ProgressInv /\ (Storing => FlowInv)) => InOrder
  <2> SUFFICES ASSUME FlowInv, NEW a \in Answers, Delivered(a), NEW b \in 1..(a - 1)
               PROVE  Delivered(b) \/ b \in refused
    BY DEF InOrder, Storing
  <2>1. Behind({c \in Answers : Delivered(c)})
    BY DEF FlowInv, OrderInv
  <2> QED BY <2>1 DEF Behind, Settled
<1> QED BY <1>1, FlowHolds, PTL

(***************************************************************************)
(* Answers are kept.                                                         *)
(***************************************************************************)

(* In calm, an answer that was refused is on the server, or was turned down. *)
Kept(a) == Delivered(a) \/ a \in turnedDown
(* No answer is refused in calm but one that is on the server or was turned  *)
(* down for what it is.                                                      *)
KeptInv == Storing /\ Calm => \A a \in refused : Kept(a)

(* What is kept stays kept.                                                  *)
LEMMA KeptStays == ASSUME TypeInv, Next PROVE \A a : Kept(a) => Kept(a)'
<1>1. ASSUME NEW m, \/ Accept(m) \/ NotFound(m) \/ Refuse(m)
                    \/ \E dropped : Suspect(m, dropped)
                    \/ \E up : Fail(m, up)
      PROVE  turnedDown \subseteq turnedDown'
  BY <1>1 DEF Accept, NotFound, Refuse, Suspect, Fail, apiVars
<1>2. CASE SendOk \/ SendRefused \/ SendSuspected \/ SendFails
  BY <1>1, <1>2, RowsStep DEF SendOk, SendRefused, SendSuspected, SendFails, Kept
<1>3. CASE SyncOk \/ SyncRefused \/ SyncNotFound \/ SyncFails
  BY <1>1, <1>3, RowsStep DEF SyncOk, SyncRefused, SyncNotFound, SyncFails, Kept
<1>4. CASE Reload \/ StrayArrives \/ OwnerDeletes \/ UNCHANGED apiVars
  BY <1>4, RowsStep DEF Reload, StrayArrives, OwnerDeletes, DeleteResponse, apiVars, Kept
<1> QED BY <1>2, <1>3, <1>4, ApiBy

(* In calm only a finished response makes the server refuse an answer for    *)
(* another reason than what it is: then every answer before is settled.      *)
LEMMA RefusedKept ==
    ASSUME Flow, Calm, CalmInv, KeptInv, NEW m \in InFlight, ~Acceptable(m), ~Gone(m)
    PROVE  \A a \in m.answers : Kept(a)
<1>0. m \in Messages /\ ApiTypeOK /\ FlowInv /\ Storing /\ NumAnswers \in Answers
  BY FlightsBehind, NumAnswersAssumption DEF Flow, CoreInv, TypeInv, ApiT, Answers
<1>1. /\ Len(responses) \in Nat /\ Len(responses) <= 1 /\ m.response = Len(responses)
      /\ DOMAIN responses = 1..Len(responses)
  BY <1>0, RowsTyped DEF CalmInv, InFlight
<1>2. m.response # 0
  BY <1>1 DEF Acceptable
<1>3. NumAnswers \in responses[m.response].answers /\ m.response \in DOMAIN responses
  BY <1>1, <1>2 DEF Acceptable, Calm, NoneDeleted
<1>4. Delivered(NumAnswers)
  BY <1>3 DEF Delivered
<1>5. ASSUME NEW a \in m.answers PROVE Kept(a)
  <2>1. CASE a = NumAnswers
    BY <1>4, <2>1 DEF Kept
  <2>2. CASE a # NumAnswers
    <3>1. a \in 1..(NumAnswers - 1)
      BY <1>0, <1>5, <2>2, NumAnswersAssumption DEF Messages, Answers
    <3>2. Settled(a) \/ a \in {c \in Answers : Delivered(c)}
      BY <1>0, <1>4, <3>1 DEF FlowInv, OrderInv, Behind
    <3> QED BY <1>0, <3>2 DEF KeptInv, Kept, Settled
  <2> QED BY <2>1, <2>2
<1> QED BY <1>5

(* Every step keeps what was refused kept.                                   *)
LEMMA KeptStep == ASSUME Flow, CalmInv, KeptInv, Next, Storing' PROVE KeptInv'
<1> SUFFICES ASSUME Calm', NEW a \in refused' PROVE Kept(a)'
  BY DEF KeptInv
<1>0. TypeInv /\ Calm /\ Storing /\ \A c : Kept(c) => Kept(c)'
  BY CalmBack, KeptStays DEF Flow, CoreInv
<1>1. CASE a \in refused
  BY <1>0, <1>1 DEF KeptInv
<1>2. ASSUME NEW m \in InFlight, Refuse(m) \/ \E dropped : Suspect(m, dropped), a \notin refused PROVE Kept(a)'
  <2>1. CASE Refuse(m) /\ ~Acceptable(m) /\ ~Gone(m)
    BY <1>0, <1>2, <2>1, RefusedKept DEF Refuse
  <2>2. CASE turnedDown' = turnedDown \cup m.answers /\ refused' = refused \cup m.answers
    BY <1>2, <2>2 DEF Kept
  <2> QED BY <1>2, <2>1, <2>2 DEF Refuse, Suspect
<1>3. CASE SendRefused \/ SendSuspected
  <2>1. req.msg \in InFlight
    BY <1>3 DEF SendRefused, SendSuspected, InFlight
  <2> QED BY <1>1, <1>2, <1>3, <2>1 DEF SendRefused, SendSuspected
<1>4. CASE SyncRefused
  <2>1. syn.msg \in InFlight
    BY <1>4 DEF SyncRefused, InFlight
  <2> QED BY <1>1, <1>2, <1>4, <2>1 DEF SyncRefused
<1>5. CASE UNCHANGED refused
  BY <1>1, <1>5
<1>6. ASSUME NEW m, Accept(m) \/ NotFound(m) \/ \E up : Fail(m, up) PROVE UNCHANGED refused
  BY <1>6 DEF Accept, NotFound, Fail, apiVars
<1>7. CASE SendOk \/ SendFails \/ SyncOk \/ SyncNotFound \/ SyncFails
  BY <1>5, <1>6, <1>7 DEF SendOk, SendFails, SyncOk, SyncNotFound, SyncFails
<1>8. CASE Reload \/ StrayArrives \/ OwnerDeletes \/ UNCHANGED apiVars
  BY <1>5, <1>8 DEF Reload, StrayArrives, OwnerDeletes, DeleteResponse, apiVars
<1> QED BY <1>3, <1>4, <1>7, <1>8, ApiBy

(* In calm states, what was refused is kept.                                 *)
LEMMA KeptHolds == Spec => []KeptInv
<1>1. Init => KeptInv
  BY DEF Init, ApiInit, KeptInv
<1>2. /\ CoreInv /\ IdsInv /\ ProgressInv /\ (Storing => FlowInv) /\ KeptInv /\ [Next]_vars
      => KeptInv'
  <2>1. ASSUME CoreInv, IdsInv, ProgressInv, Storing => FlowInv, KeptInv, Next PROVE KeptInv'
    <3>1. ASSUME Storing' PROVE KeptInv'
      <4>1. Storing
        BY <2>1, <3>1, StoringBack DEF CoreInv
      <4> QED BY <2>1, <3>1, <4>1, KeptStep DEF Flow, IdsInv
    <3>2. ~Storing' => KeptInv'
      BY DEF KeptInv
    <3> QED BY <3>1, <3>2
  <2>2. ASSUME KeptInv, UNCHANGED vars PROVE KeptInv'
    BY <2>2 DEF KeptInv, Kept, Storing, Calm, NoneDeleted, Delivered, vars, apiVars, queueVars
  <2> QED BY <2>1, <2>2
<1> QED BY <1>1, <1>2, CoreHolds, IdsHold, FlowHolds, PTL DEF Spec

(* No answer is lost without the server's refusing it: what is dropped from  *)
(* the queue and from IndexedDB is on the server or was turned down.         *)
THEOREM AnswersKeptHolds == Spec => []AnswersKept
<1>1. CoreInv /\ (Storing => FlowInv) /\ KeptInv => AnswersKept
  <2> SUFFICES ASSUME CoreInv, FlowInv, KeptInv, Storing, Calm, NEW a \in 1..asked
               PROVE  Delivered(a) \/ a \in turnedDown \/ Pending(a)
    BY DEF AnswersKept, Storing, Calm
  <2>1. Settled(a) \/ a \in db \/ Adding(idb, a)
    BY DEF FlowInv, SettledInv
  <2>2. Settled(a) => Delivered(a) \/ a \in turnedDown
    BY DEF Settled, KeptInv, Kept
  <2>3. a \in db => Settled(a) \/ a \in db \ pendingRemoval
    BY DEF FlowInv, SettledInv
  <2>4. Adding(idb, a) => BeingAdded(a)
    BY DEF Adding, Elem, BeingAdded
  <2> QED BY <2>1, <2>2, <2>3, <2>4 DEF Pending
<1> QED BY <1>1, CoreHolds, FlowHolds, KeptHolds, PTL

(***************************************************************************)
(* The survey implements the channel.                                        *)
(***************************************************************************)

(* What the client holds, in terms of the queue and the stores.              *)
LEMMA PendingIs ==
    /\ \A a : Pending(a) <=> Elem(queue, a) \/ a \in Live \/ Adding(idb, a)
    /\ \A a : Pending(a)' <=> Elem(queue', a) \/ a \in Live' \/ Adding(idb', a)
    /\ \A a : BeingAdded(a) <=> Adding(idb, a)
    /\ \A a : BeingAdded(a)' <=> Adding(idb', a)
  BY DEF Pending, Queued, BeingAdded, Adding, Elem, Live

(* The channel's variables, in the state before and in the one after.        *)
LEMMA ChannelTyped ==
    ASSUME TypeInv, Next
    PROVE  /\ asked \in 0..NumAnswers /\ asked' \in 0..NumAnswers
           /\ 1..asked \subseteq Answers /\ 1..asked' \subseteq Answers
           /\ refused \in SUBSET Answers /\ refused' \in SUBSET Answers
           /\ refused \subseteq refused'
           /\ \A a : Delivered(a) => Delivered(a)'
<1>1. asked \in 0..NumAnswers /\ refused \in SUBSET Answers
  BY DEF TypeInv, PageT, ApiT, ApiTypeOK
<1>2. asked' \in 0..NumAnswers
  BY PageTyped DEF PageT
<1>3. refused' \in SUBSET Answers
  BY ApiTyped DEF ApiT, ApiTypeOK
<1>4. \A n \in 0..NumAnswers : 1..n \subseteq Answers
  BY NumAnswersAssumption DEF Answers
<1> QED BY <1>1, <1>2, <1>3, <1>4, RefusedBy, RowsStep

(* Once an answer could not be stored, any step is a step of the channel.    *)
LEMMA BrokenStep == ASSUME TypeInv, Next, ~Storing' PROVE Channel!Next
<1>1. (budget.add = MaxAddFaults)' = FALSE
  BY DEF Storing
<1>2. {a \in 1..asked' : ~BeingAdded(a)'} \in SUBSET Answers
  BY ChannelTyped
<1>3. {a \in Answers : Delivered(a)} \subseteq {a \in Answers : Delivered(a)'}
  BY ChannelTyped
<1>4. Channel!Break
  BY <1>1, <1>2, <1>3, ChannelTyped DEF Channel!Break, Channel!Answers, Answers
<1> QED BY <1>4 DEF Channel!Next

(* An answer given is held from then on.                                     *)
LEMMA GiveStep == ASSUME Flow, Answer, Next, Storing' PROVE Channel!Give
<1>1. TypeInv /\ queue \in Seq(Answers)
  BY DEF Flow, CoreInv, TypeInv, QueueT
<1>2. /\ asked < NumAnswers /\ asked' = asked + 1 /\ queue' = Append(queue, asked + 1)
      /\ \A a : Adding(idb', a) <=> Adding(idb, a) \/ a = asked + 1
  BY <1>1, AddingMoved DEF Answer, AddingMoves
<1>3. UNCHANGED <<responses, refused, db, pendingRemoval>>
  BY DEF Answer, apiVars
<1>4. \A a : Elem(queue', a) <=> Elem(queue, a) \/ a = asked + 1
  <2>1. asked + 1 \in Answers
    BY <1>1, <1>2, ChannelTyped, NumAnswersAssumption DEF Answers
  <2> QED BY <1>1, <1>2, <2>1, ElemAppended
<1>5. asked \in Nat /\ asked + 1 \in Answers
  BY <1>1, <1>2, ChannelTyped, NumAnswersAssumption DEF Answers
<1>6. \A a \in Answers : Pending(a)' <=> Pending(a) \/ a = asked + 1
  BY <1>2, <1>3, <1>4, PendingIs DEF Live
<1>7. \A a \in 1..asked' : ~BeingAdded(a)' <=> a \in 1..asked /\ ~BeingAdded(a)
  <2>1. \A a \in 1..(asked + 1) : a = asked + 1 \/ a \in 1..asked
    BY <1>5
  <2>2. ~((asked + 1) \in 1..asked)
    BY <1>5
  <2> QED BY <1>2, <2>1, <2>2, PendingIs
<1>8. \A a : Delivered(a)' <=> Delivered(a)
  BY <1>3 DEF Delivered
<1>9. 1..asked \subseteq 1..asked'
  BY <1>2, <1>5
<1> QED BY <1>2, <1>3, <1>5, <1>6, <1>7, <1>8, <1>9 DEF Channel!Give

(* Writes end in the order of the answers: what is written is 1..h.          *)
LEMMA WriteStep == ASSUME Flow, Added, Next, Storing' PROVE Channel!Write
<1> DEFINE h == Head(idb).n
<1>1. TypeInv /\ asked \in Nat
  BY NumAnswersAssumption DEF Flow, CoreInv, TypeInv, PageT
<1>2. /\ UNCHANGED asked /\ h \in 1..asked /\ Adding(idb, h)
      /\ \A a : Adding(idb', a) <=> Adding(idb, a) /\ a # h
      /\ \A a : Adding(idb, a) => h <= a
  BY <1>1, AddingMoved DEF AddingMoves
<1>3. db' = db \cup {h} /\ UNCHANGED <<queue, pendingRemoval, responses, refused>>
  BY <1>1, AddStored DEF Added, apiVars
<1>4. h \notin pendingRemoval
  BY AddedNew
<1> HIDE DEF h
<1>5. \A a : Pending(a)' <=> Pending(a)
  BY <1>2, <1>3, <1>4, PendingIs DEF Live
<1>6. \A a \in 1..asked : ~BeingAdded(a)' <=> a \in 1..h
  <2> SUFFICES ASSUME NEW a \in 1..asked PROVE ~Adding(idb', a) <=> a \in 1..h
    BY PendingIs
  <2>1. ~Adding(idb, a) => a < h
    <3> SUFFICES ASSUME ~Adding(idb, a), h <= a PROVE FALSE
      BY <1>1, <1>2
    <3>1. a \in 1..asked /\ h \in 1..asked /\ AddsUpTo(idb, asked)
      BY <1>1, <1>2 DEF TypeInv, IdbT
    <3> QED BY <1>2, <3>1 DEF AddsUpTo
  <2>2. Adding(idb, a) => h <= a
    BY <1>2
  <2> QED BY <1>1, <1>2, <2>1, <2>2
<1>7. \A a : Delivered(a)' <=> Delivered(a)
  BY <1>3 DEF Delivered
<1>8. {a \in 1..asked' : ~BeingAdded(a)'} = 1..h
  <2>1. 1..h \subseteq 1..asked
    BY <1>1, <1>2
  <2> QED BY <1>2, <1>6, <2>1
<1>9. {a \in 1..asked : ~BeingAdded(a)} \subseteq {a \in 1..asked' : ~BeingAdded(a)'}
  BY <1>2, PendingIs
<1> QED BY <1>2, <1>3, <1>5, <1>7, <1>8, <1>9 DEF Channel!Write

(* A reply delivers, or refuses: not both.                                   *)
LEMMA OneReply == ASSUME Next PROVE UNCHANGED refused \/ UNCHANGED responses
<1>1. \A m : Accept(m) \/ NotFound(m) => UNCHANGED refused
  BY DEF Accept, NotFound, apiVars
<1>2. \A m, up : Fail(m, up) => UNCHANGED refused
  BY DEF Fail, apiVars
<1>3. \A m, dropped : Refuse(m) \/ Suspect(m, dropped) => UNCHANGED responses
  BY DEF Refuse, Suspect
<1>4. CASE SendOk \/ SendFails \/ SyncOk \/ SyncNotFound \/ SyncFails
  BY <1>1, <1>2, <1>4 DEF SendOk, SendFails, SyncOk, SyncNotFound, SyncFails
<1>5. CASE SendRefused \/ SendSuspected \/ SyncRefused
  BY <1>3, <1>5 DEF SendRefused, SendSuspected, SyncRefused
<1>6. CASE Reload \/ StrayArrives \/ OwnerDeletes \/ UNCHANGED apiVars
  BY <1>6 DEF Reload, StrayArrives, OwnerDeletes, DeleteResponse, apiVars
<1> QED BY <1>4, <1>5, <1>6, ApiBy

(* The client lets go of nothing but what was settled.                       *)
LEMMA Releases ==
    ASSUME Flow, Next, Storing', ~Answer, ~Added, ~Reload, NEW a \in Answers
    PROVE  /\ Pending(a)' => Pending(a)
           /\ Pending(a) => Pending(a)' \/ Settled(a)
<1>0. /\ TypeInv /\ HeadIsSent /\ SyncInv /\ SendInv /\ QueuedInv
  BY DEF Flow, CoreInv, FlowInv
<1>1. \A x : Adding(idb', x) <=> Adding(idb, x)
  BY <1>0, AddingMoved DEF AddingMoves
<1>2. Elem(queue', a) => Elem(queue, a)
  BY <1>0, QueuedBefore
<1>3. a \in Live' => a \in Live
  <2>1. CASE Cleans
    BY <2>1, LiveCleaned
  <2>2. ASSUME NEW x, Removes(x) PROVE a \in Live' => a \in Live
    BY <2>2 DEF Removes, Live
  <2>3. CASE UNCHANGED <<db, pendingRemoval>>
    BY <2>3 DEF Live
  <2> QED BY <1>0, <2>1, <2>2, <2>3, MemoryMoved DEF MemoryMoves
<1>4. a \in Live => a \in Live' \/ Settled(a)
  <2>1. SentRemoved \/ DroppedRemoved => Settled(req.answer)
    BY <1>0 DEF SendInv, SentRemoved, DroppedRemoved
  <2>2. SyncedRemoved => Settled(syn.answer)
    BY <1>0 DEF SyncInv, SyncedRemoved
  <2> QED BY <2>1, <2>2, LiveStays
<1>5. Elem(queue, a) => Adding(idb, a) \/ a \in Live \/ Settled(a)
  BY <1>0 DEF QueuedInv, SyncInv, Live
<1> QED BY <1>1, <1>2, <1>3, <1>4, <1>5, PendingIs

(* Everything else serves at most one request, and tidies up.                *)
LEMMA ServeStep == ASSUME Flow, Next, Storing', ~Answer, ~Added, ~Reload PROVE Channel!Serve
<1>0. TypeInv /\ FlowInv'
  BY FlowStep DEF Flow, CoreInv
<1>1. UNCHANGED asked /\ \A a : BeingAdded(a)' <=> BeingAdded(a)
  BY <1>0, AddingMoved, PendingIs DEF AddingMoves
<1>2. Channel!Release
  <2>1. \A a \in Answers : (Pending(a)' => Pending(a))
                           /\ (Pending(a) => Pending(a)' \/ Delivered(a) \/ a \in refused)
    BY Releases DEF Settled
  <2> QED BY <2>1 DEF Channel!Release
<1>3. CASE UNCHANGED refused
  <2>1. \A c \in Answers : Delivered(c)' =>
            \A b \in 1..(c - 1) : b \in Answers /\ (Delivered(b)' \/ b \in refused')
    <3>1. Behind({a \in Answers : Delivered(a)})'
      BY <1>0 DEF FlowInv, OrderInv
    <3>2. \A c \in Answers : \A b \in 1..(c - 1) : b \in Answers
      BY NumAnswersAssumption DEF Answers
    <3> QED BY <3>1, <3>2 DEF Behind, Settled
  <2>2. Channel!Arrive
    BY <1>0, <1>3, <2>1, ChannelTyped DEF Channel!Arrive, Channel!Answers, Answers
  <2> QED BY <1>1, <1>2, <2>2 DEF Channel!Serve
<1>4. CASE UNCHANGED responses
  <2>1. \A a : Delivered(a)' <=> Delivered(a)
    BY <1>4 DEF Delivered
  <2>2. Channel!Refuse
    BY <1>0, <2>1, ChannelTyped DEF Channel!Refuse, Channel!Answers, Answers
  <2> QED BY <1>1, <1>2, <2>2 DEF Channel!Serve
<1> QED BY <1>3, <1>4, OneReply

(* A reload goes on behind the last answer that was written.                 *)
LEMMA ReloadStep == ASSUME Flow, Reload, Next, Storing' PROVE Channel!Reload
<1>0. /\ TypeInv /\ ProgressInv /\ StoredInv /\ SettledInv /\ asked \in Nat
  BY NumAnswersAssumption DEF Flow, CoreInv, FlowInv, TypeInv, PageT
<1>1. \A a : a \in 1..asked' <=> a \in 1..asked /\ ~BeingAdded(a)
  BY <1>0, ReloadKeeps, PendingIs DEF Written
<1>2. \A a : ~BeingAdded(a)'
  BY <1>0, AddingMoved, PendingIs DEF AddingMoves
<1>3. /\ queue' = <<>> /\ pendingRemoval' = {} /\ db' = db
      /\ UNCHANGED <<responses, refused>>
  BY DEF Reload
<1>4. \A a : Pending(a)' <=> a \in db
  BY <1>2, <1>3, PendingIs DEF Elem, Live
<1>5. \A a \in db : a \in 1..asked /\ ~BeingAdded(a)
  BY <1>0, PendingIs DEF StoredInv, Written
<1>6. \A a \in 1..asked : ~BeingAdded(a) => a \in db \/ Delivered(a) \/ a \in refused
  BY <1>0, PendingIs DEF SettledInv, Settled
<1>7. \A a : Delivered(a)' <=> Delivered(a)
  BY <1>3 DEF Delivered
<1>8. 1..asked \subseteq Answers /\ asked' \in 0..NumAnswers
  BY <1>0, ChannelTyped
<1>9. 1..asked' = {a \in 1..asked : ~BeingAdded(a)}
  BY <1>1
<1>10. {a \in 1..asked' : ~BeingAdded(a)'} = {a \in 1..asked : ~BeingAdded(a)}
  BY <1>1, <1>2
<1>11. {a \in Answers : Pending(a)'} = db
  BY <1>4, <1>5, <1>8
<1> QED BY <1>3, <1>5, <1>6, <1>7, <1>8, <1>9, <1>10, <1>11 DEF Channel!Reload

(* Nothing has been given at first.                                          *)
LEMMA ChannelInit == Init => Channel!Init
<1> SUFFICES ASSUME Init PROVE Channel!Init
  OBVIOUS
<1>1. asked = 0 /\ queue = <<>> /\ db = {} /\ idb = <<>> /\ responses = <<>> /\ refused = {}
      /\ budget.add = MaxAddFaults
  BY DEF Init, ApiInit
<1>2. \A a : ~Pending(a) /\ ~Delivered(a)
  BY <1>1, PendingIs DEF Elem, Live, Adding, Delivered
<1> QED BY <1>1, <1>2 DEF Channel!Init

(* A step that changes nothing leaves the channel alone.                     *)
LEMMA ChannelStutters == ASSUME UNCHANGED vars PROVE UNCHANGED Channel!vars
  BY DEF vars, apiVars, queueVars, page, memory, storage, Channel!vars, Pending, Queued, BeingAdded, Delivered

(* Every step of the survey is a step of the channel.                        *)
LEMMA ChannelStep ==
    ASSUME CoreInv, IdsKnown, ProgressInv, Storing => FlowInv, Next
    PROVE  Channel!Next
<1>1. CASE ~Storing'
  BY <1>1, BrokenStep DEF CoreInv
<1>2. CASE Storing'
  <2>1. Storing
    BY <1>2, StoringBack DEF CoreInv
  <2>2. Flow
    BY <2>1 DEF Flow
  <2>3. Channel!Give \/ Channel!Write \/ Channel!Serve \/ Channel!Reload
    BY <1>2, <2>2, GiveStep, WriteStep, ServeStep, ReloadStep
  <2>4. (budget.add = MaxAddFaults) = TRUE /\ (budget.add = MaxAddFaults)' = TRUE
    BY <1>2, <2>1 DEF Storing
  <2> QED BY <2>3, <2>4 DEF Channel!Next
<1> QED BY <1>1, <1>2

(* The offline survey implements the ordered channel: an answer is let go of *)
(* only when it arrived or was refused, answers arrive in order, and a       *)
(* reload goes on right behind the last answer that IndexedDB stored, as     *)
(* long as all could be stored.                                              *)
THEOREM ChannelImplemented == Spec => ImplementsChannel
<1>1. CoreInv /\ IdsInv /\ ProgressInv /\ (Storing => FlowInv) /\ [Next]_vars
      => [Channel!Next]_Channel!vars
  BY ChannelStep, ChannelStutters DEF IdsInv
<1> QED
  BY <1>1, ChannelInit, CoreHolds, IdsHold, FlowHolds, PTL DEF Spec, ImplementsChannel, Channel!Spec
==============================================================================
