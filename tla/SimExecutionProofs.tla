------------------------ MODULE SimExecutionProofs ------------------------
(***************************************************************************)
(* Proofs about SimExecution, for any finite set of orders, any prices,    *)
(* sizes, delay and bounds.                                                *)
(***************************************************************************)
EXTENDS SimExecution, SharedLemmas, SequenceTheorems, TLAPS

-----------------------------------------------------------------------------
(* The queues and books as sequences. *)

\* The first entry that fits, if one does.
LEMMA FirstOf ==
  ASSUME NEW S, NEW s \in Seq(S), NEW F \in SUBSET (1 .. Len(s)), F # {}
  PROVE  LET i == CHOOSE x \in F : \A y \in F : x <= y
         IN  i \in F /\ \A y \in F : i <= y
<1>1. F \in SUBSET Nat
  BY LenProperties
<1> QED BY <1>1, LeastOf

\* What leaves the front of a sequence.
LEMMA HeadTail ==
  ASSUME NEW S, NEW s \in Seq(S), s # <<>>
  PROVE  /\ Len(s) \in Nat \ {0} /\ 1 \in 1 .. Len(s)
         /\ Head(s) = s[1] /\ s[1] \in S
         /\ Tail(s) \in Seq(S) /\ Len(Tail(s)) = Len(s) - 1
         /\ \A i \in 1 .. Len(Tail(s)) : i + 1 \in 1 .. Len(s) /\ Tail(s)[i] = s[i + 1]
<1>1. Len(s) \in Nat \ {0}
  BY EmptySeq
<1>2. 1 \in 1 .. Len(s)
  BY <1>1
<1>3. Head(s) = s[1]
  BY <1>1
<1>4. /\ Head(s) \in S /\ Tail(s) \in Seq(S) /\ Len(Tail(s)) = Len(s) - 1
      /\ \A i \in 1 .. Len(Tail(s)) : Tail(s)[i] = s[i + 1]
  BY HeadTailProperties
<1>5. \A i \in 1 .. Len(Tail(s)) : i + 1 \in 1 .. Len(s)
  BY <1>1, <1>4
<1> QED BY <1>1, <1>2, <1>3, <1>4, <1>5

\* A book that loses the entry at k.
Removed(s, r, k) ==
  /\ k \in 1 .. Len(s) /\ r \in Seq(Entries) /\ Len(r) = Len(s) - 1
  /\ \A i \in 1 .. Len(r) : r[i] = s[IF i < k THEN i ELSE i + 1]

\* The order o leaves a book.
Leaves(s, r, o) == \E k \in 1 .. Len(s) : s[k].order = o /\ Removed(s, r, k)

\* A cancelled order leaves its book; the others keep their order.
LEMMA RemovedFrom ==
  ASSUME NEW s \in Seq(Entries), NEW o, \E i \in 1 .. Len(s) : s[i].order = o
  PROVE  Leaves(s, RemoveFirstMatch(s, LAMBDA e : e.order = o), o)
<1> DEFINE F == {i \in 1 .. Len(s) : s[i].order = o}
           k == CHOOSE x \in F : \A y \in F : x <= y
           r == RemoveFirstMatch(s, LAMBDA e : e.order = o)
<1>1. Len(s) \in Nat /\ \A i \in 1 .. Len(s) : s[i] \in Entries
  BY LenProperties, ElementOfSeq
<1>2. k \in F
  BY FirstOf
<1>3. k \in 1 .. Len(s) /\ s[k].order = o
  BY <1>2
<1>4. r = SubSeq(s, 1, k - 1) \o SubSeq(s, k + 1, Len(s))
  BY DEF RemoveFirstMatch, RemoveAt, SelectInSeq, Min
<1> HIDE DEF F, k, r
<1> DEFINE u == SubSeq(s, 1, k - 1)
           v == SubSeq(s, k + 1, Len(s))
<1>5. /\ u \in Seq(Entries) /\ Len(u) = k - 1
      /\ \A i \in 1 .. k - 1 : u[i] = s[i]
  <2>1. 1 \in Int /\ k - 1 \in Int /\ \A i \in 1 .. k - 1 : s[i] \in Entries
    BY <1>1, <1>3
  <2>2. /\ u \in Seq(Entries) /\ Len(u) = IF 1 <= k - 1 THEN k - 1 - 1 + 1 ELSE 0
        /\ \A i \in 1 .. k - 1 - 1 + 1 : u[i] = s[1 + i - 1]
    BY <2>1, SubSeqProperties
  <2> HIDE DEF u
  <2>3. \A i \in 1 .. k - 1 : i \in 1 .. k - 1 - 1 + 1 /\ 1 + i - 1 = i
    BY <1>3
  <2> QED BY <1>1, <1>3, <2>2, <2>3
<1>6. /\ v \in Seq(Entries) /\ Len(v) = Len(s) - k
      /\ \A i \in 1 .. Len(s) - k : v[i] = s[k + i]
  <2>1. k + 1 \in Int /\ Len(s) \in Int /\ \A i \in k + 1 .. Len(s) : s[i] \in Entries
    BY <1>1, <1>3
  <2>2. /\ v \in Seq(Entries) /\ Len(v) = IF k + 1 <= Len(s) THEN Len(s) - (k + 1) + 1 ELSE 0
        /\ \A i \in 1 .. Len(s) - (k + 1) + 1 : v[i] = s[(k + 1) + i - 1]
    BY <2>1, SubSeqProperties
  <2> HIDE DEF v
  <2>3. \A i \in 1 .. Len(s) - k : i \in 1 .. Len(s) - (k + 1) + 1 /\ (k + 1) + i - 1 = k + i
    BY <1>1, <1>3
  <2> QED BY <1>1, <1>3, <2>2, <2>3
<1> HIDE DEF u, v
<1>7. /\ r \in Seq(Entries) /\ Len(r) = Len(s) - 1
      /\ \A i \in 1 .. Len(s) - 1 : r[i] = IF i <= k - 1 THEN u[i] ELSE v[i - (k - 1)]
  <2>1. /\ u \o v \in Seq(Entries) /\ Len(u \o v) = Len(u) + Len(v)
        /\ \A i \in 1 .. Len(u) + Len(v) :
             (u \o v)[i] = IF i <= Len(u) THEN u[i] ELSE v[i - Len(u)]
    BY <1>5, <1>6, ConcatProperties
  <2>2. Len(u) + Len(v) = Len(s) - 1
    BY <1>1, <1>3, <1>5, <1>6
  <2>3. r = u \o v
    BY <1>4 DEF u, v
  <2> QED BY <1>5, <2>1, <2>2, <2>3
<1>8. ASSUME NEW i \in 1 .. Len(s) - 1
      PROVE  r[i] = s[IF i < k THEN i ELSE i + 1]
  <2>1. CASE i < k
    <3>1. i \in 1 .. k - 1
      BY <1>1, <1>3, <2>1
    <3> QED BY <1>5, <1>7, <2>1, <3>1
  <2>2. CASE ~ (i < k)
    <3>1. i - (k - 1) \in 1 .. Len(s) - k /\ ~ (i <= k - 1) /\ k + (i - (k - 1)) = i + 1
      BY <1>1, <1>3, <2>2
    <3> QED BY <1>6, <1>7, <2>2, <3>1
  <2> QED BY <2>1, <2>2
<1>9. Removed(s, r, k)
  BY <1>1, <1>3, <1>7, <1>8 DEF Removed
<1> QED BY <1>3, <1>9 DEF Leaves, r

\* A book that has a new entry e at k.
Inserted(s, r, k, e) ==
  /\ k \in 1 .. Len(s) + 1 /\ r \in Seq(Entries) /\ Len(r) = Len(s) + 1
  /\ r[k] = e
  /\ \A i \in 1 .. Len(r) : i # k => r[i] = s[IF i < k THEN i ELSE i - 1]

\* The entry e comes into a book, behind those that it does not precede.
Enters(s, r, b, e) ==
  \E k \in 1 .. Len(s) + 1 :
    /\ Inserted(s, r, k, e)
    /\ \A i \in 1 .. k - 1 : ~ Precedes(b, e, s[i])
    /\ k <= Len(s) => Precedes(b, e, s[k])

LEMMA InsertedInto ==
  ASSUME NEW s \in Seq(Entries), NEW b \in Books, NEW e \in Entries
  PROVE  Enters(s, Insert(s, b, e), b, e)
<1> DEFINE F == {i \in 1 .. Len(s) : Precedes(b, e, s[i])}
           k == CHOOSE x \in F : \A y \in F : x <= y
           r == Insert(s, b, e)
<1>1. Len(s) \in Nat /\ \A i \in 1 .. Len(s) : s[i] \in Entries
  BY LenProperties, ElementOfSeq
<1>2. CASE F = {}
  <2>1. r = Append(s, e)
    BY <1>2 DEF Insert, SelectInSeq
  <2>2. /\ r \in Seq(Entries) /\ Len(r) = Len(s) + 1 /\ r[Len(s) + 1] = e
        /\ \A i \in 1 .. Len(s) : r[i] = s[i]
    BY <2>1, AppendProperties
  <2> HIDE DEF r
  <2>3. Len(s) + 1 \in 1 .. Len(s) + 1
    BY <1>1
  <2>4. \A i \in 1 .. Len(s) + 1 :
          i # Len(s) + 1 => r[i] = s[IF i < Len(s) + 1 THEN i ELSE i - 1]
    BY <1>1, <2>2
  <2>5. \A i \in 1 .. (Len(s) + 1) - 1 : ~ Precedes(b, e, s[i])
    BY <1>1, <1>2
  <2>6. ~ (Len(s) + 1 <= Len(s))
    BY <1>1
  <2>7. Inserted(s, r, Len(s) + 1, e)
    BY <2>2, <2>3, <2>4 DEF Inserted
  <2> QED BY <2>3, <2>5, <2>6, <2>7 DEF Enters, r
<1>3. CASE F # {}
  <2>1. k \in F /\ \A y \in F : k <= y
    BY <1>3, FirstOf
  <2>2. k \in 1 .. Len(s) /\ Precedes(b, e, s[k])
    BY <2>1
  <2>3. \A i \in 1 .. k - 1 : ~ Precedes(b, e, s[i])
    <3>1. ASSUME NEW i \in 1 .. k - 1, Precedes(b, e, s[i])
          PROVE  FALSE
      <4>1. i \in F
        BY <1>1, <2>2, <3>1
      <4>2. k <= i
        BY <2>1, <4>1
      <4> HIDE DEF F, k
      <4> QED BY <1>1, <2>2, <4>2
    <3> QED BY <3>1
  <2>4. r = SubSeq(s, 1, k - 1) \o <<e>> \o SubSeq(s, k, Len(s))
    <3>1. SelectInSeq(s, LAMBDA f : Precedes(b, e, f)) = k
      BY <1>3 DEF SelectInSeq, Min
    <3> HIDE DEF k
    <3>2. k # 0
      BY <1>1, <2>2
    <3>3. r = InsertAt(s, k, e)
      BY <3>1, <3>2 DEF Insert
    <3> QED BY <3>3 DEF InsertAt
  <2> HIDE DEF F, k, r
  <2> DEFINE u == SubSeq(s, 1, k - 1)
             v == SubSeq(s, k, Len(s))
             w == u \o <<e>>
  <2>5. /\ u \in Seq(Entries) /\ Len(u) = k - 1
        /\ \A i \in 1 .. k - 1 : u[i] = s[i]
    <3>1. 1 \in Int /\ k - 1 \in Int /\ \A i \in 1 .. k - 1 : s[i] \in Entries
      BY <1>1, <2>2
    <3>2. /\ u \in Seq(Entries) /\ Len(u) = IF 1 <= k - 1 THEN k - 1 - 1 + 1 ELSE 0
          /\ \A i \in 1 .. k - 1 - 1 + 1 : u[i] = s[1 + i - 1]
      BY <3>1, SubSeqProperties
    <3> HIDE DEF u
    <3>3. \A i \in 1 .. k - 1 : i \in 1 .. k - 1 - 1 + 1 /\ 1 + i - 1 = i
      BY <2>2
    <3> QED BY <1>1, <2>2, <3>2, <3>3
  <2>6. /\ v \in Seq(Entries) /\ Len(v) = Len(s) - k + 1
        /\ \A i \in 1 .. Len(s) - k + 1 : v[i] = s[k + i - 1]
    <3>1. k \in Int /\ Len(s) \in Int /\ \A i \in k .. Len(s) : s[i] \in Entries
      BY <1>1, <2>2
    <3>2. /\ v \in Seq(Entries) /\ Len(v) = IF k <= Len(s) THEN Len(s) - k + 1 ELSE 0
          /\ \A i \in 1 .. Len(s) - k + 1 : v[i] = s[k + i - 1]
      BY <3>1, SubSeqProperties
    <3> HIDE DEF v
    <3> QED BY <1>1, <2>2, <3>2
  <2> HIDE DEF u, v
  <2>7. /\ w \in Seq(Entries) /\ Len(w) = k /\ w[k] = e
        /\ \A i \in 1 .. k - 1 : w[i] = s[i]
    <3>1. w = Append(u, e)
      BY <2>5
    <3> HIDE DEF w
    <3>2. /\ w \in Seq(Entries) /\ Len(w) = Len(u) + 1 /\ w[Len(u) + 1] = e
          /\ \A i \in 1 .. Len(u) : w[i] = u[i]
      BY <2>5, <3>1, AppendProperties
    <3>3. Len(u) + 1 = k
      BY <1>1, <2>2, <2>5
    <3> QED BY <2>5, <3>2, <3>3
  <2>8. r = w \o v
    BY <2>4 DEF u, v
  <2> HIDE DEF w
  <2>9. /\ r \in Seq(Entries) /\ Len(r) = Len(s) + 1
        /\ \A i \in 1 .. Len(s) + 1 : r[i] = IF i <= k THEN w[i] ELSE v[i - k]
    <3>1. /\ r \in Seq(Entries) /\ Len(r) = Len(w) + Len(v)
          /\ \A i \in 1 .. Len(w) + Len(v) : r[i] = IF i <= Len(w) THEN w[i] ELSE v[i - Len(w)]
      BY <2>6, <2>7, <2>8, ConcatProperties
    <3>2. Len(w) + Len(v) = Len(s) + 1
      BY <1>1, <2>2, <2>6, <2>7
    <3> QED BY <2>7, <3>1, <3>2
  <2>10. ASSUME NEW i \in 1 .. Len(s) + 1, i # k
         PROVE  r[i] = s[IF i < k THEN i ELSE i - 1]
    <3>1. CASE i < k
      <4>1. i \in 1 .. k - 1 /\ i <= k
        BY <1>1, <2>2, <3>1
      <4> QED BY <2>7, <2>9, <3>1, <4>1
    <3>2. CASE ~ (i < k)
      <4>1. i - k \in 1 .. Len(s) - k + 1 /\ ~ (i <= k) /\ k + (i - k) - 1 = i - 1
        BY <1>1, <2>2, <2>10, <3>2
      <4> QED BY <2>6, <2>9, <3>2, <4>1
    <3> QED BY <3>1, <3>2
  <2>11. k \in 1 .. Len(s) + 1 /\ k <= k /\ r[k] = e
    BY <1>1, <2>2, <2>7, <2>9
  <2>12. Inserted(s, r, k, e)
    BY <2>9, <2>10, <2>11 DEF Inserted
  <2> QED BY <2>2, <2>3, <2>11, <2>12 DEF Enters, r
<1> QED BY <1>2, <1>3
-----------------------------------------------------------------------------
(* The rows of the orders. *)

\* Only an order that is not executed to the end is executed, and not beyond it.
LEMMA FilledFacts ==
  ASSUME TypeOK, NEW o \in OrderIds, NEW available \in Nat, orders[o].remaining # 0
  PROVE  LET left == orders[o].remaining
             size == Applied(left, available)
             row  == Filled(o, size)
         IN  /\ left \in Nat \ {0} /\ size \in 0 .. left
             /\ row \in OrderRow
             /\ row.side = orders[o].side /\ row.quan = orders[o].quan
             /\ row.filled = orders[o].filled + size
             /\ row.remaining = left - size
             /\ orders[o].status \in {"SendingToProvider", "Filling"} =>
                  row.status = IF size = left THEN "Filled" ELSE "Filling"
<1> DEFINE r == orders[o]
           left == r.remaining
           size == Applied(left, available)
           rest == left - size
           filled == r.filled + size
           status == IF rest = 0 THEN StatusWhenComplete(r) ELSE StatusWhenPartial(r)
           done == ReportExecution(r, size)
           row == Filled(o, size)
<1>1. r \in OrderRow /\ left \in Nat \ {0} /\ r.filled \in Nat
  BY DEF TypeOK, OrderRow
<1>2. size \in 0 .. left
  BY <1>1 DEF Applied
<1>3. rest \in Nat /\ filled \in Nat /\ (rest = 0 <=> size = left)
  BY <1>1, <1>2
<1>4. /\ StatusWhenComplete(r) \in Statuses /\ StatusWhenPartial(r) \in Statuses
      /\ r.status \in {"SendingToProvider", "Filling"} =>
           StatusWhenComplete(r) = "Filled" /\ StatusWhenPartial(r) = "Filling"
  BY <1>1 DEF StatusWhenComplete, StatusWhenPartial, Statuses, OrderRow
<1>5. status \in Statuses
  BY <1>4
<1>6. done = [r EXCEPT !.remaining = rest, !.filled = filled, !.status = status]
  BY <1>1 DEF ReportExecution
<1>7. row = IF size = 0 THEN done ELSE SetCommission(done, size)
  BY DEF Filled
<1>8. r.status \in {"SendingToProvider", "Filling"} =>
        status = IF size = left THEN "Filled" ELSE "Filling"
  BY <1>3, <1>4
<1> HIDE DEF r, left, size, rest, filled, status, done, row
<1>9. /\ done \in OrderRow /\ done.side = r.side /\ done.quan = r.quan
      /\ done.filled = filled /\ done.remaining = rest /\ done.status = status
  BY <1>1, <1>3, <1>5, <1>6 DEF OrderRow
<1>10. size \in Int
  BY <1>1, <1>2
<1>11. /\ row \in OrderRow /\ row.side = r.side /\ row.quan = r.quan
       /\ row.filled = filled /\ row.remaining = rest /\ row.status = status
  BY <1>7, <1>9, <1>10, SetCommissionFacts
<1> QED BY <1>1, <1>2, <1>8, <1>11 DEF r, left, size, rest, filled, row

LEMMA TypeKeeps == TypeOK /\ [Next]_vars => TypeOK'
<1> SUFFICES ASSUME TypeOK, [Next]_vars PROVE TypeOK'
  OBVIOUS
<1> USE SimConstantsAssumption
<1>0. \A b \in Books : book[b] \in Seq(Entries)
  BY DEF TypeOK
<1>1. \A o \in OrderIds : BookOf(o) \in Books
  BY DEF BookOf, Books
<1>2. \A o \in OrderIds : Entry(o) \in Entries
  BY DEF Entry, Entries, TypeOK
<1>3. \A o \in OrderIds : MigrateActiveToArchive(o) =>
        track' \in [OrderIds -> Tracked] /\ failed' \in BOOLEAN
  BY DEF MigrateActiveToArchive, TypeOK, Tracked
<1>4. ASSUME NEW b \in Books, book[b] # <<>>
      PROVE  Head(book[b]).order \in OrderIds /\ Tail(book[b]) \in Seq(Entries)
  <2>1. Head(book[b]) \in Entries /\ Tail(book[b]) \in Seq(Entries)
    BY <1>0, <1>4, HeadTail
  <2> QED BY <2>1 DEF Entries
<1>5. ASSUME NEW b \in Books, NEW available \in Nat, book[b] # <<>>, FillFirst(b, available)
      PROVE  /\ orders' \in [OrderIds -> OrderRow] /\ track' \in [OrderIds -> Tracked]
             /\ book' \in [Books -> Seq(Entries)] /\ failed' \in BOOLEAN
  <2> DEFINE o == Head(book[b]).order
             left == orders[o].remaining
             size == Applied(left, available)
  <2>1. o \in OrderIds /\ Tail(book[b]) \in Seq(Entries)
    BY <1>4, <1>5
  <2>2. CASE left = 0
    BY <1>5, <2>2 DEF FillFirst, TypeOK
  <2>3. CASE left # 0
    <3>1. Filled(o, size) \in OrderRow
      BY <2>1, <2>3, FilledFacts
    <3>2. /\ orders' = [orders EXCEPT ![o] = Filled(o, size)]
          /\ IF Done(left, size)
             THEN MigrateActiveToArchive(o) /\ book' = [book EXCEPT ![b] = Tail(@)]
             ELSE UNCHANGED <<track, book, failed>>
      BY <1>5, <2>3 DEF FillFirst
    <3> HIDE DEF o, left, size
    <3>3. orders' \in [OrderIds -> OrderRow]
      BY <2>1, <3>1, <3>2 DEF TypeOK
    <3>4. CASE Done(left, size)
      <4>1. MigrateActiveToArchive(o) /\ book' = [book EXCEPT ![b] = Tail(@)]
        BY <3>2, <3>4
      <4>2. track' \in [OrderIds -> Tracked] /\ failed' \in BOOLEAN
        BY <1>3, <2>1, <4>1
      <4>3. book' \in [Books -> Seq(Entries)]
        BY <2>1, <4>1 DEF TypeOK
      <4> QED BY <3>3, <4>2, <4>3
    <3>5. CASE ~ Done(left, size)
      BY <3>2, <3>3, <3>5 DEF TypeOK
    <3> QED BY <3>4, <3>5
  <2> QED BY <2>2, <2>3
<1>6. ASSUME NEW o \in OrderIds, NEW side \in Sides, NEW k \in Kinds, NEW quan \in Quantities,
             NEW limit \in Prices, PlaceOrder(o, side, k, quan, limit)
      PROVE  TypeOK'
  <2> DEFINE row == SetSendingToProvider(NewOrder(side, quan))
  <2>1. row \in OrderRow
    BY NewOrderFacts, SetSendingFacts
  <2> HIDE DEF row
  <2>2. orders' \in [OrderIds -> OrderRow]
    BY <1>6, <2>1 DEF PlaceOrder, TypeOK, row
  <2>3. delay' \in Seq(OrderIds)
    BY <1>6, AppendProperties DEF PlaceOrder, TypeOK
  <2>4. kind' \in [OrderIds -> {"None"} \cup Kinds] /\ price' \in [OrderIds -> {0} \cup Prices]
    BY <1>6 DEF PlaceOrder, TypeOK
  <2>5. track' \in [OrderIds -> Tracked]
    BY <1>6 DEF PlaceOrder, TypeOK, Tracked
  <2> QED BY <1>6, <2>2, <2>3, <2>4, <2>5 DEF PlaceOrder, TypeOK
<1>7. ASSUME NEW o \in OrderIds, NEW limit \in Prices, ChangeOrder(o, limit)
      PROVE  TypeOK'
  <2>1. delay' \in Seq(OrderIds)
    BY <1>7, AppendProperties DEF ChangeOrder, TypeOK
  <2>2. price' \in [OrderIds -> {0} \cup Prices]
    BY <1>7 DEF ChangeOrder, TypeOK
  <2> QED BY <1>7, <2>1, <2>2 DEF ChangeOrder, TypeOK
<1>8. ASSUME NEW o \in OrderIds, CancelOrder(o)
      PROVE  TypeOK'
  <2>1. [order |-> o, age |-> 0] \in Cancellations
    BY DEF Ages, Cancellations
  <2>2. cancels' \in Seq(Cancellations)
    BY <1>8, <2>1, AppendProperties DEF CancelOrder, TypeOK
  <2>3. asked' \in [OrderIds -> BOOLEAN]
    BY <1>8 DEF CancelOrder, TypeOK
  <2> QED BY <1>8, <2>2, <2>3 DEF CancelOrder, TypeOK
<1>9. ASSUME Tick
      PROVE  TypeOK'
  <2>1. \A n \in Ages : Older(n) \in Ages
    BY DEF Ages, Older
  <2>2. age' \in [OrderIds -> Ages]
    BY <1>9, <2>1 DEF Tick, TypeOK
  <2>3. cancels' \in Seq(Cancellations)
    <3>1. /\ cancels \in [1 .. Len(cancels) -> Cancellations]
          /\ Len(cancels) \in Nat /\ DOMAIN cancels = 1 .. Len(cancels)
      BY LenProperties DEF TypeOK
    <3>2. \A c \in Cancellations : [c EXCEPT !.age = Older(@)] \in Cancellations
      BY <2>1 DEF Cancellations
    <3>3. cancels' \in [1 .. Len(cancels) -> Cancellations]
      BY <1>9, <3>1, <3>2 DEF Tick
    <3> QED BY <3>1, <3>3, SeqDef
  <2> QED BY <1>9, <2>2, <2>3 DEF Tick, TypeOK
<1>10. ASSUME NewQuote
       PROVE  TypeOK'
  BY <1>10 DEF NewQuote, attributes, TypeOK
<1>11. ASSUME ProcessCancelQueue
       PROVE  TypeOK'
  <2>0. mixed' = mixed
    BY <1>11 DEF ProcessCancelQueue
  <2>1. CASE cancels # <<>> /\ Ripe(Head(cancels).age)
    <3> DEFINE o == Head(cancels).order
               b == BookOf(o)
               left == RemoveFirstMatch(book[b], LAMBDA e : e.order = o)
    <3>1. o \in OrderIds /\ Tail(cancels) \in Seq(Cancellations)
      <4>1. cancels \in Seq(Cancellations)
        BY DEF TypeOK
      <4>2. Head(cancels) \in Cancellations /\ Tail(cancels) \in Seq(Cancellations)
        BY <2>1, <4>1, HeadTail
      <4> QED BY <4>2 DEF Cancellations
    <3>2. CancelOne(o) /\ cancels' = Tail(cancels) /\ UNCHANGED <<stage, attributes, delay>>
      BY <1>11, <2>1 DEF ProcessCancelQueue
    <3> HIDE DEF o
    <3>3. b \in Books
      BY <1>1, <3>1
    <3>4. CASE InBook(b, o)
      <4>1. EraseAndEnd(b, o)
        BY <3>2, <3>4 DEF CancelOne
      <4>2. left \in Seq(Entries)
        <5>1. DOMAIN book[b] = 1 .. Len(book[b])
          BY <1>0, <3>3, LenProperties
        <5>2. \E i \in 1 .. Len(book[b]) : book[b][i].order = o
          BY <3>4, <5>1 DEF InBook
        <5> HIDE DEF b
        <5> QED BY <1>0, <3>3, <5>2, RemovedFrom DEF Leaves, Removed
      <4>3. book' = [book EXCEPT ![b] = left]
        BY <4>1 DEF EraseAndEnd
      <4>4. MarkAsCancelled(orders[o]) \in OrderRow
        BY <3>1, MarkAsCancelledFacts DEF TypeOK
      <4>5. orders' \in [OrderIds -> OrderRow]
        BY <3>1, <4>1, <4>4 DEF EraseAndEnd, TypeOK
      <4>6. track' \in [OrderIds -> Tracked] /\ failed' \in BOOLEAN
        BY <1>3, <3>1, <4>1 DEF EraseAndEnd
      <4> HIDE DEF b, left
      <4>7. book' \in [Books -> Seq(Entries)]
        BY <3>3, <4>2, <4>3 DEF TypeOK
      <4> QED BY <2>0, <3>1, <3>2, <4>5, <4>6, <4>7 DEF TypeOK, attributes
    <3>5. CASE ~ InBook(b, o)
      <4>1. failed' \in BOOLEAN /\ UNCHANGED <<orders, track, book>>
        BY <3>2, <3>5 DEF CancelOne
      <4> QED BY <2>0, <3>1, <3>2, <4>1 DEF TypeOK, attributes
    <3> QED BY <3>4, <3>5
  <2>2. CASE ~ (cancels # <<>> /\ Ripe(Head(cancels).age))
    <3>1. stage' = "delays" /\ UNCHANGED <<orders, track, cancels, book, failed, attributes, delay>>
      BY <1>11, <2>2 DEF ProcessCancelQueue
    <3> QED BY <2>0, <3>1 DEF TypeOK, attributes
  <2> QED BY <2>1, <2>2
<1>12. ASSUME ProcessDelayQueue
       PROVE  TypeOK'
  <2>1. CASE delay # <<>> /\ Ripe(age[Head(delay)])
    <3> DEFINE o == Head(delay)
               b == BookOf(o)
    <3>1. o \in OrderIds /\ Tail(delay) \in Seq(OrderIds)
      <4>1. delay \in Seq(OrderIds)
        BY DEF TypeOK
      <4> QED BY <2>1, <4>1, HeadTail
    <3>2. DelayOne(o) /\ delay' = Tail(delay) /\ UNCHANGED <<stage, attributes, orders, cancels>>
      BY <1>12, <2>1 DEF ProcessDelayQueue
    <3> HIDE DEF o
    <3>3. b \in Books /\ Entry(o) \in Entries
      BY <1>1, <1>2, <3>1
    <3> HIDE DEF b
    <3>4. \A s \in Seq(Entries) : Insert(s, b, Entry(o)) \in Seq(Entries)
      BY <3>3, InsertedInto DEF Enters, Inserted
    <3>5. WithoutOld \in [Books -> Seq(Entries)]
      <4>1. OldBook \in Books
        BY DEF OldBook, Books
      <4>2. \A s \in Seq(Entries) : (IF s = <<>> THEN s ELSE Tail(s)) \in Seq(Entries)
        BY HeadTail
      <4> QED BY <4>1, <4>2 DEF WithoutOld, TypeOK
    <3>6. /\ track' \in [OrderIds -> Tracked] /\ failed' \in BOOLEAN /\ mixed' \in BOOLEAN
          /\ book' \in [Books -> Seq(Entries)]
      <4>1. CASE track[o] = "Archive"
        BY <3>2, <4>1 DEF DelayOne, TypeOK
      <4>2. CASE track[o] = "Active"
        <5>1. IF OldFits(o)
              THEN /\ book' = [WithoutOld EXCEPT ![b] = Insert(@, b, Entry(o))]
                   /\ mixed' = (mixed \/ ~ OldIs(o)) /\ UNCHANGED <<track, failed>>
              ELSE failed' = TRUE /\ UNCHANGED <<track, book, mixed>>
          BY <3>2, <4>2 DEF DelayOne, b
        <5> HIDE DEF WithoutOld
        <5>2. CASE OldFits(o)
          <6>1. book' \in [Books -> Seq(Entries)]
            BY <3>3, <3>4, <3>5, <5>1, <5>2
          <6>2. mixed' \in BOOLEAN
            BY <5>1, <5>2
          <6> QED BY <5>1, <5>2, <6>1, <6>2 DEF TypeOK
        <5>3. CASE ~ OldFits(o)
          BY <5>1, <5>3 DEF TypeOK
        <5> QED BY <5>2, <5>3
      <4>3. CASE track[o] \notin {"Active", "Archive"}
        <5>1. /\ track' = [track EXCEPT ![o] = "Active"] /\ UNCHANGED <<failed, mixed>>
              /\ book' = [book EXCEPT ![b] = Insert(@, b, Entry(o))]
          BY <3>2, <4>3 DEF DelayOne, b
        <5>2. book' \in [Books -> Seq(Entries)]
          BY <3>3, <3>4, <5>1 DEF TypeOK
        <5>3. track' \in [OrderIds -> Tracked]
          BY <5>1 DEF TypeOK, Tracked
        <5> QED BY <5>1, <5>2, <5>3 DEF TypeOK
      <4> QED BY <4>1, <4>2, <4>3
    <3> QED BY <3>1, <3>2, <3>6 DEF TypeOK, attributes
  <2>2. CASE ~ (delay # <<>> /\ Ripe(age[Head(delay)]))
    <3>1. stage' = "orders" /\ UNCHANGED <<track, delay, book, failed, mixed, attributes, orders, cancels>>
      BY <1>12, <2>2 DEF ProcessDelayQueue
    <3> QED BY <3>1 DEF TypeOK, attributes
  <2> QED BY <2>1, <2>2
<1>13. ASSUME NEW q \in Quotes, ProcessOrders(q)
       PROVE  TypeOK'
  <2>1. stage' = "idle" /\ UNCHANGED <<attributes, delay, cancels, mixed>>
    BY <1>13 DEF ProcessOrders
  <2>2. q.askSize \in Nat /\ q.bidSize \in Nat /\ {"market", "asks", "bids"} \subseteq Books
    BY DEF Quotes, Books
  <2>3. \/ \E b \in Books, n \in Nat : book[b] # <<>> /\ FillFirst(b, n)
        \/ UNCHANGED <<orders, track, book, failed>>
    BY <1>13, <2>2 DEF ProcessOrders, ProcessMarketOrders, ProcessLimitOrders, AskReached, BidReached
  <2>4. /\ orders' \in [OrderIds -> OrderRow] /\ track' \in [OrderIds -> Tracked]
        /\ book' \in [Books -> Seq(Entries)] /\ failed' \in BOOLEAN
    BY <1>5, <2>3 DEF TypeOK
  <2> QED BY <2>1, <2>4 DEF TypeOK, attributes
<1>14. CASE UNCHANGED vars
  BY <1>14 DEF vars, TypeOK
<1> QED BY <1>6, <1>7, <1>8, <1>9, <1>10, <1>11, <1>12, <1>13, <1>14 DEF Next, Strategy

LEMMA InitType == Init => TypeOK
<1> SUFFICES ASSUME Init PROVE TypeOK
  OBVIOUS
<1>1. NewOrder("Buy", 0) \in OrderRow
  BY NewOrderFacts DEF Sides
<1>2. /\ delay \in Seq(OrderIds) /\ cancels \in Seq(Cancellations)
      /\ book \in [Books -> Seq(Entries)]
  BY EmptySeq DEF Init
<1>3. 0 \in Ages
  BY SimConstantsAssumption DEF Ages
<1>4. orders \in [OrderIds -> OrderRow]
  BY <1>1 DEF Init
<1> QED BY <1>2, <1>3, <1>4 DEF Init, TypeOK, Tracked

\* Every queue and book holds orders of the instrument, and no order has less
\* than nothing left, whatever is cancelled and changed, and when.
THEOREM TypeCorrect == Spec => []TypeOK
BY InitType, TypeKeeps, PTL DEF Spec
-----------------------------------------------------------------------------
(* The invariant. *)

\* The order may be in the delay queue again.
Repeated(o) == Changes /\ kind[o] = "Limit"

\* m_mapOrderState and the row of an order, and where it is.
OrderInv(o) ==
  /\ kind[o] = "None" <=> track[o] = "Unknown"
  /\ orders[o].filled + orders[o].remaining = orders[o].quan
  /\ track[o] = "Unknown" => age[o] = 0 /\ ~ asked[o] /\ orders[o].quan = 0
  /\ track[o] # "Unknown" => orders[o].quan > 0
  /\ track[o] \in {"Delay", "Active"} =>
       orders[o].remaining > 0 /\ orders[o].status \in {"SendingToProvider", "Filling"}
  /\ track[o] = "Delay" => Contains(delay, o)
  /\ track[o] = "Active" => age[o] > Delay /\ InBook(BookOf(o), o)
  /\ track[o] = "Archive" => orders[o].remaining = 0 \/ asked[o]

\* The orders in the books are active, each in its own book, once.
BooksInv ==
  \A b \in Books :
    /\ \A i \in 1 .. Len(book[b]) :
         track[book[b][i].order] = "Active" /\ BookOf(book[b][i].order) = b
    /\ \A i, j \in 1 .. Len(book[b]) : book[b][i].order = book[b][j].order => i = j

\* What is in the two queues.
DelayInv ==
  /\ \A i \in 1 .. Len(delay) :
       track[delay[i]] # "Unknown" /\ (track[delay[i]] # "Delay" => Repeated(delay[i]))
  /\ \A i, j \in 1 .. Len(delay) : delay[i] = delay[j] /\ ~ Repeated(delay[i]) => i = j
CancelsInv ==
  \A i \in 1 .. Len(cancels) :
    asked[cancels[i].order] /\ track[cancels[i].order] # "Unknown"

\* The queues and books agree with m_mapOrderState.
IInv ==
  /\ TypeOK
  /\ \A o \in OrderIds : OrderInv(o)
  /\ BooksInv /\ DelayInv /\ CancelsInv

LEMMA QueueFacts ==
  ASSUME TypeOK
  PROVE  /\ \A b \in Books :
              /\ book[b] \in Seq(Entries) /\ Len(book[b]) \in Nat
              /\ DOMAIN book[b] = 1 .. Len(book[b])
              /\ \A i \in 1 .. Len(book[b]) : book[b][i] \in Entries /\ book[b][i].order \in OrderIds
         /\ Len(delay) \in Nat /\ \A i \in 1 .. Len(delay) : delay[i] \in OrderIds
         /\ Len(cancels) \in Nat /\ DOMAIN cancels = 1 .. Len(cancels)
         /\ \A i \in 1 .. Len(cancels) : cancels[i].order \in OrderIds /\ cancels[i].age \in Ages
<1>1. ASSUME NEW b \in Books
      PROVE  /\ book[b] \in Seq(Entries) /\ Len(book[b]) \in Nat
             /\ DOMAIN book[b] = 1 .. Len(book[b])
             /\ \A i \in 1 .. Len(book[b]) : book[b][i] \in Entries /\ book[b][i].order \in OrderIds
  <2>1. book[b] \in Seq(Entries)
    BY DEF TypeOK
  <2>2. /\ Len(book[b]) \in Nat /\ DOMAIN book[b] = 1 .. Len(book[b])
        /\ \A i \in 1 .. Len(book[b]) : book[b][i] \in Entries
    BY <2>1, LenProperties, ElementOfSeq
  <2>3. \A e \in Entries : e.order \in OrderIds
    BY DEF Entries
  <2> QED BY <2>1, <2>2, <2>3
<1>2. Len(delay) \in Nat /\ \A i \in 1 .. Len(delay) : delay[i] \in OrderIds
  BY LenProperties, ElementOfSeq DEF TypeOK
<1>3. /\ Len(cancels) \in Nat /\ DOMAIN cancels = 1 .. Len(cancels)
      /\ \A i \in 1 .. Len(cancels) : cancels[i] \in Cancellations
  BY LenProperties, ElementOfSeq DEF TypeOK
<1>4. \A c \in Cancellations : c.order \in OrderIds /\ c.age \in Ages
  BY DEF Cancellations
<1> QED BY <1>1, <1>2, <1>3, <1>4

\* An order keeps its invariant when it stays where it is.
LEMMA OrderFrame ==
  ASSUME NEW o, OrderInv(o), age[o] \in Nat, age'[o] \in Nat,
         kind'[o] = kind[o], orders'[o] = orders[o], track'[o] = track[o],
         asked'[o] = asked[o], age'[o] >= age[o],
         track[o] = "Unknown" => age'[o] = age[o],
         track[o] = "Delay" => (Contains(delay, o) => Contains(delay, o)'),
         track[o] = "Active" => (InBook(BookOf(o), o) => InBook(BookOf(o), o)')
  PROVE  OrderInv(o)'
<1>1. track[o] = "Active" => age'[o] > Delay
  BY SimConstantsAssumption DEF OrderInv
<1> QED BY <1>1 DEF OrderInv


\* The others are the same, in the same order.
Without(s, r, k) ==
  /\ \A i \in 1 .. Len(r) : \E m \in 1 .. Len(s) : m # k /\ r[i] = s[m]
  /\ \A i, j \in 1 .. Len(r) : i < j =>
       \E m, n \in 1 .. Len(s) : m < n /\ r[i] = s[m] /\ r[j] = s[n]
  /\ \A m \in 1 .. Len(s) : m # k => \E i \in 1 .. Len(r) : r[i] = s[m]

LEMMA RemovedFacts ==
  ASSUME NEW s \in Seq(Entries), NEW r, NEW k, Removed(s, r, k)
  PROVE  Without(s, r, k)
<1>1. /\ Len(s) \in Nat /\ k \in 1 .. Len(s) /\ Len(r) = Len(s) - 1
      /\ \A i \in 1 .. Len(r) : r[i] = s[IF i < k THEN i ELSE i + 1]
  BY LenProperties DEF Removed
<1> DEFINE from(i) == IF i < k THEN i ELSE i + 1
<1>2. \A i \in 1 .. Len(r) : from(i) \in 1 .. Len(s) /\ from(i) # k /\ r[i] = s[from(i)]
  BY <1>1
<1>3. \A i, j \in 1 .. Len(r) : i < j => from(i) < from(j)
  BY <1>1
<1>4. \A m \in 1 .. Len(s) : m # k => \E i \in 1 .. Len(r) : from(i) = m
  <2>1. SUFFICES ASSUME NEW m \in 1 .. Len(s), m # k
                 PROVE  \E i \in 1 .. Len(r) : from(i) = m
    OBVIOUS
  <2>2. CASE m < k
    <3>1. m \in 1 .. Len(r) /\ from(m) = m
      BY <1>1, <2>2
    <3> QED BY <3>1
  <2>3. CASE ~ (m < k)
    <3>1. m - 1 \in 1 .. Len(r) /\ from(m - 1) = m
      BY <1>1, <2>1, <2>3
    <3> QED BY <3>1
  <2> QED BY <2>2, <2>3
<1> HIDE DEF from
<1> QED BY <1>2, <1>3, <1>4 DEF Without

\* The others are the same, in the same order, and e is between those before
\* k and those after.
With(s, r, k, e) ==
  /\ \A i \in 1 .. Len(r) : i # k => \E m \in 1 .. Len(s) : r[i] = s[m]
  /\ k \in 1 .. Len(r) /\ r[k] = e
  /\ \A m \in 1 .. Len(s) : \E i \in 1 .. Len(r) : r[i] = s[m]
  /\ \A i, j \in 1 .. Len(r) : i < j =>
       \/ \E m, n \in 1 .. Len(s) : m < n /\ r[i] = s[m] /\ r[j] = s[n]
       \/ i = k /\ \E n \in k .. Len(s) : r[j] = s[n]
       \/ j = k /\ \E m \in 1 .. k - 1 : m <= Len(s) /\ r[i] = s[m]

LEMMA InsertedFacts ==
  ASSUME NEW s \in Seq(Entries), NEW r, NEW k, NEW e, Inserted(s, r, k, e)
  PROVE  With(s, r, k, e)
<1>1. /\ Len(s) \in Nat /\ k \in 1 .. Len(s) + 1 /\ Len(r) = Len(s) + 1 /\ r[k] = e
      /\ \A i \in 1 .. Len(r) : i # k => r[i] = s[IF i < k THEN i ELSE i - 1]
  BY LenProperties DEF Inserted
<1> DEFINE from(i) == IF i < k THEN i ELSE i - 1
<1>2. \A i \in 1 .. Len(r) : i # k => from(i) \in 1 .. Len(s) /\ r[i] = s[from(i)]
  BY <1>1
<1>3. \A m \in 1 .. Len(s) : \E i \in 1 .. Len(r) : i # k /\ from(i) = m
  <2>1. SUFFICES ASSUME NEW m \in 1 .. Len(s)
                 PROVE  \E i \in 1 .. Len(r) : i # k /\ from(i) = m
    OBVIOUS
  <2>2. CASE m < k
    <3>1. m \in 1 .. Len(r) /\ m # k /\ from(m) = m
      BY <1>1, <2>2
    <3> QED BY <3>1
  <2>3. CASE ~ (m < k)
    <3>1. m + 1 \in 1 .. Len(r) /\ m + 1 # k /\ from(m + 1) = m
      BY <1>1, <2>1, <2>3
    <3> QED BY <3>1
  <2> QED BY <2>2, <2>3
<1>4. k \in 1 .. Len(r)
  BY <1>1
<1>5. ASSUME NEW i \in 1 .. Len(r), NEW j \in 1 .. Len(r), i < j
      PROVE  \/ \E m, n \in 1 .. Len(s) : m < n /\ r[i] = s[m] /\ r[j] = s[n]
             \/ i = k /\ \E n \in k .. Len(s) : r[j] = s[n]
             \/ j = k /\ \E m \in 1 .. k - 1 : m <= Len(s) /\ r[i] = s[m]
  <2>1. CASE i # k /\ j # k
    <3>1. from(i) < from(j)
      BY <1>1, <1>5, <2>1
    <3> HIDE DEF from
    <3> QED BY <1>2, <2>1, <3>1
  <2>2. CASE i = k
    <3>1. j # k /\ from(j) \in k .. Len(s)
      BY <1>1, <1>5, <2>2
    <3> HIDE DEF from
    <3> QED BY <1>2, <2>2, <3>1
  <2>3. CASE j = k
    <3>1. i # k /\ from(i) \in 1 .. k - 1 /\ from(i) <= Len(s)
      BY <1>1, <1>5, <2>3
    <3> HIDE DEF from
    <3> QED BY <1>2, <2>3, <3>1
  <2> QED BY <2>1, <2>2, <2>3
<1> HIDE DEF from
<1>6. \A i \in 1 .. Len(r) : i # k => \E m \in 1 .. Len(s) : r[i] = s[m]
  BY <1>2
<1>7. \A m \in 1 .. Len(s) : \E i \in 1 .. Len(r) : r[i] = s[m]
  BY <1>2, <1>3
<1> QED BY <1>1, <1>4, <1>5, <1>6, <1>7 DEF With

\* What nothing below may disturb: the books stay as they are while their
\* orders stay active.
LEMMA BooksFrame ==
  ASSUME TypeOK, BooksInv, book' = book,
         \A o \in OrderIds : track[o] = "Active" =>
           track'[o] = "Active" /\ BookOf(o)' = BookOf(o)
  PROVE  BooksInv'
<1>1. SUFFICES ASSUME NEW b \in Books
               PROVE  (/\ \A i \in 1 .. Len(book[b]) :
                            track[book[b][i].order] = "Active" /\ BookOf(book[b][i].order) = b
                       /\ \A i, j \in 1 .. Len(book[b]) :
                            book[b][i].order = book[b][j].order => i = j)'
  BY DEF BooksInv
<1>2. \A i \in 1 .. Len(book[b]) : book[b][i].order \in OrderIds
  BY QueueFacts
<1> QED BY <1>2 DEF BooksInv

\* What is appended to a queue is in it, with what was.
LEMMA AppendedFacts ==
  ASSUME NEW S, NEW s \in Seq(S), NEW e \in S
  PROVE  /\ Len(Append(s, e)) = Len(s) + 1 /\ Len(s) \in Nat
         /\ Append(s, e)[Len(s) + 1] = e
         /\ \A i \in 1 .. Len(s) : Append(s, e)[i] = s[i] /\ i \in 1 .. Len(s) + 1
         /\ \A i \in 1 .. Len(s) + 1 : i \in 1 .. Len(s) \/ i = Len(s) + 1
<1>1. Len(s) \in Nat
  BY LenProperties
<1>2. /\ Len(Append(s, e)) = Len(s) + 1 /\ Append(s, e)[Len(s) + 1] = e
      /\ \A i \in 1 .. Len(s) : Append(s, e)[i] = s[i]
  BY AppendProperties
<1>3. \A i \in 1 .. Len(s) + 1 : i \in 1 .. Len(s) \/ i = Len(s) + 1
  BY <1>1
<1>4. \A i \in 1 .. Len(s) : i \in 1 .. Len(s) + 1
  BY <1>1
<1> QED BY <1>1, <1>2, <1>3, <1>4
-----------------------------------------------------------------------------
(* Each action keeps the invariant. *)

LEMMA PlaceOrderKeeps ==
  ASSUME IInv, TypeOK',
         NEW o \in OrderIds, NEW side \in Sides, NEW k \in Kinds, NEW quan \in Quantities,
         NEW limit \in Prices, PlaceOrder(o, side, k, quan, limit)
  PROVE  IInv'
<1> USE SimConstantsAssumption
<1>1. /\ TypeOK /\ OrderInv(o) /\ BooksInv /\ DelayInv /\ CancelsInv
      /\ \A p \in OrderIds : OrderInv(p)
  BY DEF IInv
<1>2. track[o] = "Unknown" /\ kind[o] = "None" /\ age[o] = 0 /\ ~ asked[o]
  BY <1>1 DEF PlaceOrder, OrderInv
<1> DEFINE row == SetSendingToProvider(NewOrder(side, quan))
<1>3. /\ row \in OrderRow /\ row.quan = quan /\ row.remaining = quan /\ row.filled = 0
      /\ row.status = "SendingToProvider" /\ quan \in Nat \ {0} /\ row.side = side
  BY NewOrderFacts, SetSendingFacts
<1>4. /\ kind' = [kind EXCEPT ![o] = k] /\ orders' = [orders EXCEPT ![o] = row]
      /\ delay' = Append(delay, o) /\ track' = [track EXCEPT ![o] = "Delay"]
      /\ age' = age /\ asked' = asked /\ cancels' = cancels /\ book' = book /\ failed' = failed
  BY DEF PlaceOrder
<1> HIDE DEF row
<1>5. /\ kind'[o] = k /\ orders'[o] = row /\ track'[o] = "Delay" /\ k # "None"
      /\ \A p \in OrderIds : p # o =>
           kind'[p] = kind[p] /\ orders'[p] = orders[p] /\ track'[p] = track[p]
  <2>1. k # "None"
    OBVIOUS
  <2> QED BY <1>1, <1>4, <2>1 DEF TypeOK
<1>6. /\ delay \in Seq(OrderIds) /\ Len(delay) \in Nat
      /\ Len(delay') = Len(delay) + 1 /\ delay'[Len(delay) + 1] = o
      /\ \A i \in 1 .. Len(delay) : delay'[i] = delay[i] /\ i \in 1 .. Len(delay) + 1
      /\ \A i \in 1 .. Len(delay) + 1 : i \in 1 .. Len(delay) \/ i = Len(delay) + 1
  BY <1>1, <1>4, AppendedFacts DEF TypeOK
<1>7. OrderInv(o)'
  <2>1. Contains(delay, o)'
    BY <1>6 DEF Contains
  <2>2. row.filled + row.remaining = row.quan /\ row.quan > 0 /\ row.remaining > 0
    BY <1>3
  <2> QED BY <1>2, <1>3, <1>4, <1>5, <2>1, <2>2 DEF OrderInv
<1>8. ASSUME NEW p \in OrderIds, p # o
      PROVE  OrderInv(p)'
  <2>1. Contains(delay, p) => Contains(delay, p)'
    BY <1>6 DEF Contains
  <2>2. InBook(BookOf(p), p)' = InBook(BookOf(p), p)
    BY <1>4, <1>5, <1>8 DEF InBook, BookOf
  <2>3. age[p] \in Nat /\ age'[p] = age[p] /\ asked'[p] = asked[p]
    BY <1>1, <1>4 DEF TypeOK, Ages
  <2> QED BY <1>1, <1>5, <1>8, <2>1, <2>2, <2>3, OrderFrame
<1>9. BooksInv'
  <2>1. \A p \in OrderIds : track[p] = "Active" => track'[p] = "Active" /\ BookOf(p)' = BookOf(p)
    BY <1>2, <1>5 DEF BookOf
  <2> QED BY <1>1, <1>4, <2>1, BooksFrame
<1>10. DelayInv'
  <2>1. \A i \in 1 .. Len(delay) : delay[i] \in OrderIds /\ delay[i] # o
    BY <1>1, <1>2, QueueFacts DEF DelayInv
  <2>2. ASSUME NEW i \in 1 .. Len(delay')
        PROVE  /\ track'[delay'[i]] # "Unknown"
               /\ track'[delay'[i]] # "Delay" => Changes /\ kind'[delay'[i]] = "Limit"
    <3>1. CASE i \in 1 .. Len(delay)
      BY <1>1, <1>5, <1>6, <2>1, <3>1 DEF DelayInv, Repeated
    <3>2. CASE i = Len(delay) + 1
      BY <1>5, <1>6, <3>2
    <3> QED BY <1>6, <2>2, <3>1, <3>2
  <2>3. ASSUME NEW i \in 1 .. Len(delay'), NEW j \in 1 .. Len(delay'),
               delay'[i] = delay'[j], ~ (Changes /\ kind'[delay'[i]] = "Limit")
        PROVE  i = j
    <3>1. CASE i \in 1 .. Len(delay) /\ j \in 1 .. Len(delay)
      BY <1>1, <1>5, <1>6, <2>1, <2>3, <3>1 DEF DelayInv, Repeated
    <3>2. CASE i = Len(delay) + 1 \/ j = Len(delay) + 1
      BY <1>6, <2>1, <2>3, <3>2
    <3> QED BY <1>6, <3>1, <3>2
  <2> QED BY <2>2, <2>3 DEF DelayInv, Repeated
<1>11. CancelsInv'
  <2>1. \A i \in 1 .. Len(cancels) : cancels[i].order \in OrderIds /\ cancels[i].order # o
    BY <1>1, <1>2, QueueFacts DEF CancelsInv
  <2> QED BY <1>1, <1>4, <1>5, <2>1 DEF CancelsInv
<1> QED BY <1>1, <1>4, <1>7, <1>8, <1>9, <1>10, <1>11 DEF IInv

LEMMA ChangeOrderKeeps ==
  ASSUME IInv, TypeOK', NEW o \in OrderIds, NEW limit \in Prices, ChangeOrder(o, limit)
  PROVE  IInv'
<1>1. /\ TypeOK /\ OrderInv(o) /\ BooksInv /\ DelayInv /\ CancelsInv
      /\ \A p \in OrderIds : OrderInv(p)
  BY DEF IInv
<1>2. Changes /\ kind[o] = "Limit"
  BY DEF ChangeOrder
<1>3. track[o] # "Unknown"
  BY <1>1, <1>2 DEF OrderInv
<1>4. /\ delay' = Append(delay, o)
      /\ UNCHANGED <<kind, age, asked, orders, track, cancels, book, failed>>
  BY DEF ChangeOrder
<1>5. /\ Len(delay) \in Nat
      /\ Len(delay') = Len(delay) + 1 /\ delay'[Len(delay) + 1] = o
      /\ \A i \in 1 .. Len(delay) : delay'[i] = delay[i] /\ i \in 1 .. Len(delay) + 1
      /\ \A i \in 1 .. Len(delay) + 1 : i \in 1 .. Len(delay) \/ i = Len(delay) + 1
  BY <1>1, <1>4, AppendedFacts DEF TypeOK
<1>6. ASSUME NEW p \in OrderIds
      PROVE  OrderInv(p)'
  <2>1. Contains(delay, p) => Contains(delay, p)'
    BY <1>5 DEF Contains
  <2>2. InBook(BookOf(p), p)' = InBook(BookOf(p), p)
    BY <1>4 DEF InBook, BookOf
  <2>3. age[p] \in Nat
    BY <1>1, SimConstantsAssumption DEF TypeOK, Ages
  <2> QED BY <1>1, <1>4, <2>1, <2>2, <2>3, OrderFrame
<1>7. DelayInv'
  <2>1. ASSUME NEW i \in 1 .. Len(delay')
        PROVE  /\ track[delay'[i]] # "Unknown"
               /\ track[delay'[i]] # "Delay" => Changes /\ kind[delay'[i]] = "Limit"
    <3>1. CASE i \in 1 .. Len(delay)
      BY <1>1, <1>5, <3>1 DEF DelayInv, Repeated
    <3>2. CASE i = Len(delay) + 1
      BY <1>2, <1>3, <1>5, <3>2
    <3> QED BY <1>5, <2>1, <3>1, <3>2
  <2>2. ASSUME NEW i \in 1 .. Len(delay'), NEW j \in 1 .. Len(delay'),
               delay'[i] = delay'[j], ~ (Changes /\ kind[delay'[i]] = "Limit")
        PROVE  i = j
    <3>1. i \in 1 .. Len(delay) /\ j \in 1 .. Len(delay)
      BY <1>2, <1>5, <2>2
    <3> QED BY <1>1, <1>5, <2>2, <3>1 DEF DelayInv, Repeated
  <2> QED BY <1>4, <2>1, <2>2 DEF DelayInv, Repeated
<1>8. BooksInv' /\ CancelsInv'
  BY <1>1, <1>4 DEF BooksInv, CancelsInv, BookOf
<1> QED BY <1>1, <1>4, <1>6, <1>7, <1>8 DEF IInv

LEMMA CancelOrderKeeps ==
  ASSUME IInv, TypeOK', NEW o \in OrderIds, CancelOrder(o)
  PROVE  IInv'
<1>1. /\ TypeOK /\ BooksInv /\ DelayInv /\ CancelsInv
      /\ \A p \in OrderIds : OrderInv(p)
  BY DEF IInv
<1>2. track[o] \in {"Delay", "Active"}
  BY DEF CancelOrder
<1>3. /\ asked' = [asked EXCEPT ![o] = TRUE]
      /\ cancels' = Append(cancels, [order |-> o, age |-> 0])
      /\ UNCHANGED <<kind, age, orders, track, delay, book, failed>>
  BY DEF CancelOrder
<1>4. asked'[o] /\ \A p \in OrderIds : p # o => asked'[p] = asked[p]
  BY <1>1, <1>3 DEF TypeOK
<1>5. /\ Len(cancels) \in Nat
      /\ Len(cancels') = Len(cancels) + 1 /\ cancels'[Len(cancels) + 1].order = o
      /\ \A i \in 1 .. Len(cancels) : cancels'[i] = cancels[i]
      /\ \A i \in 1 .. Len(cancels) + 1 : i \in 1 .. Len(cancels) \/ i = Len(cancels) + 1
  <2>1. [order |-> o, age |-> 0] \in Cancellations /\ cancels \in Seq(Cancellations)
    BY <1>1, SimConstantsAssumption DEF Cancellations, Ages, TypeOK
  <2> QED BY <1>3, <2>1, AppendedFacts
<1>6. ASSUME NEW p \in OrderIds
      PROVE  OrderInv(p)'
  <2>1. Contains(delay, p)' = Contains(delay, p) /\ InBook(BookOf(p), p)' = InBook(BookOf(p), p)
    BY <1>3 DEF Contains, InBook, BookOf
  <2>2. CASE p = o
    BY <1>1, <1>2, <1>3, <2>1, <2>2 DEF OrderInv
  <2>3. CASE p # o
    <3>1. age[p] \in Nat
      BY <1>1, SimConstantsAssumption DEF TypeOK, Ages
    <3>2. asked'[p] = asked[p]
      BY <1>4, <2>3
    <3>3. /\ kind'[p] = kind[p] /\ orders'[p] = orders[p] /\ track'[p] = track[p]
          /\ age'[p] = age[p] /\ age'[p] >= age[p]
      BY <1>3, <3>1
    <3>4. OrderInv(p)
      BY <1>1
    <3> QED BY <2>1, <3>1, <3>2, <3>3, <3>4, OrderFrame
  <2> QED BY <2>2, <2>3
<1>7. CancelsInv'
  <2>1. ASSUME NEW i \in 1 .. Len(cancels')
        PROVE  asked'[cancels'[i].order] /\ track'[cancels'[i].order] # "Unknown"
    <3>1. CASE i \in 1 .. Len(cancels)
      <4>1. cancels[i].order \in OrderIds
        BY <1>1, <3>1, QueueFacts
      <4>2. asked'[cancels[i].order]
        BY <1>1, <1>4, <3>1, <4>1 DEF CancelsInv
      <4> QED BY <1>1, <1>3, <1>5, <3>1, <4>2 DEF CancelsInv
    <3>2. CASE i = Len(cancels) + 1
      BY <1>2, <1>3, <1>4, <1>5, <3>2
    <3> QED BY <1>5, <2>1, <3>1, <3>2
  <2> QED BY <2>1 DEF CancelsInv
<1>8. BooksInv' /\ DelayInv'
  BY <1>1, <1>3 DEF BooksInv, DelayInv, Repeated, BookOf
<1> QED BY <1>1, <1>3, <1>6, <1>7, <1>8 DEF IInv

LEMMA OlderFacts ==
  ASSUME NEW n \in Ages
  PROVE  Older(n) \in Ages /\ Older(n) >= n
BY SimConstantsAssumption DEF Older, Ages

LEMMA TickKeeps ==
  ASSUME IInv, TypeOK', Tick
  PROVE  IInv'
<1>1. /\ TypeOK /\ BooksInv /\ DelayInv /\ CancelsInv
      /\ \A p \in OrderIds : OrderInv(p)
  BY DEF IInv
<1>2. /\ age' = [o \in OrderIds |-> IF kind[o] = "None" THEN age[o] ELSE Older(age[o])]
      /\ cancels' = [i \in DOMAIN cancels |-> [cancels[i] EXCEPT !.age = Older(@)]]
      /\ UNCHANGED <<kind, asked, orders, track, delay, book, failed>>
  BY DEF Tick
<1>3. ASSUME NEW p \in OrderIds
      PROVE  OrderInv(p)'
  <2>1. Contains(delay, p)' = Contains(delay, p) /\ InBook(BookOf(p), p)' = InBook(BookOf(p), p)
    BY <1>2 DEF Contains, InBook, BookOf
  <2>2. age[p] \in Ages /\ Older(age[p]) \in Ages /\ Older(age[p]) >= age[p]
    BY <1>1, OlderFacts DEF TypeOK
  <2>3. age'[p] = IF kind[p] = "None" THEN age[p] ELSE Older(age[p])
    BY <1>2
  <2>4. kind[p] = "None" <=> track[p] = "Unknown"
    BY <1>1 DEF OrderInv
  <2>5. age[p] \in Nat /\ age'[p] \in Nat /\ age'[p] >= age[p]
    BY <2>2, <2>3, SimConstantsAssumption DEF Ages
  <2> QED BY <1>1, <1>2, <2>1, <2>3, <2>4, <2>5, OrderFrame
<1>4. CancelsInv'
  <2>1. Len(cancels') = Len(cancels) /\ \A i \in 1 .. Len(cancels) : cancels'[i].order = cancels[i].order
    <3>1. DOMAIN cancels = 1 .. Len(cancels) /\ Len(cancels) \in Nat
      BY <1>1, QueueFacts
    <3>2. \A i \in 1 .. Len(cancels) : cancels[i] \in Cancellations
      BY <1>1, ElementOfSeq DEF TypeOK
    <3>3. \A c \in Cancellations : [c EXCEPT !.age = Older(@)].order = c.order
      BY DEF Cancellations
    <3>4. \A i \in 1 .. Len(cancels) : cancels'[i] = [cancels[i] EXCEPT !.age = Older(@)]
      BY <1>2, <3>1
    <3>5. DOMAIN cancels' = 1 .. Len(cancels)
      BY <1>2, <3>1
    <3>6. DOMAIN cancels' = 1 .. Len(cancels') /\ Len(cancels') \in Nat
      BY LenProperties DEF TypeOK
    <3>7. Len(cancels') = Len(cancels)
      BY <3>1, <3>5, <3>6
    <3> QED BY <3>2, <3>3, <3>4, <3>7
  <2> QED BY <1>1, <1>2, <2>1 DEF CancelsInv
<1>5. BooksInv' /\ DelayInv'
  BY <1>1, <1>2 DEF BooksInv, DelayInv, Repeated, BookOf
<1> QED BY <1>1, <1>2, <1>3, <1>4, <1>5 DEF IInv

\* A quote goes on to the next queue.
LEMMA StageKeeps ==
  ASSUME IInv, TypeOK', UNCHANGED <<attributes, orders, track, delay, cancels, book>>
  PROVE  IInv'
<1>1. UNCHANGED <<kind, age, asked, orders, track, delay, cancels, book>>
  BY DEF attributes
<1>2. \A o \in OrderIds : OrderInv(o)'
  <2>1. ASSUME NEW o \in OrderIds
        PROVE  OrderInv(o)'
    <3>1. Contains(delay, o)' = Contains(delay, o) /\ InBook(BookOf(o), o)' = InBook(BookOf(o), o)
      BY <1>1 DEF Contains, InBook, BookOf
    <3>2. age[o] \in Nat /\ OrderInv(o)
      BY SimConstantsAssumption DEF IInv, TypeOK, Ages
    <3> QED BY <1>1, <3>1, <3>2, OrderFrame
  <2> QED BY <2>1
<1>3. BooksInv' /\ DelayInv' /\ CancelsInv'
  BY <1>1 DEF IInv, BooksInv, DelayInv, CancelsInv, Repeated, BookOf
<1> QED BY <1>1, <1>2, <1>3 DEF IInv

\* An active order leaves its book and ends: the others stay where they are.
LEMMA LeavesKeeps ==
  ASSUME IInv, TypeOK',
         NEW b \in Books, NEW k \in 1 .. Len(book[b]),
         Removed(book[b], book'[b], k), \A c \in Books : c # b => book'[c] = book[c],
         track' = [track EXCEPT ![book[b][k].order] = "Archive"],
         UNCHANGED <<kind, age, asked, delay>>,
         \A p \in OrderIds : p # book[b][k].order => orders'[p] = orders[p]
  PROVE  /\ \A p \in OrderIds : p # book[b][k].order => OrderInv(p)'
         /\ BooksInv' /\ DelayInv'
<1> DEFINE o == book[b][k].order
<1>1. /\ TypeOK /\ BooksInv /\ DelayInv
      /\ \A p \in OrderIds : OrderInv(p)
  BY DEF IInv
<1>2. o \in OrderIds /\ track[o] = "Active" /\ BookOf(o) = b
  BY <1>1, QueueFacts DEF BooksInv
<1>3. track'[o] = "Archive" /\ \A p \in OrderIds : p # o => track'[p] = track[p]
  BY <1>1, <1>2 DEF TypeOK
<1>4. \A c \in Books : \A i \in 1 .. Len(book[c]) :
        /\ book[c][i].order \in OrderIds
        /\ track[book[c][i].order] = "Active" /\ BookOf(book[c][i].order) = c
  BY <1>1, QueueFacts DEF BooksInv
<1>5. \A c \in Books : \A i, j \in 1 .. Len(book[c]) : book[c][i].order = book[c][j].order => i = j
  BY <1>1 DEF BooksInv
<1>6. \A p \in OrderIds : p # o => BookOf(p)' = BookOf(p)
  BY DEF BookOf
<1>7. /\ \A i \in 1 .. Len(book'[b]) : \E m \in 1 .. Len(book[b]) : m # k /\ book'[b][i] = book[b][m]
      /\ \A i, j \in 1 .. Len(book'[b]) : i < j =>
           \E m, n \in 1 .. Len(book[b]) : m < n /\ book'[b][i] = book[b][m] /\ book'[b][j] = book[b][n]
      /\ \A m \in 1 .. Len(book[b]) : m # k => \E i \in 1 .. Len(book'[b]) : book'[b][i] = book[b][m]
  <2>1. book[b] \in Seq(Entries)
    BY <1>1, QueueFacts
  <2>2. Without(book[b], book'[b], k)
    BY <2>1, RemovedFacts
  <2> QED BY <2>2 DEF Without
<1>8. Len(book'[b]) \in Nat /\ \A c \in Books : DOMAIN book'[c] = 1 .. Len(book'[c])
  BY LenProperties DEF TypeOK
<1>9. \A c \in Books : DOMAIN book[c] = 1 .. Len(book[c]) /\ Len(book[c]) \in Nat
  BY <1>1, QueueFacts
<1>10. ASSUME NEW p \in OrderIds, p # o
       PROVE  OrderInv(p)'
  <2>1. Contains(delay, p)' = Contains(delay, p)
    BY DEF Contains
  <2>2. ASSUME InBook(BookOf(p), p)
        PROVE  \E i \in DOMAIN book'[BookOf(p)] : book'[BookOf(p)][i].order = p
    <3>1. BookOf(p) \in Books
      BY DEF BookOf, Books
    <3>2. PICK m \in 1 .. Len(book[BookOf(p)]) : book[BookOf(p)][m].order = p
      BY <1>9, <2>2, <3>1 DEF InBook
    <3>3. CASE BookOf(p) = b
      <4>1. m # k
        BY <1>10, <3>2, <3>3
      <4>2. PICK i \in 1 .. Len(book'[b]) : book'[b][i] = book[b][m]
        BY <1>7, <3>2, <3>3, <4>1
      <4>3. i \in DOMAIN book'[b] /\ book'[b][i].order = p
        BY <1>8, <3>2, <3>3, <4>2
      <4> QED BY <3>3, <4>3
    <3>4. CASE BookOf(p) # b
      BY <1>9, <3>1, <3>2, <3>4
    <3> QED BY <3>3, <3>4
  <2>3. InBook(BookOf(p), p) => InBook(BookOf(p), p)'
    <3>1. (BookOf(p))' = BookOf(p)
      BY <1>6, <1>10
    <3> QED BY <2>2, <3>1 DEF InBook
  <2>4. age[p] \in Nat
    BY <1>1, SimConstantsAssumption DEF TypeOK, Ages
  <2>5. OrderInv(p) /\ orders'[p] = orders[p] /\ track'[p] = track[p]
    BY <1>1, <1>3, <1>10
  <2> QED BY <2>1, <2>3, <2>4, <2>5, OrderFrame
<1>11. BooksInv'
  <2>1. ASSUME NEW c \in Books
        PROVE  /\ \A i \in 1 .. Len(book'[c]) :
                    track'[book'[c][i].order] = "Active" /\ BookOf(book[c][i].order)' = c
               /\ \A i, j \in 1 .. Len(book'[c]) : book'[c][i].order = book'[c][j].order => i = j
    <3>1. CASE c = b
      <4>1. ASSUME NEW i \in 1 .. Len(book'[b])
            PROVE  track'[book'[b][i].order] = "Active" /\ BookOf(book[b][i].order)' = b
        <5>1. PICK m \in 1 .. Len(book[b]) : m # k /\ book'[b][i] = book[b][m]
          BY <1>7
        <5> DEFINE p == book[b][m].order
        <5>2. p \in OrderIds /\ p # o /\ track[p] = "Active" /\ BookOf(p) = b
          BY <1>4, <1>5, <5>1
        <5> QED BY <1>3, <5>1, <5>2 DEF BookOf
      <4>2. ASSUME NEW i \in 1 .. Len(book'[b]), NEW j \in 1 .. Len(book'[b]),
                   book'[b][i].order = book'[b][j].order
            PROVE  i = j
        <5>1. ASSUME NEW x \in 1 .. Len(book'[b]), NEW y \in 1 .. Len(book'[b]), x < y
              PROVE  book'[b][x].order # book'[b][y].order
          <6>1. PICK m \in 1 .. Len(book[b]), n \in 1 .. Len(book[b]) :
                  m < n /\ book'[b][x] = book[b][m] /\ book'[b][y] = book[b][n]
            BY <1>7, <5>1
          <6>2. m # n
            BY <6>1
          <6> QED BY <1>5, <6>1, <6>2
        <5>2. ~ (i < j) /\ ~ (j < i)
          BY <4>2, <5>1
        <5>3. i \in Nat /\ j \in Nat
          BY <1>8
        <5> QED BY <5>2, <5>3
      <4> QED BY <3>1, <4>1, <4>2
    <3>2. CASE c # b
      <4>1. ASSUME NEW i \in 1 .. Len(book[c])
            PROVE  track'[book[c][i].order] = "Active" /\ BookOf(book[c][i].order)' = c
        <5> DEFINE p == book[c][i].order
        <5>1. p \in OrderIds /\ p # o /\ track[p] = "Active" /\ BookOf(p) = c
          BY <1>2, <1>4, <3>2
        <5>2. book'[c] = book[c]
          BY <3>2
        <5> QED BY <1>3, <5>1, <5>2 DEF BookOf
      <4> QED BY <1>5, <3>2, <4>1
    <3> QED BY <3>1, <3>2
  <2> QED BY <2>1 DEF BooksInv
<1>12. DelayInv'
  <2>1. \A i \in 1 .. Len(delay) : delay[i] \in OrderIds
    BY <1>1, QueueFacts
  <2> QED BY <1>1, <1>2, <1>3, <2>1 DEF DelayInv, Repeated
<1> QED BY <1>10, <1>11, <1>12

LEMMA FrontLeaves ==
  ASSUME NEW s \in Seq(Entries), s # <<>>
  PROVE  Leaves(s, Tail(s), Head(s).order)
<1>1. /\ 1 \in 1 .. Len(s) /\ Head(s) = s[1]
      /\ Tail(s) \in Seq(Entries) /\ Len(Tail(s)) = Len(s) - 1 /\ Len(s) \in Nat
      /\ \A i \in 1 .. Len(Tail(s)) : Tail(s)[i] = s[i + 1]
  BY HeadTail
<1> DEFINE r == Tail(s)
<1> HIDE DEF r
<1>2. \A i \in 1 .. Len(r) : r[i] = s[IF i < 1 THEN i ELSE i + 1]
  BY <1>1 DEF r
<1>3. Removed(s, r, 1) /\ s[1].order = Head(s).order
  BY <1>1, <1>2 DEF Removed, r
<1> QED BY <1>1, <1>3 DEF Leaves, r

\* The rest of a queue.
LEMMA TailFacts ==
  ASSUME NEW S, NEW s \in Seq(S), s # <<>>
  PROVE  \A i \in 1 .. Len(Tail(s)) : \E j \in 1 .. Len(s) : j = i + 1 /\ Tail(s)[i] = s[j]
BY HeadTail

\* An active order has a place in the book; one that has ended has none.
LEMMA ActiveInBook ==
  ASSUME IInv, NEW o \in OrderIds
  PROVE  /\ BookOf(o) \in Books
         /\ track[o] = "Active" => InBook(BookOf(o), o)
         /\ \A b \in Books : InBook(b, o) => track[o] = "Active" /\ BookOf(o) = b
<1>1. BookOf(o) \in Books
  BY DEF BookOf, Books
<1>2. track[o] = "Active" => InBook(BookOf(o), o)
  BY DEF IInv, OrderInv
<1>3. \A b \in Books : InBook(b, o) => track[o] = "Active" /\ BookOf(o) = b
  BY QueueFacts DEF IInv, BooksInv, InBook
<1> QED BY <1>1, <1>2, <1>3

LEMMA ProcessCancelQueueKeeps ==
  ASSUME IInv, TypeOK', ProcessCancelQueue
  PROVE  IInv'
<1>1. CASE ~ (cancels # <<>> /\ Ripe(Head(cancels).age))
  BY <1>1, StageKeeps DEF ProcessCancelQueue
<1>2. CASE cancels # <<>> /\ Ripe(Head(cancels).age)
  <2>1. /\ TypeOK /\ CancelsInv
        /\ \A p \in OrderIds : OrderInv(p)
    BY DEF IInv
  <2>2. /\ CancelOne(Head(cancels).order) /\ cancels' = Tail(cancels)
        /\ UNCHANGED <<kind, age, asked, delay>>
    BY <1>2 DEF ProcessCancelQueue, attributes
  <2>3. PICK o \in OrderIds :
          o = Head(cancels).order /\ asked[o] /\ track[o] # "Unknown"
    <3>1. cancels \in Seq(Cancellations)
      BY <2>1 DEF TypeOK
    <3>2. 1 \in 1 .. Len(cancels) /\ Head(cancels) = cancels[1]
      BY <1>2, <3>1, HeadTail
    <3> QED BY <2>1, <3>2, QueueFacts DEF CancelsInv
  <2>4. \A i \in 1 .. Len(cancels') :
          /\ cancels'[i].order \in OrderIds
          /\ asked[cancels'[i].order] /\ track[cancels'[i].order] # "Unknown"
    <3>1. ASSUME NEW i \in 1 .. Len(Tail(cancels))
          PROVE  \E j \in 1 .. Len(cancels) : Tail(cancels)[i] = cancels[j]
      <4>1. cancels \in Seq(Cancellations)
        BY <2>1 DEF TypeOK
      <4> QED BY <1>2, <4>1, TailFacts
    <3> QED BY <2>1, <2>2, <3>1, QueueFacts DEF CancelsInv
  <2>5. PICK b \in Books : b = BookOf(o) /\ (InBook(b, o) <=> track[o] = "Active")
    BY ActiveInBook
  <2>6. CASE InBook(b, o)
    <3>1. EraseAndEnd(b, o) /\ track[o] = "Active"
      BY <2>2, <2>3, <2>5, <2>6 DEF CancelOne
    <3>2. /\ orders' = [orders EXCEPT ![o] = MarkAsCancelled(@)]
          /\ track' = [track EXCEPT ![o] = "Archive"]
      BY <3>1 DEF EraseAndEnd, MigrateActiveToArchive
    <3>3. Leaves(book[b], book'[b], o) /\ \A c \in Books : c # b => book'[c] = book[c]
      <4> DEFINE left == RemoveFirstMatch(book[b], LAMBDA e : e.order = o)
      <4>1. book[b] \in Seq(Entries) /\ \E i \in 1 .. Len(book[b]) : book[b][i].order = o
        BY <2>1, <2>5, <2>6, QueueFacts DEF InBook
      <4>2. Leaves(book[b], left, o)
        BY <4>1, RemovedFrom
      <4>3. book' = [book EXCEPT ![b] = left]
        BY <3>1 DEF EraseAndEnd
      <4> HIDE DEF left
      <4>4. book'[b] = left
        BY <2>1, <2>5, <4>3 DEF TypeOK
      <4> QED BY <2>1, <4>2, <4>3, <4>4 DEF TypeOK
    <3>4. PICK k \in 1 .. Len(book[b]) : book[b][k].order = o /\ Removed(book[b], book'[b], k)
      BY <3>3 DEF Leaves
    <3>5. /\ \A p \in OrderIds : p # o => orders'[p] = orders[p] /\ track'[p] = track[p]
          /\ track'[o] = "Archive" /\ orders'[o] = MarkAsCancelled(orders[o])
      BY <2>1, <2>3, <3>2 DEF TypeOK
    <3>6. /\ \A p \in OrderIds : p # o => OrderInv(p)'
          /\ BooksInv' /\ DelayInv'
      BY <2>2, <2>5, <3>2, <3>3, <3>4, <3>5, LeavesKeeps
    <3>7. OrderInv(o)'
      <4>1. /\ orders'[o].filled = orders[o].filled /\ orders'[o].remaining = orders[o].remaining
            /\ orders'[o].quan = orders[o].quan
        BY <2>1, <2>3, <3>5, MarkAsCancelledFacts DEF TypeOK
      <4>2. asked'[o]
        BY <2>2, <2>3
      <4>3. OrderInv(o)
        BY <2>1, <2>3
      <4>4. /\ kind'[o] = "None" <=> track'[o] = "Unknown"
            /\ orders'[o].filled + orders'[o].remaining = orders'[o].quan
            /\ orders'[o].quan > 0
        BY <2>2, <2>3, <3>5, <4>1, <4>3 DEF OrderInv
      <4> QED BY <3>5, <4>2, <4>4 DEF OrderInv
    <3>8. CancelsInv'
      BY <2>2, <2>4, <3>5 DEF CancelsInv
    <3> QED BY <3>6, <3>7, <3>8 DEF IInv
  <2>7. CASE ~ InBook(b, o)
    <3>1. UNCHANGED <<orders, track, book>>
      BY <2>2, <2>3, <2>5, <2>7 DEF CancelOne
    <3>3. \A p \in OrderIds : OrderInv(p)'
      <4>1. ASSUME NEW p \in OrderIds
            PROVE  OrderInv(p)'
        <5>1. Contains(delay, p)' = Contains(delay, p) /\ InBook(BookOf(p), p)' = InBook(BookOf(p), p)
          BY <2>2, <3>1 DEF Contains, InBook, BookOf
        <5>2. age[p] \in Nat /\ OrderInv(p)
          BY <2>1, SimConstantsAssumption DEF TypeOK, Ages
        <5> QED BY <2>2, <3>1, <5>1, <5>2, OrderFrame
      <4> QED BY <4>1
    <3>4. BooksInv' /\ DelayInv'
      BY <2>2, <3>1 DEF IInv, BooksInv, DelayInv, Repeated, BookOf
    <3>5. CancelsInv'
      BY <2>2, <2>4, <3>1 DEF CancelsInv
    <3> QED BY <3>3, <3>4, <3>5 DEF IInv
  <2> QED BY <2>6, <2>7
<1> QED BY <1>1, <1>2

\* Of the order at the front of its book, some is executed, and it leaves the
\* book when nothing remains.
Fills(b, o, size) ==
  /\ track[o] = "Active" /\ BookOf(o) = b /\ o = Head(book[b]).order
  /\ size \in 0 .. orders[o].remaining
  /\ orders'[o].side = orders[o].side /\ orders'[o].quan = orders[o].quan
  /\ orders'[o].filled = orders[o].filled + size
  /\ orders'[o].remaining = orders[o].remaining - size
  /\ orders'[o].status = IF size = orders[o].remaining THEN "Filled" ELSE "Filling"
  /\ \A p \in OrderIds : p # o => orders'[p] = orders[p]
  /\ \A c \in Books : c # b => book'[c] = book[c]
  /\ failed' = failed
  /\ IF size = orders[o].remaining
     THEN track' = [track EXCEPT ![o] = "Archive"] /\ Leaves(book[b], book'[b], o)
     ELSE UNCHANGED <<track, book>>

LEMMA FillFirstFacts ==
  ASSUME IInv, NEW b \in Books, NEW available \in Nat, book[b] # <<>>, FillFirst(b, available)
  PROVE  \E o \in OrderIds, size \in Nat : Fills(b, o, size)
<1>1. TypeOK /\ BooksInv /\ \A p \in OrderIds : OrderInv(p)
  BY DEF IInv
<1>2. book[b] \in Seq(Entries)
  BY <1>1, QueueFacts
<1>3. PICK o \in OrderIds :
        /\ o = Head(book[b]).order /\ track[o] = "Active" /\ BookOf(o) = b
        /\ Leaves(book[b], Tail(book[b]), o)
  <2>1. Leaves(book[b], Tail(book[b]), Head(book[b]).order)
    BY <1>2, FrontLeaves
  <2>2. 1 \in 1 .. Len(book[b]) /\ Head(book[b]) = book[b][1]
    BY <1>2, HeadTail
  <2> QED BY <1>1, <2>1, <2>2, QueueFacts DEF BooksInv
<1> DEFINE left == orders[o].remaining
           size == Applied(left, available)
<1>4. orders[o].remaining # 0 /\ orders[o].status \in {"SendingToProvider", "Filling"}
      /\ orders[o] \in OrderRow
  BY <1>1, <1>3 DEF OrderInv, OrderRow, TypeOK
<1>5. /\ left \in Nat \ {0} /\ size \in 0 .. left
      /\ Filled(o, size).side = orders[o].side /\ Filled(o, size).quan = orders[o].quan
      /\ Filled(o, size).filled = orders[o].filled + size
      /\ Filled(o, size).remaining = left - size
      /\ Filled(o, size).status = IF size = left THEN "Filled" ELSE "Filling"
  BY <1>1, <1>4, FilledFacts
<1>6. /\ orders' = [orders EXCEPT ![o] = Filled(o, size)]
      /\ IF Done(left, size)
         THEN MigrateActiveToArchive(o) /\ book' = [book EXCEPT ![b] = Tail(@)]
         ELSE UNCHANGED <<track, book, failed>>
  BY <1>3, <1>4 DEF FillFirst
<1> HIDE DEF size
<1>7. orders'[o] = Filled(o, size) /\ \A p \in OrderIds : p # o => orders'[p] = orders[p]
  BY <1>1, <1>6 DEF TypeOK
<1>8. CASE size = left
  <2>1. /\ track' = [track EXCEPT ![o] = "Archive"] /\ failed' = failed
        /\ book' = [book EXCEPT ![b] = Tail(@)]
    BY <1>3, <1>6, <1>8 DEF Done, MigrateActiveToArchive
  <2>2. book'[b] = Tail(book[b]) /\ \A c \in Books : c # b => book'[c] = book[c]
    BY <1>1, <2>1 DEF TypeOK
  <2>3. Leaves(book[b], book'[b], o)
    BY <1>3, <2>2
  <2>4. Fills(b, o, size)
    BY <1>3, <1>5, <1>7, <1>8, <2>1, <2>2, <2>3 DEF Fills
  <2> QED BY <1>5, <2>4
<1>9. CASE size # left
  <2>1. UNCHANGED <<track, book, failed>>
    BY <1>6, <1>9 DEF Done
  <2>2. Fills(b, o, size)
    BY <1>3, <1>5, <1>7, <1>9, <2>1 DEF Fills
  <2> QED BY <1>5, <2>2
<1> QED BY <1>8, <1>9

\* A quote executes the order at the front of one book, or none.
LEMMA ProcessOrdersFacts ==
  ASSUME IInv, NEW q \in Quotes, ProcessOrders(q)
  PROVE  \/ \E b \in Books, o \in OrderIds, size \in Nat : Fills(b, o, size)
         \/ UNCHANGED <<orders, track, book, failed>>
<1>1. q.askSize \in Nat /\ q.bidSize \in Nat /\ {"market", "asks", "bids"} \subseteq Books
  BY SimConstantsAssumption DEF Quotes, Books
<1>2. \/ \E b \in Books, n \in Nat : book[b] # <<>> /\ FillFirst(b, n)
      \/ UNCHANGED <<orders, track, book, failed>>
  BY <1>1 DEF ProcessOrders, ProcessMarketOrders, ProcessLimitOrders, AskReached, BidReached
<1> QED BY <1>2, FillFirstFacts

LEMMA ProcessOrdersKeeps ==
  ASSUME IInv, TypeOK', NEW q \in Quotes, ProcessOrders(q)
  PROVE  IInv'
<1>1. UNCHANGED <<kind, age, asked, delay, cancels>> /\ UNCHANGED attributes
  BY DEF ProcessOrders, attributes
<1>2. CASE UNCHANGED <<orders, track, book, failed>>
  BY <1>1, <1>2, StageKeeps
<1>3. ASSUME NEW b \in Books, NEW o \in OrderIds, NEW size \in Nat, Fills(b, o, size)
      PROVE  IInv'
  <2>1. /\ TypeOK /\ BooksInv /\ DelayInv /\ CancelsInv
        /\ \A p \in OrderIds : OrderInv(p)
    BY DEF IInv
  <2>3. orders[o] \in OrderRow /\ OrderInv(o) /\ track[o] = "Active" /\ BookOf(o) = b
    BY <1>3, <2>1 DEF TypeOK, Fills
  <2>4. CASE size = orders[o].remaining
    <3>1. track' = [track EXCEPT ![o] = "Archive"] /\ Leaves(book[b], book'[b], o)
      BY <1>3, <2>4 DEF Fills
    <3>2. PICK k \in 1 .. Len(book[b]) : book[b][k].order = o /\ Removed(book[b], book'[b], k)
      BY <3>1 DEF Leaves
    <3>3. /\ \A p \in OrderIds : p # o => OrderInv(p)'
          /\ BooksInv' /\ DelayInv'
      <4>1. /\ \A c \in Books : c # b => book'[c] = book[c]
            /\ \A p \in OrderIds : p # o => orders'[p] = orders[p]
        BY <1>3 DEF Fills
      <4> QED BY <1>1, <3>1, <3>2, <4>1, LeavesKeeps
    <3>4. track'[o] = "Archive" /\ \A p \in OrderIds : p # o => track'[p] = track[p]
      BY <2>1, <3>1 DEF TypeOK
    <3>5. OrderInv(o)'
      <4>1. /\ orders'[o].remaining = 0 /\ orders'[o].quan > 0
            /\ orders'[o].filled + orders'[o].remaining = orders'[o].quan
        BY <1>3, <2>3, <2>4 DEF Fills, OrderInv, OrderRow
      <4>2. kind'[o] = "None" <=> track'[o] = "Unknown"
        BY <1>1, <2>3, <3>4 DEF OrderInv
      <4> QED BY <3>4, <4>1, <4>2 DEF OrderInv
    <3>6. CancelsInv'
      BY <1>1, <2>1, <3>4, QueueFacts DEF CancelsInv
    <3> QED BY <3>3, <3>5, <3>6 DEF IInv
  <2>5. CASE size # orders[o].remaining
    <3>1. UNCHANGED <<track, book>>
      BY <1>3, <2>5 DEF Fills
    <3>2. \A p \in OrderIds : BookOf(p)' = BookOf(p)
      BY <1>1, <1>3 DEF Fills, BookOf
    <3>3. ASSUME NEW p \in OrderIds
          PROVE  OrderInv(p)'
      <4>1. Contains(delay, p)' = Contains(delay, p) /\ InBook(BookOf(p), p)' = InBook(BookOf(p), p)
        BY <1>1, <3>1, <3>2 DEF Contains, InBook
      <4>2. CASE p = o
        <5>1. /\ orders'[o].remaining > 0 /\ orders'[o].quan > 0
              /\ orders'[o].filled + orders'[o].remaining = orders'[o].quan
              /\ orders'[o].status = "Filling"
          BY <1>3, <2>3, <2>5 DEF Fills, OrderInv, OrderRow
        <5>2. track'[o] = "Active" /\ kind'[o] = kind[o] /\ age'[o] = age[o]
          BY <1>1, <2>3, <3>1
        <5>3. (kind[o] = "None" <=> track[o] = "Unknown") /\ age[o] > Delay /\ InBook(BookOf(o), o)
          BY <2>3 DEF OrderInv
        <5> QED BY <2>3, <4>1, <4>2, <5>1, <5>2, <5>3 DEF OrderInv
      <4>3. CASE p # o
        <5>1. orders'[p] = orders[p]
          BY <1>3, <4>3 DEF Fills
        <5>2. age[p] \in Nat /\ OrderInv(p)
          BY <2>1, SimConstantsAssumption DEF TypeOK, Ages
        <5> QED BY <1>1, <3>1, <4>1, <5>1, <5>2, OrderFrame
      <4> QED BY <4>2, <4>3
    <3>4. BooksInv'
      BY <2>1, <3>1, <3>2, BooksFrame
    <3>5. DelayInv' /\ CancelsInv'
      BY <1>1, <2>1, <3>1 DEF DelayInv, CancelsInv, Repeated
    <3> QED BY <3>3, <3>4, <3>5 DEF IInv
  <2> QED BY <2>4, <2>5
<1> QED BY <1>2, <1>3, ProcessOrdersFacts

\* What an order that leaves the delay queue leaves there.
LEMMA DelayTail ==
  ASSUME IInv, NEW o \in OrderIds, delay # <<>>, o = Head(delay)
  PROVE  /\ track[o] # "Unknown" /\ (track[o] # "Delay" => Repeated(o))
         /\ Contains(delay, o)
         /\ \A p \in OrderIds : p # o /\ Contains(delay, p) => Contains(Tail(delay), p)
         /\ \A i \in 1 .. Len(Tail(delay)) :
              /\ Tail(delay)[i] \in OrderIds /\ track[Tail(delay)[i]] # "Unknown"
              /\ track[Tail(delay)[i]] # "Delay" => Repeated(Tail(delay)[i])
              /\ Tail(delay)[i] = o => Repeated(o)
         /\ \A i, j \in 1 .. Len(Tail(delay)) :
              Tail(delay)[i] = Tail(delay)[j] /\ ~ Repeated(Tail(delay)[i]) => i = j
<1> DEFINE t == Tail(delay)
<1>1. /\ DelayInv /\ delay \in Seq(OrderIds) /\ Len(delay) \in Nat
      /\ \A i \in 1 .. Len(delay) : delay[i] \in OrderIds
  BY QueueFacts DEF IInv, TypeOK
<1>2. /\ 1 \in 1 .. Len(delay) /\ delay[1] = o /\ Len(t) = Len(delay) - 1
      /\ \A i \in 1 .. Len(t) : i + 1 \in 1 .. Len(delay) /\ t[i] = delay[i + 1]
  BY <1>1, HeadTail
<1>3. track[o] # "Unknown" /\ (track[o] # "Delay" => Repeated(o)) /\ Contains(delay, o)
  BY <1>1, <1>2 DEF DelayInv, Contains
<1> HIDE DEF t
<1>4. ASSUME NEW p \in OrderIds, p # o, Contains(delay, p)
      PROVE  Contains(t, p)
  <2>1. PICK i \in 1 .. Len(delay) : delay[i] = p
    BY <1>4 DEF Contains
  <2>2. i - 1 \in 1 .. Len(t) /\ (i - 1) + 1 = i
    BY <1>1, <1>2, <1>4, <2>1
  <2>3. t[i - 1] = p
    BY <1>2, <2>1, <2>2
  <2> QED BY <2>2, <2>3 DEF Contains
<1>5. ASSUME NEW i \in 1 .. Len(t)
      PROVE  /\ t[i] \in OrderIds /\ track[t[i]] # "Unknown"
             /\ track[t[i]] # "Delay" => Repeated(t[i])
             /\ t[i] = o => Repeated(o)
  <2>1. i + 1 \in 1 .. Len(delay) /\ t[i] = delay[i + 1] /\ i + 1 # 1
    BY <1>1, <1>2
  <2> QED BY <1>1, <1>2, <2>1 DEF DelayInv
<1>6. ASSUME NEW i \in 1 .. Len(t), NEW j \in 1 .. Len(t), t[i] = t[j], ~ Repeated(t[i])
      PROVE  i = j
  <2>1. /\ i + 1 \in 1 .. Len(delay) /\ t[i] = delay[i + 1]
        /\ j + 1 \in 1 .. Len(delay) /\ t[j] = delay[j + 1]
    BY <1>2
  <2>2. i + 1 = j + 1
    BY <1>1, <1>6, <2>1 DEF DelayInv
  <2>3. i \in Nat /\ j \in Nat
    BY <1>1, <1>2
  <2> QED BY <2>2, <2>3
<1> QED BY <1>3, <1>4, <1>5, <1>6 DEF t

\* An order leaves the delay queue for its book, for the first time.
LEMMA EntersKeeps ==
  ASSUME IInv, TypeOK', NEW o \in OrderIds, NEW b \in Books, NEW e,
         b = BookOf(o), e.order = o, track[o] = "Delay",
         Enters(book[b], book'[b], b, e), \A c \in Books : c # b => book'[c] = book[c],
         track' = [track EXCEPT ![o] = "Active"], UNCHANGED <<kind, orders>>
  PROVE  /\ BooksInv'
         /\ InBook(BookOf(o), o)'
         /\ \A p \in OrderIds : InBook(BookOf(p), p) => InBook(BookOf(p), p)'
<1>1. TypeOK /\ BooksInv
  BY DEF IInv
<1>2. track'[o] = "Active" /\ \A p \in OrderIds : p # o => track'[p] = track[p]
  BY <1>1 DEF TypeOK
<1>3. \A p \in OrderIds : BookOf(p)' = BookOf(p)
  BY DEF BookOf
<1>4. PICK k \in 1 .. Len(book[b]) + 1 : Inserted(book[b], book'[b], k, e)
  BY DEF Enters
<1>5. With(book[b], book'[b], k, e)
  BY <1>1, <1>4, QueueFacts, InsertedFacts
<1>6. /\ \A i \in 1 .. Len(book'[b]) : i # k =>
           \E m \in 1 .. Len(book[b]) : book'[b][i] = book[b][m]
      /\ k \in 1 .. Len(book'[b]) /\ book'[b][k].order = o
      /\ \A m \in 1 .. Len(book[b]) : \E i \in 1 .. Len(book'[b]) : book'[b][i] = book[b][m]
  BY <1>5 DEF With
<1>7. \A c \in Books : \A i \in 1 .. Len(book[c]) :
        /\ book[c][i].order \in OrderIds /\ book[c][i].order # o
        /\ track[book[c][i].order] = "Active" /\ BookOf(book[c][i].order) = c
  BY <1>1, QueueFacts DEF BooksInv
<1>8. \A c \in Books : \A i, j \in 1 .. Len(book[c]) : book[c][i].order = book[c][j].order => i = j
  BY <1>1 DEF BooksInv
<1>9. Len(book'[b]) \in Nat /\ \A c \in Books : DOMAIN book'[c] = 1 .. Len(book'[c])
  BY LenProperties DEF TypeOK
<1>10. BooksInv'
  <2>1. ASSUME NEW c \in Books, NEW i \in 1 .. Len(book'[c])
        PROVE  \E p \in OrderIds : /\ p = book'[c][i].order
                                   /\ track'[p] = "Active" /\ BookOf(p)' = c
    <3>1. CASE c # b
      BY <1>2, <1>3, <1>7, <3>1
    <3>2. CASE c = b /\ i = k
      BY <1>2, <1>3, <1>6, <3>2
    <3>3. CASE c = b /\ i # k
      <4>1. PICK m \in 1 .. Len(book[b]) : book'[b][i] = book[b][m]
        BY <1>6, <2>1, <3>3
      <4> QED BY <1>2, <1>3, <1>7, <3>3, <4>1
    <3> QED BY <3>1, <3>2, <3>3
  <2>2. ASSUME NEW i \in 1 .. Len(book'[b]), NEW j \in 1 .. Len(book'[b]), i < j
        PROVE  book'[b][i].order # book'[b][j].order
    <3>1. CASE \E m, n \in 1 .. Len(book[b]) : m < n /\ book'[b][i] = book[b][m] /\ book'[b][j] = book[b][n]
      <4>1. PICK m \in 1 .. Len(book[b]), n \in 1 .. Len(book[b]) :
              m < n /\ book'[b][i] = book[b][m] /\ book'[b][j] = book[b][n]
        BY <3>1
      <4>2. m # n
        BY <4>1
      <4> QED BY <1>8, <4>1, <4>2
    <3>2. CASE i = k \/ j = k
      <4>1. i # j /\ i \in Nat /\ j \in Nat
        BY <1>9, <2>2
      <4>2. ASSUME NEW x \in 1 .. Len(book'[b]), x # k
            PROVE  book'[b][x].order # o
        <5>1. PICK m \in 1 .. Len(book[b]) : book'[b][x] = book[b][m]
          BY <1>6, <4>2
        <5> QED BY <1>7, <5>1
      <4> QED BY <1>6, <3>2, <4>1, <4>2
    <3> QED BY <1>5, <2>2, <3>1, <3>2 DEF With
  <2>3. ASSUME NEW c \in Books, NEW i \in 1 .. Len(book'[c]), NEW j \in 1 .. Len(book'[c]),
               book'[c][i].order = book'[c][j].order
        PROVE  i = j
    <3>1. CASE c # b
      BY <1>8, <2>3, <3>1
    <3>2. CASE c = b
      <4>1. ~ (i < j) /\ ~ (j < i)
        BY <2>2, <2>3, <3>2
      <4>2. i \in Nat /\ j \in Nat
        BY <1>9, <3>2
      <4> QED BY <4>1, <4>2
    <3> QED BY <3>1, <3>2
  <2> QED BY <2>1, <2>3 DEF BooksInv
<1>11. InBook(BookOf(o), o)'
  <2>1. k \in DOMAIN book'[b] /\ book'[b][k].order = o
    BY <1>6, <1>9
  <2> QED BY <1>3, <2>1 DEF InBook
<1>12. ASSUME NEW p \in OrderIds, InBook(BookOf(p), p)
       PROVE  InBook(BookOf(p), p)'
  <2>1. PICK c \in Books : c = BookOf(p) /\ c = BookOf(p)'
    BY <1>3 DEF BookOf, Books
  <2>2. PICK m \in 1 .. Len(book[c]) : book[c][m].order = p
    BY <1>1, <1>12, <2>1, QueueFacts DEF InBook
  <2>3. \E i \in 1 .. Len(book'[c]) : book'[c][i].order = p
    <3>1. CASE c = b
      <4>1. PICK i \in 1 .. Len(book'[b]) : book'[b][i] = book[b][m]
        BY <1>6, <2>2, <3>1
      <4> QED BY <2>2, <3>1, <4>1
    <3>2. CASE c # b
      BY <2>2, <3>2
    <3> QED BY <3>1, <3>2
  <2> QED BY <1>9, <2>1, <2>3 DEF InBook
<1> QED BY <1>10, <1>11, <1>12

\* The orders of a book that loses an order and gets it back in another place.
SameOrders(s, r) ==
  /\ \A i \in 1 .. Len(r) : \E m \in 1 .. Len(s) : r[i].order = s[m].order
  /\ \A m \in 1 .. Len(s) : \E i \in 1 .. Len(r) : r[i].order = s[m].order
  /\ \A i, j \in 1 .. Len(r) : i < j => r[i].order # r[j].order

LEMMA MovedFacts ==
  ASSUME NEW s \in Seq(Entries), NEW t \in Seq(Entries), NEW r, NEW b, NEW e, NEW o,
         e.order = o, Leaves(s, t, o), Enters(t, r, b, e),
         \A i, j \in 1 .. Len(s) : s[i].order = s[j].order => i = j
  PROVE  SameOrders(s, r)
<1>1. PICK k \in 1 .. Len(s) : s[k].order = o /\ Removed(s, t, k)
  BY DEF Leaves
<1>2. /\ \A i \in 1 .. Len(t) : \E m \in 1 .. Len(s) : m # k /\ t[i] = s[m]
      /\ \A i, j \in 1 .. Len(t) : i < j =>
           \E m, n \in 1 .. Len(s) : m < n /\ t[i] = s[m] /\ t[j] = s[n]
      /\ \A m \in 1 .. Len(s) : m # k => \E i \in 1 .. Len(t) : t[i] = s[m]
  <2>1. Without(s, t, k)
    BY <1>1, RemovedFacts
  <2> QED BY <2>1 DEF Without
<1>3. PICK x \in 1 .. Len(t) + 1 : With(t, r, x, e)
  <2>1. PICK x \in 1 .. Len(t) + 1 : Inserted(t, r, x, e)
    BY DEF Enters
  <2>2. With(t, r, x, e)
    BY <2>1, InsertedFacts
  <2> QED BY <2>2
<1>4. /\ \A i \in 1 .. Len(r) : i # x => \E m \in 1 .. Len(t) : r[i] = t[m]
      /\ x \in 1 .. Len(r) /\ r[x].order = o
      /\ \A m \in 1 .. Len(t) : \E i \in 1 .. Len(r) : r[i] = t[m]
  BY <1>3 DEF With
<1>5. ASSUME NEW i \in 1 .. Len(r), i # x
      PROVE  \E m \in 1 .. Len(s) : m # k /\ r[i] = s[m]
  <2>1. PICK n \in 1 .. Len(t) : r[i] = t[n]
    BY <1>4, <1>5
  <2>2. PICK m \in 1 .. Len(s) : m # k /\ t[n] = s[m]
    BY <1>2
  <2> QED BY <2>1, <2>2
<1>6. \A i \in 1 .. Len(r) : i # x => r[i].order # o
  BY <1>1, <1>5
<1>7. \A i \in 1 .. Len(r) : \E m \in 1 .. Len(s) : r[i].order = s[m].order
  BY <1>1, <1>4, <1>5
<1>8. \A m \in 1 .. Len(s) : \E i \in 1 .. Len(r) : r[i].order = s[m].order
  <2>1. SUFFICES ASSUME NEW m \in 1 .. Len(s)
                 PROVE  \E i \in 1 .. Len(r) : r[i].order = s[m].order
    OBVIOUS
  <2>2. CASE m = k
    BY <1>1, <1>4, <2>2
  <2>3. CASE m # k
    <3>1. PICK i \in 1 .. Len(t) : t[i] = s[m]
      BY <1>2, <2>3
    <3>2. PICK j \in 1 .. Len(r) : r[j] = t[i]
      BY <1>4
    <3> QED BY <3>1, <3>2
  <2> QED BY <2>2, <2>3
<1>9. ASSUME NEW i \in 1 .. Len(r), NEW j \in 1 .. Len(r), i < j
      PROVE  r[i].order # r[j].order
  <2>1. CASE \E m, n \in 1 .. Len(t) : m < n /\ r[i] = t[m] /\ r[j] = t[n]
    <3>1. PICK m \in 1 .. Len(t), n \in 1 .. Len(t) : m < n /\ r[i] = t[m] /\ r[j] = t[n]
      BY <2>1
    <3>2. PICK y \in 1 .. Len(s), z \in 1 .. Len(s) : y < z /\ t[m] = s[y] /\ t[n] = s[z]
      BY <1>2, <3>1
    <3>3. y # z
      BY <3>2
    <3> QED BY <3>1, <3>2, <3>3
  <2>2. CASE i = x \/ j = x
    <3>1. i # j
      <4>1. i \in Int /\ j \in Int
        OBVIOUS
      <4> QED BY <1>9, <4>1
    <3> QED BY <1>4, <1>6, <2>2, <3>1
  <2> QED BY <1>3, <1>9, <2>1, <2>2 DEF With
<1> QED BY <1>7, <1>8, <1>9 DEF SameOrders

\* What an order that leaves the delay queue does, unless a change takes out
\* the entry of another order.
Delayed(o) ==
  \/ UNCHANGED <<track, book>>
  \/ /\ track[o] = "Active" /\ UNCHANGED track
     /\ \A b \in Books : b # BookOf(o) => book'[b] = book[b]
     /\ SameOrders(book[BookOf(o)], book'[BookOf(o)])
  \/ /\ track[o] = "Delay" /\ track' = [track EXCEPT ![o] = "Active"]
     /\ Enters(book[BookOf(o)], book'[BookOf(o)], BookOf(o), Entry(o))
     /\ \A b \in Books : b # BookOf(o) => book'[b] = book[b]

LEMMA DelayOneFacts ==
  ASSUME IInv, NEW o \in OrderIds, delay # <<>>, o = Head(delay), DelayOne(o), ~ mixed'
  PROVE  Delayed(o) /\ (track[o] = "Delay" => track'[o] = "Active")
<1>1. TypeOK /\ BooksInv
  BY DEF IInv
<1>2. track[o] # "Unknown"
  BY DelayTail
<1>3. PICK b \in Books : b = BookOf(o)
  BY ActiveInBook
<1>4. Entry(o) \in Entries /\ Entry(o).order = o
  BY <1>1 DEF Entry, Entries, TypeOK
<1>5. CASE track[o] = "Archive"
  BY <1>5 DEF DelayOne, Delayed
<1>6. CASE track[o] = "Active" /\ ~ OldFits(o)
  BY <1>6 DEF DelayOne, Delayed
<1>7. CASE track[o] = "Active" /\ OldFits(o)
  <2>1. /\ book' = [WithoutOld EXCEPT ![b] = Insert(@, b, Entry(o))]
        /\ UNCHANGED track /\ OldIs(o)
    BY <1>3, <1>7 DEF DelayOne
  <2>2. OldBook \in Books /\ book[OldBook] # <<>> /\ Head(book[OldBook]).order = o
    BY <2>1 DEF OldBook, OldIs, Books
  <2>3. book[b] \in Seq(Entries) /\ OldBook = b
    BY <1>1, <1>3, <1>7, <2>2, QueueFacts DEF OldFits
  <2>4. WithoutOld = [book EXCEPT ![b] = Tail(@)]
    BY <1>1, <2>2, <2>3 DEF WithoutOld, TypeOK
  <2>5. /\ \A c \in Books : c # b => book'[c] = book[c]
        /\ book'[b] = Insert(Tail(book[b]), b, Entry(o))
    BY <1>1, <2>1, <2>4 DEF TypeOK
  <2>6. Leaves(book[b], Tail(book[b]), o) /\ Tail(book[b]) \in Seq(Entries)
    BY <2>2, <2>3, FrontLeaves, HeadTail
  <2>7. Enters(Tail(book[b]), book'[b], b, Entry(o))
    BY <1>4, <2>5, <2>6, InsertedInto
  <2>8. SameOrders(book[b], book'[b])
    BY <1>1, <1>4, <2>3, <2>6, <2>7, MovedFacts DEF BooksInv
  <2> QED BY <1>3, <1>7, <2>1, <2>5, <2>8 DEF Delayed
<1>8. CASE track[o] = "Delay"
  <2>1. /\ track' = [track EXCEPT ![o] = "Active"]
        /\ book' = [book EXCEPT ![b] = Insert(@, b, Entry(o))]
    BY <1>3, <1>8 DEF DelayOne
  <2>2. book'[b] = Insert(book[b], b, Entry(o)) /\ \A c \in Books : c # b => book'[c] = book[c]
    BY <1>1, <2>1 DEF TypeOK
  <2>3. Enters(book[b], book'[b], b, Entry(o))
    BY <1>1, <1>4, <2>2, InsertedInto, QueueFacts
  <2>4. track'[o] = "Active"
    BY <1>1, <2>1 DEF TypeOK
  <2> QED BY <1>3, <1>8, <2>1, <2>2, <2>3, <2>4 DEF Delayed
<1> QED BY <1>1, <1>2, <1>5, <1>6, <1>7, <1>8 DEF TypeOK, Tracked

LEMMA ProcessDelayQueueKeeps ==
  ASSUME IInv, TypeOK', ProcessDelayQueue, ~ mixed'
  PROVE  IInv'
<1>1. CASE ~ (delay # <<>> /\ Ripe(age[Head(delay)]))
  BY <1>1, StageKeeps DEF ProcessDelayQueue
<1>2. CASE delay # <<>> /\ Ripe(age[Head(delay)])
  <2>1. /\ TypeOK /\ BooksInv /\ DelayInv /\ CancelsInv
        /\ \A p \in OrderIds : OrderInv(p)
    BY DEF IInv
  <2>2. PICK o \in OrderIds : o = Head(delay) /\ age[o] > Delay
    <3>1. delay \in Seq(OrderIds)
      BY <2>1 DEF TypeOK
    <3> QED BY <1>2, <3>1, HeadTail DEF Ripe
  <2>3. /\ DelayOne(o) /\ delay' = Tail(delay)
        /\ UNCHANGED <<kind, age, asked, orders, cancels>>
    BY <1>2, <2>2 DEF ProcessDelayQueue, attributes
  <2>4. Delayed(o) /\ (track[o] = "Delay" => track'[o] = "Active")
    BY <1>2, <2>2, <2>3, DelayOneFacts
  <2>6. PICK b \in Books : b = BookOf(o)
    BY ActiveInBook
  <2>7. /\ track[o] # "Delay" => Repeated(o)
        /\ \A p \in OrderIds : p # o /\ Contains(delay, p) => Contains(delay', p)
        /\ \A i \in 1 .. Len(delay') :
             /\ delay'[i] \in OrderIds /\ track[delay'[i]] # "Unknown"
             /\ track[delay'[i]] # "Delay" => Repeated(delay'[i])
             /\ delay'[i] = o => Repeated(o)
        /\ \A i, j \in 1 .. Len(delay') :
             delay'[i] = delay'[j] /\ ~ Repeated(delay'[i]) => i = j
    BY <1>2, <2>2, <2>3, DelayTail
  <2>8. track[o] # "Unknown"
    BY <1>2, <2>2, DelayTail
  <2>9. /\ BooksInv'
        /\ track[o] = "Delay" => InBook(BookOf(o), o)' /\ track'[o] = "Active"
        /\ track[o] # "Delay" => track'[o] = track[o]
        /\ \A p \in OrderIds : p # o => track'[p] = track[p]
        /\ \A p \in OrderIds : InBook(BookOf(p), p) => InBook(BookOf(p), p)'
    <3>1. CASE UNCHANGED <<track, book>>
      <4>1. UNCHANGED <<track, book>> /\ track[o] # "Delay"
        BY <2>4, <3>1
      <4>2. BooksInv'
        BY <2>1, <2>3, <4>1 DEF BooksInv, BookOf
      <4>3. \A p \in OrderIds : InBook(BookOf(p), p)' = InBook(BookOf(p), p)
        BY <2>3, <4>1 DEF InBook, BookOf
      <4> QED BY <3>1, <4>1, <4>2, <4>3
    <3>2. CASE track[o] = "Active" /\ ~ UNCHANGED <<track, book>>
      <4>1. /\ UNCHANGED track /\ \A c \in Books : c # b => book'[c] = book[c]
            /\ SameOrders(book[b], book'[b])
        BY <2>4, <2>6, <3>2 DEF Delayed
      <4>2. \A c \in Books :
              /\ \A i \in 1 .. Len(book'[c]) :
                   \E m \in 1 .. Len(book[c]) : book'[c][i].order = book[c][m].order
              /\ \A m \in 1 .. Len(book[c]) :
                   \E i \in 1 .. Len(book'[c]) : book'[c][i].order = book[c][m].order
        <5>1. SUFFICES ASSUME NEW c \in Books
                       PROVE  /\ \A i \in 1 .. Len(book'[c]) :
                                   \E m \in 1 .. Len(book[c]) : book'[c][i].order = book[c][m].order
                              /\ \A m \in 1 .. Len(book[c]) :
                                   \E i \in 1 .. Len(book'[c]) : book'[c][i].order = book[c][m].order
          OBVIOUS
        <5>2. CASE c = b
          BY <4>1, <5>2 DEF SameOrders
        <5>3. CASE c # b
          BY <4>1, <5>3
        <5> QED BY <5>2, <5>3
      <4>3. \A p \in OrderIds : BookOf(p)' = BookOf(p)
        BY <2>3 DEF BookOf
      <4>4. BooksInv'
        <5>1. \A c \in Books : \A i \in 1 .. Len(book[c]) :
                 /\ book[c][i].order \in OrderIds
                 /\ track[book[c][i].order] = "Active" /\ BookOf(book[c][i].order) = c
          BY <2>1, QueueFacts DEF BooksInv
        <5>2. ASSUME NEW c \in Books, NEW i \in 1 .. Len(book'[c])
              PROVE  \E p \in OrderIds : /\ p = book'[c][i].order
                                         /\ track'[p] = "Active" /\ BookOf(p)' = c
          <6>1. PICK m \in 1 .. Len(book[c]) : book'[c][i].order = book[c][m].order
            BY <4>2
          <6> QED BY <4>1, <4>3, <5>1, <6>1
        <5>3. ASSUME NEW c \in Books, NEW i \in 1 .. Len(book'[c]), NEW j \in 1 .. Len(book'[c]),
                     book'[c][i].order = book'[c][j].order
              PROVE  i = j
          <6>1. CASE c # b
            BY <2>1, <4>1, <5>3, <6>1 DEF BooksInv
          <6>2. CASE c = b
            <7>1. ~ (i < j) /\ ~ (j < i)
              BY <4>1, <5>3, <6>2 DEF SameOrders
            <7>2. i \in Nat /\ j \in Nat
              OBVIOUS
            <7> QED BY <7>1, <7>2
          <6> QED BY <6>1, <6>2
        <5> QED BY <5>2, <5>3 DEF BooksInv
      <4>5. ASSUME NEW p \in OrderIds, InBook(BookOf(p), p)
            PROVE  InBook(BookOf(p), p)'
        <5>1. PICK c \in Books : c = BookOf(p) /\ c = BookOf(p)'
          BY <4>3 DEF BookOf, Books
        <5>2. PICK m \in 1 .. Len(book[c]) : book[c][m].order = p
          BY <2>1, <4>5, <5>1, QueueFacts DEF InBook
        <5>3. DOMAIN book'[c] = 1 .. Len(book'[c])
          BY LenProperties DEF TypeOK
        <5>4. PICK i \in 1 .. Len(book'[c]) : book'[c][i].order = book[c][m].order
          BY <4>2
        <5> QED BY <5>1, <5>2, <5>3, <5>4 DEF InBook
      <4> QED BY <3>2, <4>1, <4>4, <4>5
    <3>3. CASE track[o] = "Delay" /\ ~ UNCHANGED <<track, book>>
      <4>1. /\ track' = [track EXCEPT ![o] = "Active"]
            /\ Enters(book[b], book'[b], b, Entry(o))
            /\ \A c \in Books : c # b => book'[c] = book[c]
        BY <2>4, <2>6, <3>3 DEF Delayed
      <4>2. Entry(o).order = o
        BY DEF Entry
      <4>3. /\ BooksInv' /\ InBook(BookOf(o), o)'
            /\ \A p \in OrderIds : InBook(BookOf(p), p) => InBook(BookOf(p), p)'
        BY <2>3, <2>6, <3>3, <4>1, <4>2, EntersKeeps
      <4>4. track'[o] = "Active" /\ \A p \in OrderIds : p # o => track'[p] = track[p]
        BY <2>1, <4>1 DEF TypeOK
      <4> QED BY <3>3, <4>3, <4>4
    <3> QED BY <2>4, <3>1, <3>2, <3>3 DEF Delayed
  <2>10. ASSUME NEW p \in OrderIds
         PROVE  OrderInv(p)'
    <3>1. CASE p # o \/ track[o] # "Delay"
      <4>1. track'[p] = track[p]
        BY <2>9, <3>1
      <4>2. track[p] = "Delay" => (Contains(delay, p) => Contains(delay, p)')
        BY <2>7, <3>1 DEF Contains
      <4>3. age[p] \in Nat /\ OrderInv(p)
        BY <2>1, SimConstantsAssumption DEF TypeOK, Ages
      <4>4. InBook(BookOf(p), p) => InBook(BookOf(p), p)'
        BY <2>9
      <4> QED BY <2>3, <4>1, <4>2, <4>3, <4>4, OrderFrame
    <3>2. CASE p = o /\ track[o] = "Delay"
      <4>1. InBook(BookOf(o), o)' /\ track'[o] = "Active"
        BY <2>9, <3>2
      <4>2. OrderInv(o)
        BY <2>1
      <4> QED BY <2>2, <2>3, <3>2, <4>1, <4>2 DEF OrderInv
    <3> QED BY <3>1, <3>2
  <2>11. DelayInv'
    <3>1. ASSUME NEW i \in 1 .. Len(delay')
          PROVE  track'[delay'[i]] # "Unknown" /\ (track'[delay'[i]] # "Delay" => Repeated(delay'[i]))
      BY <2>7, <2>8, <2>9
    <3> QED BY <2>3, <2>7, <3>1 DEF DelayInv, Repeated
  <2>12. CancelsInv'
    <3>1. \A i \in 1 .. Len(cancels) : cancels[i].order \in OrderIds
      BY <2>1, QueueFacts
    <3> QED BY <2>1, <2>3, <2>9, <3>1 DEF CancelsInv
  <2> QED BY <2>9, <2>10, <2>11, <2>12 DEF IInv
<1> QED BY <1>1, <1>2
-----------------------------------------------------------------------------
(* The invariant holds of every behaviour. *)

LEMMA InitInv == Init => IInv
<1> SUFFICES ASSUME Init PROVE IInv
  OBVIOUS
<1>1. TypeOK
  BY InitType
<1>2. ASSUME NEW o \in OrderIds
      PROVE  OrderInv(o)
  <2>1. NewOrder("Buy", 0).filled + NewOrder("Buy", 0).remaining = NewOrder("Buy", 0).quan
        /\ NewOrder("Buy", 0).quan = 0
    BY DEF NewOrder
  <2>2. /\ kind[o] = "None" /\ track[o] = "Unknown" /\ age[o] = 0 /\ ~ asked[o]
        /\ orders[o] = NewOrder("Buy", 0)
    BY DEF Init
  <2> QED BY <2>1, <2>2 DEF OrderInv
<1>3. /\ delay = <<>> /\ cancels = <<>> /\ \A b \in Books : book[b] = <<>>
      /\ \A o \in OrderIds : kind[o] = "None"
  BY DEF Init
<1>4. \A i : ~ (i \in 1 .. Len(<<>>))
  OBVIOUS
<1>5. BooksInv /\ DelayInv /\ CancelsInv
  BY <1>3, <1>4 DEF BooksInv, DelayInv, CancelsInv
<1> QED BY <1>1, <1>2, <1>5 DEF IInv

LEMMA InvKeeps == IInv /\ [Next]_vars /\ ~ mixed' => IInv'
<1> SUFFICES ASSUME IInv, [Next]_vars, ~ mixed' PROVE IInv'
  OBVIOUS
<1>1. TypeOK'
  BY TypeKeeps DEF IInv
<1>2. ASSUME NEW o \in OrderIds, Strategy(o)
      PROVE  IInv'
  BY <1>1, <1>2, PlaceOrderKeeps, ChangeOrderKeeps, CancelOrderKeeps DEF Strategy
<1>3. CASE Tick
  BY <1>1, <1>3, TickKeeps
<1>4. CASE NewQuote
  BY <1>1, <1>4, StageKeeps DEF NewQuote
<1>5. CASE ProcessCancelQueue
  BY <1>1, <1>5, ProcessCancelQueueKeeps
<1>6. CASE ProcessDelayQueue
  BY <1>1, <1>6, ProcessDelayQueueKeeps
<1>7. ASSUME NEW q \in Quotes, ProcessOrders(q)
      PROVE  IInv'
  BY <1>1, <1>7, ProcessOrdersKeeps
<1>8. CASE UNCHANGED vars
  BY <1>1, <1>8, StageKeeps DEF vars, attributes
<1> QED BY <1>2, <1>3, <1>4, <1>5, <1>6, <1>7, <1>8 DEF Next

\* Only a change can take out the entry of another order, and where no prices
\* are changed, none does.
LEMMA MixedSteps ==
  ASSUME TypeOK, [Next]_vars, mixed' # mixed
  PROVE  /\ ~ mixed /\ mixed' /\ UNCHANGED <<orders, asked, track, failed>>
         /\ IInv => Changes
<1>1. ProcessDelayQueue
  BY DEF Next, Strategy, PlaceOrder, ChangeOrder, CancelOrder, Tick, NewQuote,
         ProcessCancelQueue, ProcessOrders, vars
<1>2. delay # <<>> /\ DelayOne(Head(delay)) /\ UNCHANGED <<orders, attributes>>
  BY <1>1 DEF ProcessDelayQueue
<1>3. PICK o \in OrderIds : o = Head(delay)
  BY <1>2, HeadTail DEF TypeOK
<1>4. mixed' = (mixed \/ ~ OldIs(o)) /\ track[o] = "Active" /\ UNCHANGED <<track, failed>>
  BY <1>2, <1>3 DEF DelayOne
<1>5. mixed \in BOOLEAN
  BY DEF TypeOK
<1>6. IInv => Changes
  BY <1>2, <1>3, <1>4, DelayTail DEF Repeated
<1> QED BY <1>2, <1>4, <1>5, <1>6 DEF attributes
-----------------------------------------------------------------------------
(* What holds of the books also when entries were mixed up. *)

\* A book that loses some entries; the others keep their order.
Shrinks(s, r) ==
  /\ r \in Seq(Entries)
  /\ \A i \in 1 .. Len(r) : \E m \in 1 .. Len(s) : r[i] = s[m]
  /\ \A i, j \in 1 .. Len(r) : i < j =>
       \E m, n \in 1 .. Len(s) : m < n /\ r[i] = s[m] /\ r[j] = s[n]

\* The order o comes into the book b from the delay queue.
Comes(b, o) ==
  /\ delay # <<>> /\ o = Head(delay) /\ Ripe(age[o]) /\ b = BookOf(o)
  /\ UNCHANGED <<kind, price, age, orders>>
  /\ \E t \in Seq(Entries) : Shrinks(book[b], t) /\ Enters(t, book'[b], b, Entry(o))

LEMMA ShrinksFacts ==
  ASSUME NEW s \in Seq(Entries)
  PROVE  /\ Shrinks(s, s)
         /\ s # <<>> => Shrinks(s, Tail(s))
         /\ \A r, o : Leaves(s, r, o) => Shrinks(s, r)
<1>1. Shrinks(s, s)
  BY DEF Shrinks
<1>2. ASSUME NEW r, NEW o, Leaves(s, r, o)
      PROVE  Shrinks(s, r)
  <2>1. PICK k \in 1 .. Len(s) : Removed(s, r, k)
    BY <1>2 DEF Leaves
  <2>2. Without(s, r, k)
    BY <2>1, RemovedFacts
  <2> QED BY <2>1, <2>2 DEF Without, Removed, Shrinks
<1>3. s # <<>> => Shrinks(s, Tail(s))
  BY <1>2, FrontLeaves
<1> QED BY <1>1, <1>2, <1>3

\* A step takes entries out of the books, and puts one in from the delay queue.
LEMMA BookSteps ==
  ASSUME TypeOK, [Next]_vars, NEW b \in Books
  PROVE  Shrinks(book[b], book'[b]) \/ \E o \in OrderIds : Comes(b, o)
<1>1. \A c \in Books : book[c] \in Seq(Entries) /\ Shrinks(book[c], book[c])
  BY ShrinksFacts DEF TypeOK
<1>2. CASE UNCHANGED book
  BY <1>1, <1>2
<1>3. ASSUME NEW c \in Books, book[c] # <<>>, book' = [book EXCEPT ![c] = Tail(@)]
      PROVE  Shrinks(book[b], book'[b])
  <2>1. book'[b] = IF b = c THEN Tail(book[b]) ELSE book[b]
    BY <1>3 DEF TypeOK
  <2> QED BY <1>1, <1>3, <2>1, ShrinksFacts
<1>4. CASE ProcessCancelQueue
  <2>1. CASE UNCHANGED book
    BY <1>2, <2>1
  <2>2. CASE ~ UNCHANGED book
    <3>1. cancels # <<>> /\ CancelOne(Head(cancels).order)
      BY <1>4, <2>2 DEF ProcessCancelQueue
    <3>2. PICK o : o = Head(cancels).order
      OBVIOUS
    <3>3. PICK c \in Books : c = BookOf(o)
      BY DEF BookOf, Books
    <3>4. EraseAndEnd(c, o) /\ InBook(c, o)
      BY <2>2, <3>1, <3>2, <3>3 DEF CancelOne
    <3> DEFINE left == RemoveFirstMatch(book[c], LAMBDA e : e.order = o)
    <3>5. book[c] \in Seq(Entries) /\ \E i \in 1 .. Len(book[c]) : book[c][i].order = o
      BY <3>4, QueueFacts DEF InBook
    <3>6. Shrinks(book[c], left)
      <4>1. Leaves(book[c], left, o)
        BY <3>5, RemovedFrom
      <4> HIDE DEF left
      <4> QED BY <3>5, <4>1, ShrinksFacts
    <3>7. book' = [book EXCEPT ![c] = left]
      BY <3>4 DEF EraseAndEnd
    <3> HIDE DEF left
    <3>8. book'[b] = IF b = c THEN left ELSE book[b]
      BY <3>7 DEF TypeOK
    <3> QED BY <1>1, <3>6, <3>8
  <2> QED BY <2>1, <2>2
<1>5. CASE ProcessDelayQueue
  <2>1. CASE UNCHANGED book
    BY <1>2, <2>1
  <2>2. CASE ~ UNCHANGED book
    <3>1. /\ delay # <<>> /\ Ripe(age[Head(delay)]) /\ DelayOne(Head(delay))
          /\ UNCHANGED <<kind, price, age, orders>>
      BY <1>5, <2>2 DEF ProcessDelayQueue, attributes
    <3>2. PICK o \in OrderIds : o = Head(delay)
      BY <3>1, HeadTail DEF TypeOK
    <3>3. PICK c \in Books : c = BookOf(o)
      BY DEF BookOf, Books
    <3>4. Entry(o) \in Entries
      BY DEF Entry, Entries, TypeOK
    <3>5. PICK old \in {book, WithoutOld} : book' = [old EXCEPT ![c] = Insert(@, c, Entry(o))]
      BY <2>2, <3>1, <3>2, <3>3 DEF DelayOne
    <3>6. /\ old \in [Books -> Seq(Entries)]
          /\ \A d \in Books : Shrinks(book[d], old[d])
      <4>1. CASE old = book
        BY <1>1, <4>1 DEF TypeOK
      <4>2. CASE old = WithoutOld
        <5>1. OldBook \in Books
          BY DEF OldBook, Books
        <5>2. \A s \in Seq(Entries) : (IF s = <<>> THEN s ELSE Tail(s)) \in Seq(Entries)
          BY HeadTail
        <5>3. old \in [Books -> Seq(Entries)]
          BY <4>2, <5>1, <5>2 DEF WithoutOld, TypeOK
        <5>4. \A d \in Books : old[d] = IF d = OldBook /\ book[d] # <<>> THEN Tail(book[d]) ELSE book[d]
          BY <4>2, <5>1 DEF WithoutOld, TypeOK
        <5> QED BY <1>1, <5>3, <5>4, ShrinksFacts
      <4> QED BY <4>1, <4>2
    <3>7. book'[b] = IF b = c THEN Insert(old[b], c, Entry(o)) ELSE old[b]
      BY <3>5, <3>6
    <3>8. CASE b # c
      BY <3>6, <3>7, <3>8
    <3>9. CASE b = c
      <4>1. Enters(old[b], book'[b], b, Entry(o)) /\ old[b] \in Seq(Entries)
        BY <3>4, <3>6, <3>7, <3>9, InsertedInto
      <4> QED BY <3>1, <3>2, <3>3, <3>6, <3>9, <4>1 DEF Comes
    <3> QED BY <3>8, <3>9
  <2> QED BY <2>1, <2>2
<1>6. ASSUME NEW q \in Quotes, ProcessOrders(q)
      PROVE  Shrinks(book[b], book'[b])
  <2>1. {"market", "asks", "bids"} \subseteq Books
    BY DEF Books
  <2>2. \/ \E c \in Books : \E n : book[c] # <<>> /\ FillFirst(c, n)
        \/ UNCHANGED book
    BY <1>6, <2>1 DEF ProcessOrders, ProcessMarketOrders, ProcessLimitOrders, AskReached, BidReached
  <2>3. ASSUME NEW c \in Books, NEW n, book[c] # <<>>, FillFirst(c, n)
        PROVE  UNCHANGED book \/ book' = [book EXCEPT ![c] = Tail(@)]
    BY <2>3 DEF FillFirst
  <2>4. ASSUME NEW c \in Books, NEW n, book[c] # <<>>, FillFirst(c, n)
        PROVE  Shrinks(book[b], book'[b])
    <3>1. CASE UNCHANGED book
      BY <1>1, <3>1
    <3>2. CASE book' = [book EXCEPT ![c] = Tail(@)]
      BY <1>3, <2>4, <3>2
    <3> QED BY <2>3, <2>4, <3>1, <3>2
  <2>5. CASE UNCHANGED book
    BY <1>1, <2>5
  <2> QED BY <2>2, <2>4, <2>5
<1>7. ASSUME NEW o \in OrderIds, Strategy(o)
      PROVE  UNCHANGED book
  BY <1>7 DEF Strategy, PlaceOrder, ChangeOrder, CancelOrder
<1>8. Tick \/ NewQuote \/ UNCHANGED vars => UNCHANGED book
  BY DEF Tick, NewQuote, vars
<1> QED BY <1>2, <1>4, <1>5, <1>6, <1>7, <1>8 DEF Next

\* A step changes the row of an order when it is placed, cancelled, or executed
\* at the front of a book.
LEMMA RowSteps ==
  ASSUME TypeOK, [Next]_vars, NEW o \in OrderIds
  PROVE  \/ orders'[o] = orders[o]
         \/ /\ kind[o] = "None" /\ orders'[o].filled = 0
            /\ orders'[o].status = "SendingToProvider"
         \/ /\ orders'[o] = MarkAsCancelled(orders[o])
            /\ \E i \in DOMAIN cancels : cancels[i].order = o /\ cancels[i].age > Delay
         \/ \E b \in Books, n \in Nat :
              /\ book[b] # <<>> /\ o = Head(book[b]).order /\ orders[o].remaining # 0
              /\ orders'[o] = Filled(o, Applied(orders[o].remaining, n))
              /\ stage = "orders" /\ stage' = "idle"
<1>1. ASSUME NEW p \in OrderIds, NEW side \in Sides, NEW k \in Kinds, NEW quan \in Quantities,
             NEW limit \in Prices, PlaceOrder(p, side, k, quan, limit)
      PROVE  \/ orders'[o] = orders[o]
             \/ /\ kind[o] = "None" /\ orders'[o].filled = 0
                /\ orders'[o].status = "SendingToProvider"
  <2> DEFINE row == SetSendingToProvider(NewOrder(side, quan))
  <2>1. row.filled = 0 /\ row.status = "SendingToProvider"
    BY NewOrderFacts, SetSendingFacts, SimConstantsAssumption
  <2>2. orders' = [orders EXCEPT ![p] = row] /\ kind[p] = "None"
    BY <1>1 DEF PlaceOrder
  <2> HIDE DEF row
  <2>3. orders'[o] = IF o = p THEN row ELSE orders[o]
    BY <2>2 DEF TypeOK
  <2> QED BY <2>1, <2>2, <2>3
<1>2. CASE ProcessCancelQueue
  <2>1. CASE UNCHANGED orders
    BY <2>1
  <2>2. CASE ~ UNCHANGED orders
    <3>1. cancels # <<>> /\ Ripe(Head(cancels).age) /\ CancelOne(Head(cancels).order)
      BY <1>2, <2>2 DEF ProcessCancelQueue
    <3>2. 1 \in DOMAIN cancels /\ Head(cancels) = cancels[1]
      BY <3>1, HeadTail, LenProperties DEF TypeOK
    <3>3. orders' = [orders EXCEPT ![cancels[1].order] = MarkAsCancelled(@)]
      BY <2>2, <3>1, <3>2 DEF CancelOne, EraseAndEnd
    <3>4. orders'[o] = orders[o] \/ (o = cancels[1].order /\ orders'[o] = MarkAsCancelled(orders[o]))
      BY <3>3 DEF TypeOK
    <3> QED BY <3>1, <3>2, <3>4 DEF Ripe
  <2> QED BY <2>1, <2>2
<1>3. ASSUME NEW q \in Quotes, ProcessOrders(q)
      PROVE  \/ orders'[o] = orders[o]
             \/ \E b \in Books, n \in Nat :
                  /\ book[b] # <<>> /\ o = Head(book[b]).order /\ orders[o].remaining # 0
                  /\ orders'[o] = Filled(o, Applied(orders[o].remaining, n))
                  /\ stage = "orders" /\ stage' = "idle"
  <2>1. q.askSize \in Nat /\ q.bidSize \in Nat /\ {"market", "asks", "bids"} \subseteq Books
    BY SimConstantsAssumption DEF Quotes, Books
  <2>2. \/ \E b \in Books, n \in Nat : book[b] # <<>> /\ FillFirst(b, n)
        \/ UNCHANGED orders
    BY <1>3, <2>1 DEF ProcessOrders, ProcessMarketOrders, ProcessLimitOrders, AskReached, BidReached
  <2>3. ASSUME NEW b \in Books, NEW n \in Nat, book[b] # <<>>, FillFirst(b, n)
        PROVE  \/ orders'[o] = orders[o]
               \/ /\ o = Head(book[b]).order /\ orders[o].remaining # 0
                  /\ orders'[o] = Filled(o, Applied(orders[o].remaining, n))
    <3> DEFINE p == Head(book[b]).order
               row == Filled(p, Applied(orders[p].remaining, n))
    <3>1. UNCHANGED orders \/ (orders[p].remaining # 0 /\ orders' = [orders EXCEPT ![p] = row])
      BY <2>3 DEF FillFirst
    <3> HIDE DEF row
    <3>2. orders'[o] = orders[o] \/ (o = p /\ orders[p].remaining # 0 /\ orders'[o] = row)
      BY <3>1 DEF TypeOK
    <3> QED BY <3>2 DEF row
  <2>4. stage = "orders" /\ stage' = "idle"
    BY <1>3 DEF ProcessOrders
  <2>5. CASE UNCHANGED orders
    BY <2>5
  <2>6. ASSUME NEW b \in Books, NEW n \in Nat, book[b] # <<>>, FillFirst(b, n),
               orders'[o] # orders[o]
        PROVE  /\ book[b] # <<>> /\ o = Head(book[b]).order /\ orders[o].remaining # 0
               /\ orders'[o] = Filled(o, Applied(orders[o].remaining, n))
               /\ stage = "orders" /\ stage' = "idle"
    BY <2>3, <2>4, <2>6
  <2> QED BY <2>2, <2>5, <2>6
<1>4. ASSUME NEW p \in OrderIds, NEW limit \in Prices, ChangeOrder(p, limit) \/ CancelOrder(p)
      PROVE  UNCHANGED orders
  BY <1>4 DEF ChangeOrder, CancelOrder
<1>5. Tick \/ NewQuote \/ UNCHANGED vars \/ ProcessDelayQueue => UNCHANGED orders
  BY DEF Tick, NewQuote, vars, ProcessDelayQueue
<1>6. \A p \in OrderIds : CancelOrder(p) => UNCHANGED orders
  BY DEF CancelOrder
<1> QED BY <1>1, <1>2, <1>3, <1>4, <1>5, <1>6 DEF Next, Strategy

\* The type of a placed order stays, and its age does not go back.
LEMMA PlacedSteps ==
  ASSUME TypeOK, [Next]_vars, NEW o \in OrderIds
  PROVE  /\ kind[o] # "None" => kind'[o] = kind[o]
         /\ age'[o] >= age[o]
<1>1. \A n \in Ages : Older(n) >= n /\ n >= n
  BY OlderFacts, SimConstantsAssumption DEF Ages
<1>2. age[o] \in Ages /\ kind \in [OrderIds -> {"None"} \cup Kinds]
  BY DEF TypeOK
<1>3. kind[o] # "None" => kind'[o] = kind[o]
  <2>1. ASSUME NEW p \in OrderIds, NEW side \in Sides, NEW k \in Kinds, NEW quan \in Quantities,
               NEW limit \in Prices, PlaceOrder(p, side, k, quan, limit)
        PROVE  kind[o] # "None" => kind'[o] = kind[o]
    BY <1>2, <2>1 DEF PlaceOrder
  <2>2. UNCHANGED kind => (kind[o] # "None" => kind'[o] = kind[o])
    OBVIOUS
  <2>3. ASSUME NEW p \in OrderIds, NEW limit \in Prices, ChangeOrder(p, limit) \/ CancelOrder(p)
        PROVE  UNCHANGED kind
    BY <2>3 DEF ChangeOrder, CancelOrder
  <2>4. ASSUME NEW q \in Quotes, ProcessOrders(q)
        PROVE  UNCHANGED kind
    BY <2>4 DEF ProcessOrders, attributes
  <2>5. Tick \/ NewQuote \/ UNCHANGED vars \/ ProcessDelayQueue \/ ProcessCancelQueue => UNCHANGED kind
    BY DEF Tick, NewQuote, vars, ProcessDelayQueue, ProcessCancelQueue, attributes
  <2>6. \A p \in OrderIds : CancelOrder(p) => UNCHANGED kind
    BY DEF CancelOrder
  <2> QED BY <2>1, <2>2, <2>3, <2>4, <2>5, <2>6 DEF Next, Strategy
<1>4. age'[o] >= age[o]
  <2>1. CASE Tick
    <3>1. age'[o] = age[o] \/ age'[o] = Older(age[o])
      BY <2>1 DEF Tick
    <3> QED BY <1>1, <1>2, <3>1
  <2>2. CASE UNCHANGED age
    BY <1>1, <1>2, <2>2
  <2>3. ASSUME NEW p \in OrderIds, Strategy(p)
        PROVE  UNCHANGED age
    BY <2>3 DEF Strategy, PlaceOrder, ChangeOrder, CancelOrder
  <2>4. ASSUME NEW q \in Quotes, ProcessOrders(q)
        PROVE  UNCHANGED age
    BY <2>4 DEF ProcessOrders, attributes
  <2>5. NewQuote \/ UNCHANGED vars \/ ProcessDelayQueue \/ ProcessCancelQueue => UNCHANGED age
    BY DEF NewQuote, vars, ProcessDelayQueue, ProcessCancelQueue, attributes
  <2> QED BY <2>1, <2>2, <2>3, <2>4, <2>5 DEF Next
<1> QED BY <1>3, <1>4

\* An execution may turn the status of an order only of one that was cancelled
\* into one of a cancelled order.
LEMMA FilledStatus ==
  ASSUME TypeOK, NEW o \in OrderIds, NEW size \in Nat,
         orders[o].status # "CancelSubmitted"
  PROVE  /\ Filled(o, size).status # "CancelSubmitted"
         /\ Filled(o, size).status \in {"Cancelled", "CancelledWithPartialFill"} =>
              orders[o].status \in {"Cancelled", "CancelledWithPartialFill"}
<1> DEFINE r == orders[o]
           done == ReportExecution(r, size)
<1>1. r \in OrderRow
  BY DEF TypeOK
<1>2. done.status \in {StatusWhenComplete(r), StatusWhenPartial(r)}
  BY <1>1 DEF ReportExecution, OrderRow
<1>3. Filled(o, size).status = done.status
  <2>1. "status" \in DOMAIN done /\ "commission" \in DOMAIN done
    BY <1>1 DEF ReportExecution, OrderRow
  <2> HIDE DEF done
  <2>2. SetCommission(done, size).status = done.status
    BY <2>1 DEF SetCommission
  <2>3. Filled(o, size) = IF size = 0 THEN done ELSE SetCommission(done, size)
    BY DEF Filled, done
  <2> QED BY <2>2, <2>3
<1>4. /\ StatusWhenComplete(r) \in {"Filled", "CancelledWithPartialFill"}
      /\ StatusWhenComplete(r) = "CancelledWithPartialFill" => r.status = "Cancelled"
  BY DEF StatusWhenComplete
<1>5. StatusWhenPartial(r) \in {"Filling", "FillingDuringCancel", r.status}
  BY DEF StatusWhenPartial
<1> HIDE DEF done
<1> QED BY <1>2, <1>3, <1>4, <1>5 DEF r

\* What stands in a book was placed, is in the book of its type and side, and
\* has waited for its delay; the books are sorted by price.
PlacedInv ==
  /\ \A o \in OrderIds : kind[o] = "None" => orders[o].filled = 0
  /\ \A o \in OrderIds : orders[o].status # "CancelSubmitted"
  /\ \A i \in 1 .. Len(delay) : kind[delay[i]] # "None"
StandsInv ==
  \A b \in Books : \A i \in 1 .. Len(book[b]) :
    /\ kind[book[b][i].order] # "None" /\ BookOf(book[b][i].order) = b
    /\ age[book[b][i].order] > Delay
SortedInv ==
  \A b \in Books : \A i, j \in 1 .. Len(book[b]) :
    i < j => ~ Precedes(b, book[b][j], book[b][i])

BaseInv == TypeOK /\ PlacedInv /\ StandsInv /\ SortedInv

LEMMA EntryPrice ==
  ASSUME NEW e \in Entries
  PROVE  e.price \in Nat
<1>1. e.price \in {0} \cup Prices
  BY DEF Entries
<1>2. {0} \cup Prices \subseteq Nat
  BY SimConstantsAssumption
<1> QED BY <1>1, <1>2

LEMMA EntryFacts ==
  ASSUME TypeOK, NEW b \in Books, NEW i \in 1 .. Len(book[b])
  PROVE  book[b][i].order \in OrderIds /\ book[b][i].price \in Nat
<1>1. book[b][i] \in Entries /\ book[b][i].order \in OrderIds
  BY QueueFacts
<1> QED BY <1>1, EntryPrice

LEMMA RowKeeps ==
  ASSUME BaseInv, [Next]_vars, NEW o \in OrderIds
  PROVE  /\ orders'[o].status # "CancelSubmitted"
         /\ kind[o] = "None" => orders'[o].filled = 0
         /\ kind[o] # "None" => orders'[o].side = orders[o].side
<1>1. /\ TypeOK /\ orders[o] \in OrderRow /\ orders[o].status # "CancelSubmitted"
      /\ kind[o] = "None" => orders[o].filled = 0
  BY DEF BaseInv, PlacedInv, TypeOK
<1>2. CASE orders'[o] = orders[o]
  BY <1>1, <1>2
<1>3. CASE /\ kind[o] = "None" /\ orders'[o].filled = 0
           /\ orders'[o].status = "SendingToProvider"
  BY <1>3
<1>4. CASE orders'[o] = MarkAsCancelled(orders[o])
  <2>1. MarkAsCancelled(orders[o]).status # "CancelSubmitted"
    BY <1>1 DEF MarkAsCancelled, OrderRow
  <2> QED BY <1>1, <1>4, <2>1, MarkAsCancelledFacts
<1>5. ASSUME NEW b \in Books, NEW n \in Nat, book[b] # <<>>, o = Head(book[b]).order,
             orders[o].remaining # 0, orders'[o] = Filled(o, Applied(orders[o].remaining, n))
      PROVE  /\ orders'[o].status # "CancelSubmitted"
             /\ kind[o] = "None" => orders'[o].filled = 0
             /\ kind[o] # "None" => orders'[o].side = orders[o].side
  <2>1. Applied(orders[o].remaining, n) \in Nat
    BY <1>1 DEF Applied, OrderRow
  <2>2. orders'[o].status # "CancelSubmitted"
    BY <1>1, <1>5, <2>1, FilledStatus
  <2>3. orders'[o].side = orders[o].side
    <3>1. Filled(o, Applied(orders[o].remaining, n)).side = orders[o].side
      BY <1>1, <1>5, FilledFacts
    <3> QED BY <1>5, <3>1
  <2>4. kind[o] # "None"
    <3>1. 1 \in 1 .. Len(book[b]) /\ Head(book[b]) = book[b][1]
      BY <1>1, <1>5, HeadTail, QueueFacts
    <3> QED BY <1>5, <3>1 DEF BaseInv, StandsInv
  <2> QED BY <2>2, <2>3, <2>4
<1> QED BY <1>1, <1>2, <1>3, <1>4, <1>5, RowSteps

\* The order that enters a book stands behind what is as well priced, and before
\* what is worse.
LEMMA EntersSorted ==
  ASSUME NEW b \in Books, NEW t \in Seq(Entries), NEW r, NEW e \in Entries, Enters(t, r, b, e),
         \A i, j \in 1 .. Len(t) : i < j => ~ Precedes(b, t[j], t[i])
  PROVE  \A i, j \in 1 .. Len(r) : i < j => ~ Precedes(b, r[j], r[i])
<1>1. PICK k \in 1 .. Len(t) + 1 :
        /\ Inserted(t, r, k, e)
        /\ \A i \in 1 .. k - 1 : ~ Precedes(b, e, t[i])
        /\ k <= Len(t) => Precedes(b, e, t[k])
  BY DEF Enters
<1>2. With(t, r, k, e)
  BY <1>1, InsertedFacts
<1>3. /\ k \in 1 .. Len(r) /\ r[k] = e
      /\ \A i, j \in 1 .. Len(r) : i < j =>
           \/ \E m, n \in 1 .. Len(t) : m < n /\ r[i] = t[m] /\ r[j] = t[n]
           \/ i = k /\ \E n \in k .. Len(t) : r[j] = t[n]
           \/ j = k /\ \E m \in 1 .. k - 1 : m <= Len(t) /\ r[i] = t[m]
  BY <1>2 DEF With
<1>4. /\ Len(t) \in Nat /\ e.price \in Nat
      /\ \A m \in 1 .. Len(t) : t[m] \in Entries /\ t[m].price \in Nat
  <2>1. Len(t) \in Nat /\ \A m \in 1 .. Len(t) : t[m] \in Entries
    BY LenProperties, ElementOfSeq
  <2> QED BY <2>1, EntryPrice
<1>5. ASSUME NEW n \in k .. Len(t)
      PROVE  ~ Precedes(b, t[n], e)
  <2>1. k \in 1 .. Len(t) /\ n \in 1 .. Len(t) /\ k <= Len(t)
    BY <1>4
  <2>2. n = k \/ ~ Precedes(b, t[n], t[k])
    BY <2>1
  <2>3. Precedes(b, e, t[k]) /\ t[n].price \in Nat /\ t[k].price \in Nat
    BY <1>1, <1>4, <2>1
  <2> QED BY <1>4, <2>2, <2>3 DEF Precedes
<1>6. ASSUME NEW i \in 1 .. Len(r), NEW j \in 1 .. Len(r), i < j
      PROVE  ~ Precedes(b, r[j], r[i])
  <2>1. CASE \E m, n \in 1 .. Len(t) : m < n /\ r[i] = t[m] /\ r[j] = t[n]
    BY <2>1
  <2>2. CASE i = k /\ \E n \in k .. Len(t) : r[j] = t[n]
    BY <1>3, <1>5, <2>2
  <2>3. CASE j = k /\ \E m \in 1 .. k - 1 : m <= Len(t) /\ r[i] = t[m]
    BY <1>1, <1>3, <2>3
  <2> QED BY <1>3, <1>6, <2>1, <2>2, <2>3
<1> QED BY <1>6

LEMMA BaseKeeps == BaseInv /\ [Next]_vars => BaseInv'
<1> SUFFICES ASSUME BaseInv, [Next]_vars PROVE BaseInv'
  OBVIOUS
<1>1. TypeOK /\ TypeOK' /\ PlacedInv /\ StandsInv /\ SortedInv
  BY TypeKeeps DEF BaseInv
<1>2. ASSUME NEW o \in OrderIds, kind[o] # "None"
      PROVE  kind'[o] # "None" /\ BookOf(o)' = BookOf(o) /\ age'[o] >= age[o]
  <2>1. kind'[o] = kind[o] /\ age'[o] >= age[o] /\ orders'[o].side = orders[o].side
    BY <1>1, <1>2, PlacedSteps, RowKeeps
  <2> QED BY <1>2, <2>1 DEF BookOf
<1>3. PlacedInv'
  <2>1. \A o \in OrderIds : kind'[o] = "None" => orders'[o].filled = 0
    BY <1>2, RowKeeps
  <2>2. \A o \in OrderIds : orders'[o].status # "CancelSubmitted"
    BY RowKeeps
  <2>3. ASSUME NEW i \in 1 .. Len(delay')
        PROVE  kind'[delay'[i]] # "None"
    <3>1. CASE \E j \in 1 .. Len(delay) : delay'[i] = delay[j]
      BY <1>1, <1>2, <3>1, QueueFacts DEF PlacedInv
    <3>2. CASE UNCHANGED delay
      BY <3>1, <3>2, <2>3
    <3>3. ASSUME NEW o \in OrderIds, NEW side \in Sides, NEW k \in Kinds, NEW quan \in Quantities,
                 NEW limit \in Prices, PlaceOrder(o, side, k, quan, limit)
          PROVE  kind'[delay'[i]] # "None"
      <4>1. delay' = Append(delay, o) /\ kind'[o] = k /\ k # "None" /\ delay \in Seq(OrderIds)
        BY <1>1, <3>3, SimConstantsAssumption DEF PlaceOrder, TypeOK
      <4> QED BY <2>3, <3>1, <4>1, AppendedFacts
    <3>4. ASSUME NEW o \in OrderIds, NEW limit \in Prices, ChangeOrder(o, limit)
          PROVE  kind'[delay'[i]] # "None"
      <4>1. delay' = Append(delay, o) /\ kind'[o] # "None" /\ delay \in Seq(OrderIds)
        BY <1>1, <3>4 DEF ChangeOrder, TypeOK
      <4> QED BY <2>3, <3>1, <4>1, AppendedFacts
    <3>5. CASE ProcessDelayQueue
      <4>1. UNCHANGED delay \/ (delay # <<>> /\ delay' = Tail(delay))
        BY <3>5 DEF ProcessDelayQueue
      <4>2. delay \in Seq(OrderIds)
        BY <1>1 DEF TypeOK
      <4> QED BY <2>3, <3>1, <3>2, <4>1, <4>2, TailFacts
    <3>6. ASSUME NEW q \in Quotes, ProcessOrders(q)
          PROVE  UNCHANGED delay
      BY <3>6 DEF ProcessOrders
    <3>7. Tick \/ NewQuote \/ ProcessCancelQueue \/ UNCHANGED vars => UNCHANGED delay
      BY DEF Tick, NewQuote, ProcessCancelQueue, vars
    <3>8. \A o \in OrderIds : CancelOrder(o) => UNCHANGED delay
      BY DEF CancelOrder
    <3> QED BY <3>2, <3>3, <3>4, <3>5, <3>6, <3>7, <3>8 DEF Next, Strategy
  <2> QED BY <2>1, <2>2, <2>3 DEF PlacedInv
<1>4. ASSUME NEW b \in Books, NEW s \in Seq(Entries), Shrinks(book[b], s)
      PROVE  /\ \A i \in 1 .. Len(s) :
                  \E o \in OrderIds : /\ o = s[i].order
                                      /\ kind'[o] # "None" /\ BookOf(o)' = b /\ age'[o] > Delay
             /\ \A i, j \in 1 .. Len(s) : i < j => ~ Precedes(b, s[j], s[i])
  <2>1. ASSUME NEW i \in 1 .. Len(s)
        PROVE  \E o \in OrderIds : /\ o = s[i].order
                                   /\ kind'[o] # "None" /\ BookOf(o)' = b /\ age'[o] > Delay
    <3>1. PICK m \in 1 .. Len(book[b]) : s[i] = book[b][m]
      BY <1>4 DEF Shrinks
    <3>2. PICK o \in OrderIds : o = s[i].order /\ kind[o] # "None" /\ BookOf(o) = b /\ age[o] > Delay
      BY <1>1, <3>1, EntryFacts DEF StandsInv
    <3>3. age[o] \in Nat /\ age'[o] \in Nat /\ Delay \in Nat
      BY <1>1, SimConstantsAssumption DEF TypeOK, Ages
    <3> QED BY <1>2, <3>2, <3>3
  <2>2. \A i, j \in 1 .. Len(s) : i < j => ~ Precedes(b, s[j], s[i])
    BY <1>1, <1>4 DEF Shrinks, SortedInv
  <2> QED BY <2>1, <2>2
<1>5. ASSUME NEW b \in Books
      PROVE  /\ \A i \in 1 .. Len(book'[b]) :
                  \E o \in OrderIds : /\ o = book'[b][i].order
                                      /\ kind'[o] # "None" /\ BookOf(o)' = b /\ age'[o] > Delay
             /\ \A i, j \in 1 .. Len(book'[b]) : i < j => ~ Precedes(b, book'[b][j], book'[b][i])
  <2>1. CASE Shrinks(book[b], book'[b])
    <3>1. book'[b] \in Seq(Entries)
      BY <2>1 DEF Shrinks
    <3> QED BY <1>4, <2>1, <3>1
  <2>2. ASSUME NEW o \in OrderIds, Comes(b, o)
        PROVE  /\ \A i \in 1 .. Len(book'[b]) :
                    \E p \in OrderIds : /\ p = book'[b][i].order
                                        /\ kind'[p] # "None" /\ BookOf(p)' = b /\ age'[p] > Delay
               /\ \A i, j \in 1 .. Len(book'[b]) : i < j => ~ Precedes(b, book'[b][j], book'[b][i])
    <3>1. PICK t \in Seq(Entries) : Shrinks(book[b], t) /\ Enters(t, book'[b], b, Entry(o))
      BY <2>2 DEF Comes
    <3>2. Entry(o) \in Entries /\ Entry(o).order = o
      BY <1>1 DEF Entry, Entries, TypeOK
    <3>3. kind'[o] # "None" /\ BookOf(o)' = b /\ age'[o] > Delay
      <4>1. kind[o] # "None"
        <5>1. 1 \in 1 .. Len(delay) /\ delay[1] = o
          BY <1>1, <2>2, HeadTail DEF Comes, TypeOK
        <5> QED BY <1>1, <5>1 DEF PlacedInv
      <4>2. kind' = kind /\ age' = age /\ age[o] > Delay /\ b = BookOf(o)
        BY <2>2 DEF Comes, Ripe
      <4> QED BY <1>2, <4>1, <4>2
    <3>4. PICK k \in 1 .. Len(t) + 1 : Inserted(t, book'[b], k, Entry(o))
      BY <3>1 DEF Enters
    <3>5. With(t, book'[b], k, Entry(o))
      BY <3>4, InsertedFacts
    <3>6. /\ \A i \in 1 .. Len(book'[b]) : i # k => \E m \in 1 .. Len(t) : book'[b][i] = t[m]
          /\ book'[b][k] = Entry(o)
      BY <3>5 DEF With
    <3>7. /\ \A i \in 1 .. Len(t) :
               \E p \in OrderIds : /\ p = t[i].order
                                   /\ kind'[p] # "None" /\ BookOf(p)' = b /\ age'[p] > Delay
          /\ \A i, j \in 1 .. Len(t) : i < j => ~ Precedes(b, t[j], t[i])
      BY <1>4, <3>1
    <3>8. ASSUME NEW i \in 1 .. Len(book'[b])
          PROVE  \E p \in OrderIds : /\ p = book'[b][i].order
                                     /\ kind'[p] # "None" /\ BookOf(p)' = b /\ age'[p] > Delay
      <4>1. CASE i = k
        BY <3>2, <3>3, <3>6, <4>1
      <4>2. CASE i # k
        <5>1. PICK m \in 1 .. Len(t) : book'[b][i] = t[m]
          BY <3>6, <4>2
        <5>2. PICK p \in OrderIds : /\ p = t[m].order
                                    /\ kind'[p] # "None" /\ BookOf(p)' = b /\ age'[p] > Delay
          BY <3>7
        <5> QED BY <5>1, <5>2
      <4> QED BY <4>1, <4>2
    <3>9. \A i, j \in 1 .. Len(book'[b]) : i < j => ~ Precedes(b, book'[b][j], book'[b][i])
      <4> DEFINE r == book'[b]
      <4>1. Enters(t, r, b, Entry(o))
        BY <3>1
      <4> HIDE DEF r
      <4>2. \A i, j \in 1 .. Len(r) : i < j => ~ Precedes(b, r[j], r[i])
        BY <3>2, <3>7, <4>1, EntersSorted
      <4> QED BY <4>2 DEF r
    <3> QED BY <3>8, <3>9
  <2> QED BY <1>1, <2>1, <2>2, BookSteps
<1>6. StandsInv'
  BY <1>5 DEF StandsInv, BookOf
<1>7. SortedInv'
  BY <1>5 DEF SortedInv, Precedes
<1> QED BY <1>1, <1>3, <1>6, <1>7 DEF BaseInv
-----------------------------------------------------------------------------
(* Price and time priority, where orders are not changed. *)

\* Of two entries of a book, the first is no worse priced and no younger.
InOrder(b, e, f) ==
  /\ ~ Precedes(b, f, e)
  /\ e.price = f.price => age[e.order] >= age[f.order]

\* The books are in order, and what waits in the delay queue is younger than
\* what is in the books, the youngest last.
LinesInv == \A b \in Books : \A i, j \in 1 .. Len(book[b]) : i < j => InOrder(b, book[b][i], book[b][j])
WaitInv ==
  \A b \in Books : \A i \in 1 .. Len(book[b]), j \in 1 .. Len(delay) :
    age[book[b][i].order] >= age[delay[j]]
YoungerInv == \A i, j \in 1 .. Len(delay) : i < j => age[delay[i]] >= age[delay[j]]

PriorityInv == LinesInv /\ WaitInv /\ YoungerInv

\* Orders that leave a book leave the others in order.
LEMMA PriorityShrinks ==
  ASSUME PriorityInv, UNCHANGED <<price, age, delay>>,
         \A c \in Books : book'[c] = book[c] \/ \E k : Without(book[c], book'[c], k)
  PROVE  PriorityInv'
<1>1. ASSUME NEW c \in Books
      PROVE  /\ \A i \in 1 .. Len(book'[c]) : \E m \in 1 .. Len(book[c]) : book'[c][i] = book[c][m]
             /\ \A i, j \in 1 .. Len(book'[c]) : i < j =>
                  \E m, n \in 1 .. Len(book[c]) :
                    m < n /\ book'[c][i] = book[c][m] /\ book'[c][j] = book[c][n]
  <2>1. CASE book'[c] = book[c]
    BY <2>1
  <2>2. CASE \E k : Without(book[c], book'[c], k)
    BY <2>2 DEF Without
  <2> QED BY <2>1, <2>2
<1>3. LinesInv'
  <2>1. ASSUME NEW c \in Books, NEW i \in 1 .. Len(book'[c]), NEW j \in 1 .. Len(book'[c]), i < j
        PROVE  \E e, f : /\ e = book'[c][i] /\ f = book'[c][j]
                         /\ ~ Precedes(c, f, e)
                         /\ e.price = f.price => age[e.order] >= age[f.order]
    <3>1. PICK m \in 1 .. Len(book[c]), n \in 1 .. Len(book[c]) :
            m < n /\ book'[c][i] = book[c][m] /\ book'[c][j] = book[c][n]
      BY <1>1, <2>1
    <3>2. InOrder(c, book[c][m], book[c][n])
      BY <3>1 DEF PriorityInv, LinesInv
    <3> QED BY <3>1, <3>2 DEF InOrder
  <2> QED BY <2>1 DEF LinesInv, InOrder
<1>4. WaitInv'
  BY <1>1 DEF PriorityInv, WaitInv
<1>5. YoungerInv'
  BY DEF PriorityInv, YoungerInv
<1> QED BY <1>3, <1>4, <1>5 DEF PriorityInv

\* A new order comes last, and is youngest.
LEMMA PriorityPlaced ==
  ASSUME IInv, PriorityInv,
         NEW o \in OrderIds, NEW side \in Sides, NEW k \in Kinds, NEW quan \in Quantities,
         NEW limit \in Prices, PlaceOrder(o, side, k, quan, limit)
  PROVE  PriorityInv'
<1>1. /\ TypeOK /\ BooksInv /\ OrderInv(o)
      /\ price' = [price EXCEPT ![o] = IF k = "Market" THEN 0 ELSE limit]
      /\ delay' = Append(delay, o) /\ UNCHANGED <<age, book>> /\ kind[o] = "None"
  BY DEF IInv, PlaceOrder
<1>2. track[o] = "Unknown" /\ age[o] = 0
  BY <1>1 DEF OrderInv
<1>3. \A b \in Books : \A i \in 1 .. Len(book[b]) :
        book[b][i].order \in OrderIds /\ book[b][i].order # o /\ age[book[b][i].order] \in Nat
  BY <1>1, <1>2, EntryFacts, SimConstantsAssumption DEF BooksInv, TypeOK, Ages
<1>4. /\ Len(delay) \in Nat
      /\ Len(delay') = Len(delay) + 1 /\ delay'[Len(delay) + 1] = o
      /\ \A i \in 1 .. Len(delay) : delay'[i] = delay[i] /\ i \in 1 .. Len(delay) + 1
      /\ \A i \in 1 .. Len(delay) + 1 : i \in 1 .. Len(delay) \/ i = Len(delay) + 1
  BY <1>1, AppendedFacts DEF TypeOK
<1>6. LinesInv'
  BY <1>1 DEF PriorityInv, LinesInv, InOrder
<1>7. WaitInv'
  <2>1. ASSUME NEW b \in Books, NEW i \in 1 .. Len(book[b]), NEW j \in 1 .. Len(delay')
        PROVE  age[book[b][i].order] >= age[delay'[j]]
    <3>1. CASE j \in 1 .. Len(delay)
      BY <1>4, <3>1 DEF PriorityInv, WaitInv
    <3>2. CASE j = Len(delay) + 1
      BY <1>2, <1>3, <1>4, <3>2
    <3> QED BY <1>4, <3>1, <3>2
  <2> QED BY <1>1, <2>1 DEF WaitInv
<1>8. YoungerInv'
  <2>1. ASSUME NEW i \in 1 .. Len(delay'), NEW j \in 1 .. Len(delay'), i < j
        PROVE  age[delay'[i]] >= age[delay'[j]]
    <3>1. i \in 1 .. Len(delay)
      BY <1>4, <2>1
    <3>2. CASE j \in 1 .. Len(delay)
      BY <1>4, <2>1, <3>1, <3>2 DEF PriorityInv, YoungerInv
    <3>3. CASE j = Len(delay) + 1
      <4>1. delay[i] \in OrderIds
        BY <1>1, <3>1, QueueFacts
      <4>2. age[delay[i]] \in Nat
        BY <1>1, <4>1, SimConstantsAssumption DEF TypeOK, Ages
      <4> QED BY <1>2, <1>4, <3>1, <3>3, <4>2
    <3> QED BY <1>4, <3>2, <3>3
  <2> QED BY <1>1, <2>1 DEF YoungerInv
<1> QED BY <1>6, <1>7, <1>8 DEF PriorityInv

\* Orders grow older together.
LEMMA PriorityOlder ==
  ASSUME IInv, PriorityInv, Tick
  PROVE  PriorityInv'
<1>1. /\ TypeOK /\ BooksInv /\ DelayInv /\ \A p \in OrderIds : OrderInv(p)
      /\ age' = [o \in OrderIds |-> IF kind[o] = "None" THEN age[o] ELSE Older(age[o])]
      /\ UNCHANGED <<price, delay, book>>
  BY DEF IInv, Tick
<1>2. ASSUME NEW p \in OrderIds, track[p] # "Unknown"
      PROVE  age[p] \in Ages /\ age'[p] = Older(age[p])
  BY <1>1, <1>2 DEF OrderInv, TypeOK
<1>3. \A b \in Books : \A i \in 1 .. Len(book[b]) :
        book[b][i].order \in OrderIds /\ track[book[b][i].order] # "Unknown"
  BY <1>1, QueueFacts DEF BooksInv
<1>4. \A i \in 1 .. Len(delay) : delay[i] \in OrderIds /\ track[delay[i]] # "Unknown"
  BY <1>1, QueueFacts DEF DelayInv
<1>5. \A m, n \in Ages : m >= n => Older(m) >= Older(n)
  BY SimConstantsAssumption DEF Ages, Older
<1>7. LinesInv'
  <2>1. ASSUME NEW b \in Books, NEW i \in 1 .. Len(book[b]), NEW j \in 1 .. Len(book[b]), i < j
        PROVE  /\ ~ Precedes(b, book[b][j], book[b][i])
               /\ book[b][i].price = book[b][j].price =>
                    age'[book[b][i].order] >= age'[book[b][j].order]
    BY <1>2, <1>3, <1>5, <2>1 DEF PriorityInv, LinesInv, InOrder
  <2> QED BY <1>1, <2>1 DEF LinesInv, InOrder
<1>8. WaitInv'
  <2>1. ASSUME NEW b \in Books, NEW i \in 1 .. Len(book[b]), NEW j \in 1 .. Len(delay)
        PROVE  age'[book[b][i].order] >= age'[delay[j]]
    BY <1>2, <1>3, <1>4, <1>5 DEF PriorityInv, WaitInv
  <2> QED BY <1>1, <2>1 DEF WaitInv
<1>9. YoungerInv'
  <2>1. ASSUME NEW i \in 1 .. Len(delay), NEW j \in 1 .. Len(delay), i < j
        PROVE  age'[delay[i]] >= age'[delay[j]]
    BY <1>2, <1>4, <1>5, <2>1 DEF PriorityInv, YoungerInv
  <2> QED BY <1>1, <2>1 DEF YoungerInv
<1> QED BY <1>7, <1>8, <1>9 DEF PriorityInv

\* An order that comes into its book stands behind what is as well priced, and
\* before what is worse.
LEMMA PriorityEnters ==
  ASSUME IInv, PriorityInv, NEW o \in OrderIds, delay # <<>>, o = Head(delay),
         delay' = Tail(delay), UNCHANGED <<price, age>>,
         Enters(book[BookOf(o)], book'[BookOf(o)], BookOf(o), Entry(o)),
         \A c \in Books : c # BookOf(o) => book'[c] = book[c]
  PROVE  PriorityInv'
<1>1. TypeOK
  BY DEF IInv
<1>2. PICK b \in Books : b = BookOf(o)
  BY ActiveInBook
<1>3. PICK e \in Entries : e = Entry(o) /\ e.order = o /\ e.price = price[o] /\ e.price \in Nat
  <2>1. price[o] \in {0} \cup Prices
    BY <1>1 DEF TypeOK
  <2>2. {0} \cup Prices \subseteq Nat
    BY SimConstantsAssumption
  <2>3. Entry(o) \in Entries /\ Entry(o).order = o /\ Entry(o).price = price[o]
    BY <2>1 DEF Entry, Entries
  <2> QED BY <2>1, <2>2, <2>3
<1>4. PICK k \in 1 .. Len(book[b]) + 1 :
        /\ Inserted(book[b], book'[b], k, e)
        /\ \A i \in 1 .. k - 1 : ~ Precedes(b, e, book[b][i])
        /\ k <= Len(book[b]) => Precedes(b, e, book[b][k])
  BY <1>2, <1>3 DEF Enters
<1>5. book[b] \in Seq(Entries) /\ Len(book[b]) \in Nat
  BY <1>1, QueueFacts
<1>6. With(book[b], book'[b], k, e)
  BY <1>4, <1>5, InsertedFacts
<1>7. /\ \A i \in 1 .. Len(book'[b]) : i # k =>
           \E m \in 1 .. Len(book[b]) : book'[b][i] = book[b][m]
      /\ k \in 1 .. Len(book'[b]) /\ book'[b][k] = e
      /\ \A i, j \in 1 .. Len(book'[b]) : i < j =>
           \/ \E m, n \in 1 .. Len(book[b]) : m < n /\ book'[b][i] = book[b][m] /\ book'[b][j] = book[b][n]
           \/ i = k /\ \E n \in k .. Len(book[b]) : book'[b][j] = book[b][n]
           \/ j = k /\ \E m \in 1 .. k - 1 : m <= Len(book[b]) /\ book'[b][i] = book[b][m]
  BY <1>6 DEF With
<1>8. /\ Len(delay) \in Nat /\ 1 \in 1 .. Len(delay) /\ delay[1] = o
      /\ \A i \in 1 .. Len(delay') : i + 1 \in 1 .. Len(delay) /\ delay'[i] = delay[i + 1]
      /\ \A i \in 1 .. Len(delay') : 1 < i + 1
  <2>1. delay \in Seq(OrderIds)
    BY <1>1 DEF TypeOK
  <2>2. /\ Len(delay) \in Nat /\ 1 \in 1 .. Len(delay) /\ delay[1] = o
        /\ \A i \in 1 .. Len(Tail(delay)) : i + 1 \in 1 .. Len(delay) /\ Tail(delay)[i] = delay[i + 1]
    BY <2>1, HeadTail
  <2>3. \A i \in 1 .. Len(Tail(delay)) : 1 < i + 1
    OBVIOUS
  <2> QED BY <2>2, <2>3
<1>9. LinesInv /\ WaitInv /\ YoungerInv
  BY DEF PriorityInv
<1>11. LinesInv'
  <2>1. ASSUME NEW n \in k .. Len(book[b])
        PROVE  ~ Precedes(b, book[b][n], e) /\ e.price # book[b][n].price
    <3>1. k \in 1 .. Len(book[b]) /\ n \in 1 .. Len(book[b]) /\ k <= Len(book[b])
      BY <1>5
    <3>2. book[b][n].price \in Nat /\ book[b][k].price \in Nat
      BY <1>1, <3>1, EntryFacts
    <3>3. n = k \/ ~ Precedes(b, book[b][n], book[b][k])
      BY <1>9, <3>1 DEF LinesInv, InOrder
    <3>4. Precedes(b, e, book[b][k])
      BY <1>4, <3>1
    <3> QED BY <1>3, <3>2, <3>3, <3>4 DEF Precedes
  <2>2. ASSUME NEW m \in 1 .. k - 1, m <= Len(book[b])
        PROVE  ~ Precedes(b, e, book[b][m]) /\ age[book[b][m].order] >= age[o]
    <3>1. m \in 1 .. Len(book[b])
      BY <1>5, <2>2
    <3> QED BY <1>4, <1>8, <1>9, <3>1 DEF WaitInv
  <2>3. ASSUME NEW c \in Books, NEW i \in 1 .. Len(book'[c]), NEW j \in 1 .. Len(book'[c]), i < j
        PROVE  /\ ~ Precedes(c, book'[c][j], book'[c][i])
               /\ book'[c][i].price = book'[c][j].price =>
                    age[book'[c][i].order] >= age[book'[c][j].order]
    <3>1. CASE c # b
      BY <1>2, <1>9, <2>3, <3>1 DEF LinesInv, InOrder
    <3>2. CASE c = b /\ \E m, n \in 1 .. Len(book[b]) :
                          m < n /\ book'[b][i] = book[b][m] /\ book'[b][j] = book[b][n]
      BY <1>9, <3>2 DEF LinesInv, InOrder
    <3>3. CASE c = b /\ i = k /\ \E n \in k .. Len(book[b]) : book'[b][j] = book[b][n]
      BY <1>7, <2>1, <3>3
    <3>4. CASE c = b /\ j = k /\ \E m \in 1 .. k - 1 : m <= Len(book[b]) /\ book'[b][i] = book[b][m]
      BY <1>3, <1>7, <2>2, <3>4
    <3>5. CASE c = b
      <4>1. i \in 1 .. Len(book'[b]) /\ j \in 1 .. Len(book'[b])
        BY <3>5
      <4>2. \/ \E m, n \in 1 .. Len(book[b]) :
                 m < n /\ book'[b][i] = book[b][m] /\ book'[b][j] = book[b][n]
            \/ i = k /\ \E n \in k .. Len(book[b]) : book'[b][j] = book[b][n]
            \/ j = k /\ \E m \in 1 .. k - 1 : m <= Len(book[b]) /\ book'[b][i] = book[b][m]
        BY <1>7, <2>3, <4>1
      <4> QED BY <3>2, <3>3, <3>4, <3>5, <4>2
    <3> QED BY <3>1, <3>5
  <2> QED BY <2>3 DEF LinesInv, InOrder
<1>12. WaitInv'
  <2>1. ASSUME NEW c \in Books, NEW i \in 1 .. Len(book'[c]), NEW j \in 1 .. Len(delay')
        PROVE  age[book'[c][i].order] >= age[delay'[j]]
    <3>1. CASE c # b
      BY <1>2, <1>8, <1>9, <3>1 DEF WaitInv
    <3>2. CASE c = b /\ i = k
      BY <1>3, <1>7, <1>8, <1>9, <3>2 DEF YoungerInv
    <3>3. CASE c = b /\ i # k
      BY <1>7, <1>8, <1>9, <3>3 DEF WaitInv
    <3> QED BY <3>1, <3>2, <3>3
  <2> QED BY <2>1 DEF WaitInv
<1>13. YoungerInv'
  <2>1. ASSUME NEW i \in 1 .. Len(delay'), NEW j \in 1 .. Len(delay'), i < j
        PROVE  age[delay'[i]] >= age[delay'[j]]
    <3>1. i + 1 < j + 1 /\ i + 1 \in 1 .. Len(delay) /\ j + 1 \in 1 .. Len(delay)
      BY <1>8, <2>1
    <3> QED BY <1>8, <1>9, <3>1 DEF YoungerInv
  <2> QED BY <2>1 DEF YoungerInv
<1> QED BY <1>11, <1>12, <1>13 DEF PriorityInv

LEMMA LeavesWithout ==
  ASSUME NEW s \in Seq(Entries), NEW r, NEW o, Leaves(s, r, o)
  PROVE  \E k : Without(s, r, k)
<1>1. PICK k \in 1 .. Len(s) : Removed(s, r, k)
  BY DEF Leaves
<1>2. Without(s, r, k)
  BY <1>1, RemovedFacts
<1> QED BY <1>2

LEMMA PriorityKeeps ==
  ASSUME ~ Changes
  PROVE  IInv /\ PriorityInv /\ [Next]_vars /\ ~ mixed' => PriorityInv'
<1> SUFFICES ASSUME IInv, PriorityInv, [Next]_vars, ~ mixed' PROVE PriorityInv'
  OBVIOUS
<1>1. TypeOK
  BY DEF IInv
<1>2. CASE UNCHANGED <<price, age, delay, book>>
  BY <1>2, PriorityShrinks
<1>3. ASSUME NEW o \in OrderIds, Strategy(o)
      PROVE  PriorityInv'
  <2>1. ASSUME NEW side \in Sides, NEW k \in Kinds, NEW quan \in Quantities, NEW limit \in Prices,
               PlaceOrder(o, side, k, quan, limit)
        PROVE  PriorityInv'
    BY <2>1, PriorityPlaced
  <2>2. \A limit \in Prices : ~ ChangeOrder(o, limit)
    BY DEF ChangeOrder
  <2>3. CASE CancelOrder(o)
    BY <1>2, <2>3 DEF CancelOrder
  <2> QED BY <1>3, <2>1, <2>2, <2>3 DEF Strategy
<1>4. CASE Tick
  BY <1>4, PriorityOlder
<1>5. CASE NewQuote \/ UNCHANGED vars
  BY <1>2, <1>5 DEF NewQuote, vars, attributes
<1>6. CASE ProcessCancelQueue
  <2>1. UNCHANGED <<price, age, delay>>
    BY <1>6 DEF ProcessCancelQueue, attributes
  <2>2. CASE UNCHANGED book
    BY <1>2, <2>1, <2>2
  <2>3. CASE ~ UNCHANGED book
    <3>1. cancels # <<>> /\ CancelOne(Head(cancels).order)
      BY <1>6, <2>3 DEF ProcessCancelQueue
    <3>2. PICK o \in OrderIds : o = Head(cancels).order
      <4>1. cancels \in Seq(Cancellations)
        BY <1>1 DEF TypeOK
      <4>2. Head(cancels) = cancels[1] /\ 1 \in 1 .. Len(cancels)
        BY <3>1, <4>1, HeadTail
      <4> QED BY <1>1, <4>2, QueueFacts
    <3>3. PICK b \in Books : b = BookOf(o)
      BY ActiveInBook
    <3>4. EraseAndEnd(b, o) /\ InBook(b, o)
      BY <2>3, <3>1, <3>2, <3>3 DEF CancelOne
    <3> DEFINE left == RemoveFirstMatch(book[b], LAMBDA e : e.order = o)
    <3>5. book[b] \in Seq(Entries) /\ \E i \in 1 .. Len(book[b]) : book[b][i].order = o
      BY <1>1, <3>4, QueueFacts DEF InBook
    <3>6. \E k : Without(book[b], left, k)
      <4>1. Leaves(book[b], left, o)
        BY <3>5, RemovedFrom
      <4> HIDE DEF left
      <4> QED BY <3>5, <4>1, LeavesWithout
    <3>7. book' = [book EXCEPT ![b] = left]
      BY <3>4 DEF EraseAndEnd
    <3> HIDE DEF left
    <3>8. book'[b] = left /\ \A c \in Books : c # b => book'[c] = book[c]
      BY <1>1, <3>7 DEF TypeOK
    <3>9. \A c \in Books : book'[c] = book[c] \/ \E k : Without(book[c], book'[c], k)
      BY <3>6, <3>8
    <3> QED BY <2>1, <3>9, PriorityShrinks
  <2> QED BY <2>2, <2>3
<1>7. CASE ProcessDelayQueue
  <2>1. UNCHANGED <<price, age>>
    BY <1>7 DEF ProcessDelayQueue, attributes
  <2>2. CASE delay # <<>> /\ Ripe(age[Head(delay)])
    <3>1. PICK o \in OrderIds : o = Head(delay)
      <4>1. delay \in Seq(OrderIds)
        BY <1>1 DEF TypeOK
      <4> QED BY <2>2, <4>1, HeadTail
    <3>2. DelayOne(o) /\ delay' = Tail(delay)
      BY <1>7, <2>2, <3>1 DEF ProcessDelayQueue
    <3>3. Delayed(o) /\ track[o] = "Delay" /\ track'[o] = "Active"
      BY <2>2, <3>1, <3>2, DelayOneFacts, DelayTail DEF Repeated
    <3>4. /\ Enters(book[BookOf(o)], book'[BookOf(o)], BookOf(o), Entry(o))
          /\ \A c \in Books : c # BookOf(o) => book'[c] = book[c]
      BY <3>3 DEF Delayed
    <3> QED BY <2>1, <2>2, <3>1, <3>2, <3>4, PriorityEnters
  <2>3. CASE ~ (delay # <<>> /\ Ripe(age[Head(delay)]))
    BY <1>2, <1>7, <2>1, <2>3 DEF ProcessDelayQueue
  <2> QED BY <2>2, <2>3
<1>8. ASSUME NEW q \in Quotes, ProcessOrders(q)
      PROVE  PriorityInv'
  <2>1. UNCHANGED <<price, age, delay>>
    BY <1>8 DEF ProcessOrders, attributes
  <2>2. CASE UNCHANGED <<orders, track, book, failed>>
    BY <1>2, <2>1, <2>2
  <2>3. ASSUME NEW b \in Books, NEW o \in OrderIds, NEW size \in Nat, Fills(b, o, size)
        PROVE  PriorityInv'
    <3>1. book'[b] = book[b] \/ \E k : Without(book[b], book'[b], k)
      <4>1. book[b] \in Seq(Entries)
        BY <1>1, QueueFacts
      <4>2. book' = book \/ Leaves(book[b], book'[b], o)
        BY <2>3 DEF Fills
      <4> QED BY <4>1, <4>2, LeavesWithout
    <3>2. \A c \in Books : c # b => book'[c] = book[c]
      BY <2>3 DEF Fills
    <3> QED BY <2>1, <3>1, <3>2, PriorityShrinks
  <2> QED BY <1>8, <2>2, <2>3, ProcessOrdersFacts
<1> QED BY <1>3, <1>4, <1>5, <1>6, <1>7, <1>8 DEF Next

-----------------------------------------------------------------------------
(* What holds of every behaviour. *)

\* Where no prices are changed, the books are in order of time as well.
InTime == ~ Changes => ~ mixed /\ PriorityInv

AllInv == BaseInv /\ (mixed \/ IInv) /\ InTime

LEMMA InitAll == Init => AllInv
<1> SUFFICES ASSUME Init PROVE AllInv
  OBVIOUS
<1>1. IInv /\ TypeOK
  BY InitInv, InitType
<1>2. /\ delay = <<>> /\ ~ mixed /\ \A b \in Books : book[b] = <<>>
      /\ \A o \in OrderIds : orders[o].filled = 0 /\ orders[o].status # "CancelSubmitted"
  BY DEF Init, NewOrder
<1>3. \A i : ~ (i \in 1 .. Len(<<>>))
  OBVIOUS
<1>4. PlacedInv /\ StandsInv /\ SortedInv
  BY <1>2, <1>3 DEF PlacedInv, StandsInv, SortedInv
<1>5. PriorityInv
  BY <1>2, <1>3 DEF PriorityInv, LinesInv, WaitInv, YoungerInv
<1> QED BY <1>1, <1>2, <1>4, <1>5 DEF AllInv, BaseInv, InTime

LEMMA AllKeeps == AllInv /\ [Next]_vars => AllInv'
<1> SUFFICES ASSUME AllInv, [Next]_vars PROVE AllInv'
  OBVIOUS
<1>1. BaseInv /\ BaseInv' /\ TypeOK /\ mixed \in BOOLEAN /\ mixed' \in BOOLEAN
  BY BaseKeeps DEF AllInv, BaseInv, TypeOK
<1>2. mixed' = mixed \/ (~ mixed /\ mixed')
  BY <1>1, MixedSteps
<1>3. mixed' \/ IInv'
  <2>1. ~ mixed' => IInv
    BY <1>2 DEF AllInv
  <2> QED BY <2>1, InvKeeps
<1>4. ASSUME ~ Changes
      PROVE  ~ mixed' /\ PriorityInv'
  <2>1. ~ mixed /\ IInv /\ PriorityInv
    BY <1>4 DEF AllInv, InTime
  <2>2. ~ mixed'
    BY <1>1, <1>2, <1>4, <2>1, MixedSteps
  <2> QED BY <1>4, <2>1, <2>2, PriorityKeeps
<1> QED BY <1>1, <1>3, <1>4 DEF AllInv, InTime

LEMMA Invariant == Spec => []AllInv
BY InitAll, AllKeeps, PTL DEF Spec

\* Until a change takes out the entry of another order, m_mapOrderState agrees
\* with the queues and books: an active order is in exactly one place of the
\* books, and one that has ended in none.  It holds of any number of orders
\* that rest, are changed, and are cancelled before their delay is over.
THEOREM InPlaceHolds ==
  Spec => []OrdersInPlace
<1>1. ASSUME IInv, NEW o \in OrderIds
      PROVE  InPlace(o)
  <2>1. TypeOK /\ OrderInv(o) /\ DelayInv /\ BooksInv
    BY <1>1 DEF IInv
  <2>2. \A w : w \in Where(o) <=>
          \E b \in Books : \E i \in DOMAIN book[b] : book[b][i].order = o /\ w = <<b, i>>
    BY DEF Where
  <2>3. track[o] # "Active" => Where(o) = {}
    <3>1. ASSUME track[o] # "Active", NEW b \in Books, NEW i \in DOMAIN book[b], book[b][i].order = o
          PROVE  FALSE
      BY <1>1, <3>1, ActiveInBook DEF InBook
    <3> QED BY <2>2, <3>1
  <2>4. track[o] = "Active" => Cardinality(Where(o)) = 1
    <3> SUFFICES ASSUME track[o] = "Active" PROVE Cardinality(Where(o)) = 1
      OBVIOUS
    <3>1. PICK b \in Books : b = BookOf(o) /\ InBook(b, o)
      BY <1>1, ActiveInBook
    <3>2. PICK i \in DOMAIN book[b] : book[b][i].order = o
      BY <3>1 DEF InBook
    <3>3. ASSUME NEW c \in Books, NEW j \in DOMAIN book[c], book[c][j].order = o
          PROVE  c = b /\ j = i
      <4>1. c = b
        BY <1>1, <3>1, <3>3, ActiveInBook DEF InBook
      <4>2. i \in 1 .. Len(book[b]) /\ j \in 1 .. Len(book[b])
        BY <2>1, <3>2, <3>3, <4>1, QueueFacts
      <4> QED BY <2>1, <3>2, <3>3, <4>1, <4>2 DEF BooksInv
    <3>4. Where(o) = {<<b, i>>}
      BY <2>2, <3>2, <3>3
    <3> QED BY <3>4, FS_Singleton
  <2>5. track[o] = "Unknown" => ~ Contains(delay, o)
    BY <2>1 DEF DelayInv, Contains
  <2>6. track[o] \in {"Unknown", "Delay", "Active", "Archive"}
    BY <2>1 DEF TypeOK, Tracked
  <2>7. CASE track[o] = "Archive"
    <3>1. orders[o].remaining = 0 \/ asked[o]
      BY <2>1, <2>7 DEF OrderInv
    <3> QED BY <2>3, <2>7, <3>1 DEF InPlace
  <2>8. CASE track[o] = "Active"
    BY <2>1, <2>4, <2>8 DEF OrderInv, InPlace
  <2>9. CASE track[o] \in {"Unknown", "Delay"}
    BY <2>1, <2>3, <2>5, <2>9 DEF OrderInv, InPlace
  <2> QED BY <2>6, <2>7, <2>8, <2>9
<1>2. AllInv => OrdersInPlace
  BY <1>1 DEF AllInv, OrdersInPlace
<1> QED BY <1>2, Invariant, PTL

\* The assertions fail in the three cases of NothingElseFails only: when an
\* order is cancelled before its delay is over, when it is changed while the
\* entry that the change takes out is on the other side, or after a change
\* took out the entry of another order.
THEOREM NothingElse ==
  Spec => NothingElseFails
<1> DEFINE Why == failed' => EarlyCancel \/ WrongSide \/ mixed
<1>1. AllInv /\ [Next]_vars => Why \/ UNCHANGED vars
  <2> SUFFICES ASSUME AllInv, Next, failed', ~ mixed
               PROVE  EarlyCancel \/ WrongSide
    BY DEF Why
  <2>1. IInv /\ TypeOK /\ ~ failed
    BY DEF AllInv, IInv, Next
  <2>2. ASSUME NEW o \in OrderIds, Strategy(o)
        PROVE  FALSE
    BY <2>1, <2>2 DEF Strategy, PlaceOrder, ChangeOrder, CancelOrder
  <2>3. ~ Tick /\ ~ NewQuote
    BY <2>1 DEF Tick, NewQuote
  <2>4. CASE ProcessCancelQueue
    <3>1. /\ stage = "cancels" /\ cancels # <<>>
          /\ CancelOne(Head(cancels).order)
      BY <2>1, <2>4 DEF ProcessCancelQueue
    <3>2. PICK o \in OrderIds : o = Head(cancels).order /\ track[o] # "Unknown"
      <4>1. cancels \in Seq(Cancellations)
        BY <2>1 DEF TypeOK
      <4>2. 1 \in 1 .. Len(cancels) /\ Head(cancels) = cancels[1]
        BY <3>1, <4>1, HeadTail
      <4> QED BY <2>1, <4>2, QueueFacts DEF IInv, CancelsInv
    <3>3. track[o] # "Active"
      <4>1. ASSUME track[o] = "Active"
            PROVE  FALSE
        <5>1. InBook(BookOf(o), o)
          BY <2>1, <4>1, ActiveInBook
        <5>2. MigrateActiveToArchive(o)
          BY <3>1, <3>2, <5>1 DEF CancelOne, EraseAndEnd
        <5> QED BY <2>1, <4>1, <5>2 DEF MigrateActiveToArchive
      <4> QED BY <4>1
    <3>4. ~ InBook(BookOf(o), o)
      BY <2>1, <3>3, ActiveInBook
    <3>5. track[o] # "Archive"
      BY <3>1, <3>2, <3>4 DEF CancelOne
    <3> QED BY <2>1, <3>1, <3>2, <3>3, <3>5 DEF EarlyCancel, TypeOK, Tracked
  <2>5. CASE ProcessDelayQueue
    <3>1. stage = "delays" /\ delay # <<>> /\ DelayOne(Head(delay))
      BY <2>1, <2>5 DEF ProcessDelayQueue
    <3>2. ~ OldFits(Head(delay))
      BY <2>1, <3>1 DEF DelayOne
    <3> QED BY <3>1, <3>2 DEF WrongSide
  <2>6. ASSUME NEW q \in Quotes, ProcessOrders(q)
        PROVE  FALSE
    BY <2>1, <2>6, ProcessOrdersFacts DEF Fills
  <2> QED BY <2>2, <2>3, <2>4, <2>5, <2>6 DEF Next
<1> HIDE DEF Why
<1>2. Spec => [][Why]_vars
  BY <1>1, Invariant, PTL DEF Spec
<1> QED BY <1>2 DEF NothingElseFails, Why

\* Nothing is executed of an order that has not waited for the simulated delay,
\* and no order is cancelled by a cancellation that has not, whatever is
\* placed, changed and cancelled from callbacks, also after a change took out
\* the entry of another order.
THEOREM DelayHolds ==
  Spec => DelayRespected
<1> DEFINE Late ==
      \A o \in OrderIds :
        /\ Executed(o) => age[o] > Delay
        /\ Cancelled(o) => \E i \in DOMAIN cancels :
                             cancels[i].order = o /\ cancels[i].age > Delay
<1>1. AllInv /\ [Next]_vars => Late
  <2> SUFFICES ASSUME AllInv, [Next]_vars, NEW o \in OrderIds
               PROVE  /\ Executed(o) => age[o] > Delay
                      /\ Cancelled(o) => \E i \in DOMAIN cancels :
                             cancels[i].order = o /\ cancels[i].age > Delay
    OBVIOUS
  <2>1. TypeOK /\ PlacedInv /\ StandsInv /\ orders[o] \in OrderRow
    BY DEF AllInv, BaseInv, TypeOK
  <2>2. CASE orders'[o] = orders[o]
    BY <2>2 DEF Executed, Cancelled
  <2>3. CASE /\ kind[o] = "None" /\ orders'[o].filled = 0
             /\ orders'[o].status = "SendingToProvider"
    BY <2>1, <2>3 DEF Executed, Cancelled, PlacedInv
  <2>4. CASE /\ orders'[o] = MarkAsCancelled(orders[o])
             /\ \E i \in DOMAIN cancels : cancels[i].order = o /\ cancels[i].age > Delay
    <3>1. orders'[o].filled = orders[o].filled
      BY <2>1, <2>4, MarkAsCancelledFacts
    <3> QED BY <2>4, <3>1 DEF Executed
  <2>5. ASSUME NEW b \in Books, NEW n \in Nat, book[b] # <<>>, o = Head(book[b]).order,
               orders'[o] = Filled(o, Applied(orders[o].remaining, n))
        PROVE  age[o] > Delay /\ ~ Cancelled(o)
    <3>1. 1 \in 1 .. Len(book[b]) /\ Head(book[b]) = book[b][1]
      BY <2>1, <2>5, HeadTail, QueueFacts
    <3>2. age[o] > Delay
      BY <2>1, <2>5, <3>1 DEF StandsInv
    <3>3. Applied(orders[o].remaining, n) \in Nat /\ orders[o].status # "CancelSubmitted"
      BY <2>1 DEF Applied, OrderRow, PlacedInv
    <3>4. ~ Cancelled(o)
      BY <2>1, <2>5, <3>3, FilledStatus DEF Cancelled
    <3> QED BY <3>2, <3>4
  <2> QED BY <2>1, <2>2, <2>3, <2>4, <2>5, RowSteps
<1> HIDE DEF Late
<1>2. Spec => [][Late]_vars
  BY <1>1, Invariant, PTL DEF Spec
<1> QED BY <1>2 DEF DelayRespected, Late

\* Price and time priority: the limit order that executes stands at the front
\* of its book, no entry of the book is better priced, and where no prices are
\* changed none is as well priced and older.
THEOREM PriorityHolds ==
  Spec => PriceTimePriority
<1> DEFINE First ==
      \A o \in OrderIds : Executed(o) /\ kind[o] = "Limit" =>
        \E e \in {book[BookOf(o)][1]} :
          /\ e.order = o
          /\ \A i \in DOMAIN book[BookOf(o)] : LET f == book[BookOf(o)][i] IN
               /\ AtLeastAsGood(BookOf(o), e, f)
               /\ ~ Changes /\ f.price = e.price => age[o] >= age[f.order]
<1>1. AllInv /\ [Next]_vars => First
  <2> SUFFICES ASSUME AllInv, [Next]_vars, NEW o \in OrderIds, Executed(o), kind[o] = "Limit"
               PROVE  \E e \in {book[BookOf(o)][1]} :
                        /\ e.order = o
                        /\ \A i \in DOMAIN book[BookOf(o)] : LET f == book[BookOf(o)][i] IN
                             /\ AtLeastAsGood(BookOf(o), e, f)
                             /\ ~ Changes /\ f.price = e.price => age[o] >= age[f.order]
    OBVIOUS
  <2>1. TypeOK /\ PlacedInv /\ StandsInv /\ SortedInv /\ orders[o] \in OrderRow
    BY DEF AllInv, BaseInv, TypeOK
  <2>2. PICK b \in Books : book[b] # <<>> /\ o = Head(book[b]).order
    <3>1. orders'[o].filled # orders[o].filled
      BY DEF Executed
    <3>2. orders'[o] # MarkAsCancelled(orders[o])
      BY <2>1, <3>1, MarkAsCancelledFacts
    <3>3. \E b \in Books, n \in Nat : book[b] # <<>> /\ o = Head(book[b]).order
      BY <2>1, <3>1, <3>2, RowSteps
    <3> QED BY <3>3
  <2>3. /\ 1 \in 1 .. Len(book[b]) /\ book[b][1].order = o
        /\ DOMAIN book[b] = 1 .. Len(book[b])
    BY <2>1, <2>2, HeadTail, QueueFacts
  <2>4. b = BookOf(o) /\ b \in {"asks", "bids"}
    BY <2>1, <2>3 DEF StandsInv, BookOf
  <2>5. ASSUME NEW i \in 1 .. Len(book[b])
        PROVE  /\ AtLeastAsGood(b, book[b][1], book[b][i])
               /\ ~ Changes /\ book[b][i].price = book[b][1].price =>
                    age[o] >= age[book[b][i].order]
    <3>1. book[b][1].price \in Nat /\ book[b][i].price \in Nat
      BY <2>1, <2>3, EntryFacts
    <3>2. age[o] \in Nat
      BY <2>1, SimConstantsAssumption DEF TypeOK, Ages
    <3>3. CASE i = 1
      BY <2>3, <3>1, <3>2, <3>3 DEF AtLeastAsGood
    <3>4. CASE i # 1
      <4>1. 1 < i
        BY <3>4
      <4>2. ~ Precedes(b, book[b][i], book[b][1])
        BY <2>1, <2>3, <4>1 DEF SortedInv
      <4>3. AtLeastAsGood(b, book[b][1], book[b][i])
        BY <2>4, <3>1, <4>2 DEF AtLeastAsGood, Precedes
      <4>4. ~ Changes => InOrder(b, book[b][1], book[b][i])
        BY <2>3, <4>1 DEF AllInv, InTime, PriorityInv, LinesInv
      <4> QED BY <2>3, <4>3, <4>4 DEF InOrder
    <3> QED BY <3>3, <3>4
  <2> QED BY <2>3, <2>4, <2>5
<1> HIDE DEF First
<1>2. Spec => [][First]_vars
  BY <1>1, Invariant, PTL DEF Spec
<1> QED BY <1>2 DEF PriceTimePriority, First
-----------------------------------------------------------------------------
(* What a step does to the orders. *)

\* An order is placed.
Accepted(o) ==
  /\ track[o] = "Unknown" /\ track' = [track EXCEPT ![o] = "Delay"]
  /\ orders'[o].quan \in Nat \ {0} /\ orders'[o].remaining = orders'[o].quan
  /\ orders'[o].filled = 0 /\ orders'[o].status = "SendingToProvider"
  /\ \A p \in OrderIds : p # o => orders'[p] = orders[p]
  /\ asked' = asked

\* The strategy asks to cancel an order that is delayed or active.
Asks(o) ==
  /\ track[o] # "Unknown" /\ asked' = [asked EXCEPT ![o] = TRUE]
  /\ UNCHANGED <<orders, track>>

\* At most, orders go from the delay queue to their books.
Moves ==
  /\ UNCHANGED <<orders, asked>>
  /\ \A p \in OrderIds : track'[p] = track[p] \/ (track[p] = "Delay" /\ track'[p] = "Active")

\* A cancellation whose delay is over ends its order.
Ends(o) ==
  /\ track[o] = "Active" /\ asked[o] /\ track' = [track EXCEPT ![o] = "Archive"]
  /\ orders' = [orders EXCEPT ![o] = MarkAsCancelled(@)]
  /\ asked' = asked
  /\ \E i \in DOMAIN cancels : cancels[i].order = o /\ cancels[i].age > Delay

\* The end of a quote executes an order.
Executes(o) ==
  /\ \E b \in Books, size \in Nat : Fills(b, o, size)
  /\ stage = "orders" /\ stage' = "idle" /\ asked' = asked

LEMMA Steps ==
  ASSUME IInv, [Next]_vars, ~ mixed'
  PROVE  \/ Moves
         \/ \E o \in OrderIds : Accepted(o) \/ Asks(o) \/ Ends(o) \/ Executes(o)
<1>1. TypeOK /\ CancelsInv /\ \A p \in OrderIds : OrderInv(p)
  BY DEF IInv
<1>2. ASSUME NEW o \in OrderIds, NEW side \in Sides, NEW k \in Kinds, NEW quan \in Quantities,
             NEW limit \in Prices, PlaceOrder(o, side, k, quan, limit)
      PROVE  Accepted(o)
  <2> DEFINE row == SetSendingToProvider(NewOrder(side, quan))
  <2>1. /\ row.quan = quan /\ row.remaining = quan /\ row.filled = 0
        /\ row.status = "SendingToProvider" /\ quan \in Nat \ {0}
    BY NewOrderFacts, SetSendingFacts, SimConstantsAssumption
  <2>2. /\ orders' = [orders EXCEPT ![o] = row] /\ track' = [track EXCEPT ![o] = "Delay"]
        /\ asked' = asked /\ kind[o] = "None"
    BY <1>2 DEF PlaceOrder
  <2> HIDE DEF row
  <2>3. orders'[o] = row /\ \A p \in OrderIds : p # o => orders'[p] = orders[p]
    BY <1>1, <2>2 DEF TypeOK
  <2>4. track[o] = "Unknown"
    BY <1>1, <2>2 DEF OrderInv
  <2> QED BY <2>1, <2>2, <2>3, <2>4 DEF Accepted
<1>3. ASSUME NEW o \in OrderIds, CancelOrder(o)
      PROVE  Asks(o)
  BY <1>3 DEF CancelOrder, Asks
<1>4. CASE UNCHANGED <<orders, track, asked>>
  BY <1>4 DEF Moves
<1>5. CASE ProcessCancelQueue
  <2>1. CASE cancels # <<>> /\ Ripe(Head(cancels).age)
    <3>1. cancels \in Seq(Cancellations)
      BY <1>1 DEF TypeOK
    <3>2. 1 \in 1 .. Len(cancels) /\ Head(cancels) = cancels[1]
      BY <2>1, <3>1, HeadTail
    <3>3. PICK o \in OrderIds : o = cancels[1].order /\ asked[o] /\ track[o] # "Unknown"
      BY <1>1, <3>2, QueueFacts DEF CancelsInv
    <3>4. 1 \in DOMAIN cancels /\ cancels[1].age > Delay
      BY <1>1, <2>1, <3>2, QueueFacts DEF Ripe
    <3>5. CancelOne(o) /\ asked' = asked
      BY <1>5, <2>1, <3>2, <3>3 DEF ProcessCancelQueue, attributes
    <3>6. CASE InBook(BookOf(o), o)
      <4>1. EraseAndEnd(BookOf(o), o) /\ track[o] = "Active"
        BY <3>5, <3>6, ActiveInBook DEF CancelOne
      <4>2. /\ orders' = [orders EXCEPT ![o] = MarkAsCancelled(@)]
            /\ track' = [track EXCEPT ![o] = "Archive"]
        BY <4>1 DEF EraseAndEnd, MigrateActiveToArchive
      <4> QED BY <3>3, <3>4, <3>5, <4>1, <4>2 DEF Ends
    <3>7. CASE ~ InBook(BookOf(o), o)
      BY <1>4, <3>5, <3>7 DEF CancelOne
    <3> QED BY <3>6, <3>7
  <2>2. CASE ~ (cancels # <<>> /\ Ripe(Head(cancels).age))
    BY <1>4, <1>5, <2>2 DEF ProcessCancelQueue, attributes
  <2> QED BY <2>1, <2>2
<1>6. CASE ProcessDelayQueue
  <2>1. CASE delay # <<>> /\ Ripe(age[Head(delay)])
    <3>1. PICK o \in OrderIds : o = Head(delay)
      <4>1. delay \in Seq(OrderIds)
        BY <1>1 DEF TypeOK
      <4> QED BY <2>1, <4>1, HeadTail
    <3>2. DelayOne(o) /\ UNCHANGED <<orders, asked>>
      BY <1>6, <2>1, <3>1 DEF ProcessDelayQueue, attributes
    <3>3. Delayed(o)
      BY <2>1, <3>1, <3>2, DelayOneFacts
    <3>4. UNCHANGED track \/ (track[o] = "Delay" /\ track' = [track EXCEPT ![o] = "Active"])
      BY <3>3 DEF Delayed
    <3>5. \A p \in OrderIds : track'[p] = track[p] \/ (track[p] = "Delay" /\ track'[p] = "Active")
      BY <1>1, <3>4 DEF TypeOK
    <3> QED BY <3>2, <3>5 DEF Moves
  <2>2. CASE ~ (delay # <<>> /\ Ripe(age[Head(delay)]))
    BY <1>4, <1>6, <2>2 DEF ProcessDelayQueue, attributes
  <2> QED BY <2>1, <2>2
<1>7. ASSUME NEW q \in Quotes, ProcessOrders(q)
      PROVE  UNCHANGED <<orders, track, asked>> \/ \E o \in OrderIds : Executes(o)
  <2>1. stage = "orders" /\ stage' = "idle" /\ asked' = asked
    BY <1>7 DEF ProcessOrders, attributes
  <2>2. \/ \E o \in OrderIds : \E b \in Books, size \in Nat : Fills(b, o, size)
        \/ UNCHANGED <<orders, track, book, failed>>
    BY <1>7, ProcessOrdersFacts
  <2> QED BY <2>1, <2>2 DEF Executes
<1>8. ASSUME NEW o \in OrderIds, NEW limit \in Prices, ChangeOrder(o, limit)
      PROVE  UNCHANGED <<orders, track, asked>>
  BY <1>8 DEF ChangeOrder
<1>9. Tick \/ NewQuote \/ UNCHANGED vars => UNCHANGED <<orders, track, asked>>
  BY DEF Tick, NewQuote, vars, attributes
<1> QED BY <1>2, <1>3, <1>4, <1>5, <1>6, <1>7, <1>8, <1>9 DEF Next, Strategy

-----------------------------------------------------------------------------
(* The simulated market implements the broker. *)

\* What the broker's actions read of an order that a step of the market moves.
LEMMA BrokerSame ==
  ASSUME NEW o \in OrderIds, orders'[o].quan = orders[o].quan,
         orders'[o].filled = orders[o].filled, orders'[o].remaining = orders[o].remaining,
         asked'[o] = asked[o],
         track'[o] = track[o] \/ (track[o] = "Delay" /\ track'[o] = "Active")
  PROVE  UNCHANGED Broker!bookOf(o)
<1>1. BrokerState(o)' = BrokerState(o)
  BY DEF BrokerState
<1> QED BY <1>1 DEF Broker!bookOf

LEMMA BrokerSteps ==
  ASSUME IInv, [Next]_vars, ~ mixed'
  PROVE  Broker!Next
<1>1. /\ TypeOK
      /\ \A p \in OrderIds : OrderInv(p) /\ orders[p] \in OrderRow
  BY DEF IInv, TypeOK
<1>2. SUFFICES ASSUME NEW o \in OrderIds
               PROVE  Broker!NextOf(o) \/ UNCHANGED Broker!bookOf(o)
  BY DEF Broker!Next
<1>3. CASE Moves
  <2>1. UNCHANGED Broker!bookOf(o)
    BY <1>3, BrokerSame DEF Moves
  <2> QED BY <2>1
<1>4. ASSUME NEW p \in OrderIds, Accepted(p)
      PROVE  Broker!NextOf(o) \/ UNCHANGED Broker!bookOf(o)
  <2>1. track'[p] = "Delay" /\ \A r \in OrderIds : r # p => track'[r] = track[r]
    BY <1>1, <1>4 DEF Accepted, TypeOK
  <2>2. CASE o # p
    <3>1. orders'[o] = orders[o] /\ asked'[o] = asked[o] /\ track'[o] = track[o]
      BY <1>4, <2>1, <2>2 DEF Accepted
    <3>2. UNCHANGED Broker!bookOf(o)
      BY <3>1, BrokerSame
    <3> QED BY <3>2
  <2>3. CASE o = p
    <3>1. BrokerState(o) = "none" /\ BrokerState(o)' = "working"
      BY <1>4, <2>1, <2>3 DEF Accepted, BrokerState
    <3>2. orders[o].filled = 0 /\ orders'[o].filled = 0 /\ orders'[o].quan \in Nat \ {0}
      BY <1>1, <1>4, <2>3 DEF Accepted, OrderInv, OrderRow
    <3>3. asked'[o] = asked[o]
      BY <1>4 DEF Accepted
    <3>4. Broker!Accept(o)
      BY <3>1, <3>2, <3>3 DEF Broker!Accept
    <3> QED BY <3>4 DEF Broker!NextOf
  <2> QED BY <2>2, <2>3
<1>5. ASSUME NEW p \in OrderIds, Asks(p)
      PROVE  Broker!NextOf(o) \/ UNCHANGED Broker!bookOf(o)
  <2>1. CASE o # p
    <3>1. asked'[o] = asked[o]
      BY <1>1, <1>5, <2>1 DEF Asks, TypeOK
    <3>2. orders'[o] = orders[o] /\ track'[o] = track[o]
      BY <1>5 DEF Asks
    <3>3. UNCHANGED Broker!bookOf(o)
      BY <3>1, <3>2, BrokerSame
    <3> QED BY <3>3
  <2>2. CASE o = p
    <3>1. asked'[o] = TRUE
      BY <1>1, <1>5, <2>2 DEF Asks, TypeOK
    <3>2. track[o] # "Unknown" /\ UNCHANGED <<orders, track>>
      BY <1>5, <2>2 DEF Asks
    <3>3. BrokerState(o)' = BrokerState(o) /\ BrokerState(o) # "none"
      BY <3>2 DEF BrokerState
    <3>4. Broker!Ask(o)
      BY <3>1, <3>2, <3>3 DEF Broker!Ask
    <3> QED BY <3>4 DEF Broker!NextOf
  <2> QED BY <2>1, <2>2
<1>6. ASSUME NEW p \in OrderIds, Ends(p)
      PROVE  Broker!NextOf(o) \/ UNCHANGED Broker!bookOf(o)
  <2>1. /\ track'[p] = "Archive" /\ orders'[p] = MarkAsCancelled(orders[p])
        /\ \A r \in OrderIds : r # p => track'[r] = track[r] /\ orders'[r] = orders[r]
    BY <1>1, <1>6 DEF Ends, TypeOK
  <2>2. CASE o # p
    <3>1. orders'[o] = orders[o] /\ track'[o] = track[o]
      BY <2>1, <2>2
    <3>2. asked'[o] = asked[o]
      BY <1>6 DEF Ends
    <3>3. UNCHANGED Broker!bookOf(o)
      BY <3>1, <3>2, BrokerSame
    <3> QED BY <3>3
  <2>3. CASE o = p
    <3>1. /\ orders'[o].quan = orders[o].quan /\ orders'[o].filled = orders[o].filled
          /\ orders'[o].remaining = orders[o].remaining
      BY <1>1, <2>1, <2>3, MarkAsCancelledFacts
    <3>2. track[o] = "Active" /\ orders[o].remaining > 0
      BY <1>1, <1>6, <2>3 DEF Ends, OrderInv
    <3>3. BrokerState(o) = "working" /\ BrokerState(o)' = "cancelled"
      BY <2>1, <2>3, <3>1, <3>2 DEF BrokerState
    <3>4. asked[o]
      BY <1>6, <2>3 DEF Ends
    <3>5. asked'[o] = asked[o]
      BY <1>6 DEF Ends
    <3>6. Broker!Cancel(o)
      BY <3>1, <3>3, <3>4, <3>5 DEF Broker!Cancel
    <3> QED BY <3>6 DEF Broker!NextOf
  <2> QED BY <2>2, <2>3
<1>7. ASSUME NEW p \in OrderIds, Executes(p)
      PROVE  Broker!NextOf(o) \/ UNCHANGED Broker!bookOf(o)
  <2>1. PICK b \in Books, size \in Nat : Fills(b, p, size)
    BY <1>7 DEF Executes
  <2>2. asked'[o] = asked[o]
    BY <1>7 DEF Executes
  <2>3. \A r \in OrderIds : r # p => track'[r] = track[r] /\ orders'[r] = orders[r]
    BY <1>1, <2>1 DEF Fills, TypeOK
  <2>4. CASE o # p
    <3>1. orders'[o] = orders[o] /\ track'[o] = track[o]
      BY <2>3, <2>4
    <3>2. UNCHANGED Broker!bookOf(o)
      BY <2>2, <3>1, BrokerSame
    <3> QED BY <3>2
  <2>5. CASE o = p
    <3>1. /\ size \in 0 .. orders[o].remaining /\ orders'[o].quan = orders[o].quan
          /\ orders'[o].filled = orders[o].filled + size
          /\ orders'[o].remaining = orders[o].remaining - size
          /\ track[o] = "Active"
          /\ track'[o] = IF size = orders[o].remaining THEN "Archive" ELSE "Active"
      BY <1>1, <2>1, <2>5 DEF Fills, TypeOK
    <3>2. /\ orders[o].filled \in Nat /\ orders[o].remaining \in Nat \ {0} /\ orders[o].quan \in Nat
          /\ orders[o].filled + orders[o].remaining = orders[o].quan
      BY <1>1, <3>1 DEF OrderInv, OrderRow
    <3>3. CASE size = 0
      <4>1. /\ orders'[o].filled = orders[o].filled /\ orders'[o].remaining = orders[o].remaining
            /\ track'[o] = track[o]
        BY <3>1, <3>2, <3>3
      <4>2. UNCHANGED Broker!bookOf(o)
        BY <2>2, <3>1, <4>1, BrokerSame
      <4> QED BY <4>2
    <3>4. CASE size # 0
      <4>1. /\ orders'[o].filled > orders[o].filled /\ orders'[o].filled <= orders[o].quan
            /\ orders'[o].filled = orders[o].quan <=> size = orders[o].remaining
            /\ size = orders[o].remaining => orders'[o].remaining = 0
        BY <3>1, <3>2, <3>4
      <4>2. /\ BrokerState(o) = "working"
            /\ BrokerState(o)' = IF size = orders[o].remaining THEN "filled" ELSE "working"
        BY <3>1, <4>1 DEF BrokerState
      <4>3. Broker!Execute(o)
        BY <2>2, <3>1, <4>1, <4>2 DEF Broker!Execute
      <4> QED BY <4>3 DEF Broker!NextOf
    <3> QED BY <3>3, <3>4
  <2> QED BY <2>4, <2>5
<1> QED BY <1>3, <1>4, <1>5, <1>6, <1>7, Steps

\* Each order by itself is executed up to its quantity and ends by that or by
\* a cancellation that was asked for, and nothing happens to it afterwards,
\* until a change takes out the entry of another order.
THEOREM Refinement ==
  Spec => ImplementsBroker
<1>1. Init => Broker!Init
  BY DEF Init, Broker!Init, Broker!InitOf, BrokerState, NewOrder
<1>2. AllInv /\ [Next]_vars => [mixed \/ Broker!Next]_(Broker!vars)
  <2> SUFFICES ASSUME AllInv, [Next]_vars, ~ mixed PROVE Broker!Next
    OBVIOUS
  <2>1. IInv /\ TypeOK
    BY DEF AllInv, BaseInv
  <2>2. CASE ~ mixed'
    BY <2>1, <2>2, BrokerSteps
  <2>3. CASE mixed'
    <3>1. UNCHANGED <<orders, asked, track>>
      BY <2>1, <2>3, MixedSteps
    <3>2. \A o \in OrderIds : UNCHANGED Broker!bookOf(o)
      BY <3>1, BrokerSame
    <3> QED BY <3>2 DEF Broker!Next
  <2> QED BY <2>2, <2>3
<1>3. Spec => ImplementsBroker
  BY <1>1, <1>2, Invariant, PTL DEF Spec, ImplementsBroker
<1> QED BY <1>3
=============================================================================
