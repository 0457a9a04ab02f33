-------------------------- MODULE FlushListProofs -------------------------
(***************************************************************************)
(* The flush list is intact, sorted and never panics, for any number of    *)
(* buffers, any batch sizes and LSNs without bound.                        *)
(***************************************************************************)
EXTENDS FlushList, TLAPS

Lists == [first : Ids, last : Ids, pos : Ids,
          next : [Buffers -> Ids], prev : [Buffers -> Ids]]

\* Buffers are linked in ascending order of oldest_lsn.
Sorted ==
    \A b, c \in Buffers : <<b, c>> \in order => oldest[b] <= oldest[c]

\* No buffer has an oldest_lsn from the future.
LsnsBounded == \A b \in Buffers : oldest[b] <= insertLsn

\* The inductive invariant.
IInv ==
    /\ TypeOK
    /\ ListIntact
    /\ Sorted
    /\ LsnsBounded
    /\ NeverOutOfOrder
    /\ CursorInList

---------------------------------------------------------------------------
\* remove_one_buffer() yields a list of the same shape.
LEMMA RemovedType ==
    ASSUME NEW l \in Lists, NEW o, Linked(l, o), NEW b \in Members(l)
    PROVE  /\ Removed(l, b) \in Lists
           /\ Members(Removed(l, b)) = Members(l) \ {b}
  <1> DEFINE p == l.prev[b]  n == l.next[b]  M == Members(l)
  <1>1. /\ b \in Buffers
        /\ p \in M \cup {EndOfList} /\ n \in M \cup {EndOfList}
        /\ p \in Ids /\ n \in Ids /\ l.first \in Ids /\ l.last \in Ids /\ l.pos \in Ids
    BY EndsAssumption DEF Lists, Linked, Members, Ids
  <1>2. Removed(l, b) \in Lists
    BY <1>1 DEF Removed, Lists, Ids
  <1>3. \A x \in Buffers : Removed(l, b).next[x] =
            IF x = b THEN NotInList ELSE IF x = p THEN n ELSE l.next[x]
    BY DEF Removed
  <1>4. n # NotInList
    BY <1>1, EndsAssumption DEF Members
  <1>5. \A x \in Buffers : x \in Members(Removed(l, b)) <=> x \in M \ {b}
    BY <1>1, <1>3, <1>4, EndsAssumption DEF Members
  <1> QED BY <1>2, <1>5 DEF Members

\* What Linked says, in pieces.
LEMMA LinkedFacts ==
    ASSUME NEW l, NEW o, Linked(l, o)
    PROVE  /\ TotalOrder(o, Members(l))
           /\ \A c \in Buffers : l.prev[c] = NotInList <=> l.next[c] = NotInList
           /\ \A c \in Members(l) :
                /\ l.next[c] \in Members(l) \cup {EndOfList}
                /\ l.prev[c] \in Members(l) \cup {EndOfList}
                /\ \A d \in Members(l) :
                     /\ l.next[c] = EndOfList => <<c, d>> \notin o
                     /\ l.prev[c] = EndOfList => <<d, c>> \notin o
                     /\ l.next[c] # EndOfList =>
                          /\ <<c, l.next[c]>> \in o
                          /\ ~(<<c, d>> \in o /\ <<d, l.next[c]>> \in o)
                     /\ l.prev[c] # EndOfList =>
                          /\ <<l.prev[c], c>> \in o
                          /\ ~(<<l.prev[c], d>> \in o /\ <<d, c>> \in o)
  BY DEF Linked, Adjacent

\* remove_one_buffer() keeps the remaining buffers linked in their order.
LEMMA RemovedLinked ==
    ASSUME NEW l \in Lists, NEW o, Linked(l, o), NEW b \in Members(l)
    PROVE  Linked(Removed(l, b), OrderWithout(o, b))
  <1> DEFINE p == l.prev[b]  n == l.next[b]  M == Members(l)
             r == Removed(l, b)  N == Members(r)  q == OrderWithout(o, b)
  <1>1. r \in Lists /\ N = M \ {b}
    BY RemovedType
  <1>2. \A x \in Buffers : r.next[x] =
            IF x = b THEN NotInList ELSE IF x = p THEN n ELSE l.next[x]
    BY DEF Removed
  <1>3. \A x \in Buffers : r.prev[x] =
            IF x = b THEN NotInList ELSE IF x = n THEN p ELSE l.prev[x]
    BY DEF Removed
  <1>4. /\ r.first = IF p = EndOfList THEN n ELSE l.first
        /\ r.last = IF n = EndOfList THEN p ELSE l.last
    BY DEF Removed
  <1>5. /\ M \subseteq Buffers /\ EndOfList \notin M /\ NotInList \notin M
        /\ b \in M
        /\ \A c \in Buffers : c \in M <=> l.next[c] # NotInList
        /\ n \in M \cup {EndOfList} /\ p \in M \cup {EndOfList}
    BY LinkedFacts, EndsAssumption DEF Members
  <1>6. TotalOrder(o, M)
    BY LinkedFacts
  <1>7. \A d \in M :
          /\ n = EndOfList => <<b, d>> \notin o
          /\ p = EndOfList => <<d, b>> \notin o
          /\ n # EndOfList => <<b, n>> \in o /\ ~(<<b, d>> \in o /\ <<d, n>> \in o)
          /\ p # EndOfList => <<p, b>> \in o /\ ~(<<p, d>> \in o /\ <<d, b>> \in o)
    BY LinkedFacts
  <1>8. \A c, d \in M : <<c, d>> \in q <=> <<c, d>> \in o /\ c # b /\ d # b
    BY DEF OrderWithout
  <1>9. TotalOrder(q, N)
    <2>1. q \subseteq N \X N
      BY <1>1, <1>6 DEF OrderWithout, TotalOrder
    <2> QED BY <2>1, <1>1, <1>6, <1>8 DEF TotalOrder
  <1>10. \A c \in Buffers : r.prev[c] = NotInList <=> r.next[c] = NotInList
    <2>1. \A c \in Buffers : l.prev[c] = NotInList <=> l.next[c] = NotInList
      BY LinkedFacts
    <2> HIDE DEF p, n, M, r, N, q
    <2>2. ASSUME NEW c \in Buffers, c # b
          PROVE  /\ r.next[c] = NotInList <=> c \notin M
                 /\ r.prev[c] = NotInList <=> c \notin M
      <3>1. r.next[c] = NotInList <=> c \notin M
        BY <2>2, <1>2, <1>5, EndsAssumption
      <3>2. r.prev[c] = NotInList <=> c \notin M
        BY <2>1, <2>2, <1>3, <1>5, EndsAssumption
      <3> QED BY <3>1, <3>2
    <2>3. r.next[b] = NotInList /\ r.prev[b] = NotInList
      BY <1>2, <1>3, <1>5
    <2> QED BY <2>2, <2>3
  <1>11. ASSUME NEW c \in N
         PROVE  IF r.next[c] = EndOfList
                THEN \A d \in N : <<c, d>> \notin q
                ELSE r.next[c] \in N /\ Adjacent(q, N, c, r.next[c])
    <2>0. c \in M /\ c \in Buffers /\ c # b
      BY <1>1, <1>5
    <2>1. CASE c = p
      <3>1. r.next[c] = n
        BY <2>0, <2>1, <1>2
      <3> HIDE DEF p, n, M, r, N, q
      <3>2. CASE n = EndOfList
        BY <3>1, <3>2, <2>0, <2>1, <1>1, <1>5, <1>6, <1>7, <1>8 DEF TotalOrder
      <3>3. CASE n # EndOfList
        <4>1. n \in N
          BY <3>3, <1>1, <1>5, <1>6, <1>7 DEF TotalOrder
        <4>2. <<c, n>> \in o
          BY <3>3, <2>0, <2>1, <1>5, <1>6, <1>7 DEF TotalOrder
        <4>3. \A d \in N : ~(<<c, d>> \in o /\ <<d, n>> \in o)
          BY <3>3, <2>0, <2>1, <1>1, <1>5, <1>6, <1>7 DEF TotalOrder
        <4> QED BY <4>1, <4>2, <4>3, <3>1, <3>3, <2>0, <1>1, <1>8 DEF Adjacent
      <3> QED BY <3>2, <3>3
    <2>2. CASE c # p
      <3>1. r.next[c] = l.next[c]
        BY <2>0, <2>2, <1>2
      <3>2. \A d \in M :
              /\ l.next[c] \in M \cup {EndOfList}
              /\ l.next[c] = EndOfList => <<c, d>> \notin o
              /\ l.next[c] # EndOfList => /\ <<c, l.next[c]>> \in o
                                          /\ ~(<<c, d>> \in o /\ <<d, l.next[c]>> \in o)
        BY LinkedFacts, <2>0
      <3> HIDE DEF p, n, M, r, N, q
      <3>3. l.next[c] # b
        <4>1. SUFFICES ASSUME l.next[c] = b PROVE FALSE
          OBVIOUS
        <4>2. <<c, b>> \in o /\ \A d \in M : ~(<<c, d>> \in o /\ <<d, b>> \in o)
          BY <4>1, <3>2, <1>5
        <4>3. p # EndOfList /\ p \in M
          BY <4>2, <2>0, <1>5, <1>7
        <4>4. <<p, b>> \in o /\ \A d \in M : ~(<<p, d>> \in o /\ <<d, b>> \in o)
          BY <4>3, <1>5, <1>7
        <4> QED BY <4>2, <4>3, <4>4, <2>0, <2>2, <1>6 DEF TotalOrder
      <3> QED BY <3>1, <3>2, <3>3, <2>0, <1>1, <1>5, <1>8 DEF Adjacent
    <2> QED BY <2>1, <2>2
  <1>12. ASSUME NEW c \in N
         PROVE  IF r.prev[c] = EndOfList
                THEN \A d \in N : <<d, c>> \notin q
                ELSE r.prev[c] \in N /\ Adjacent(q, N, r.prev[c], c)
    <2>0. c \in M /\ c \in Buffers /\ c # b
      BY <1>1, <1>5
    <2>1. CASE c = n
      <3>1. r.prev[c] = p
        BY <2>0, <2>1, <1>3
      <3> HIDE DEF p, n, M, r, N, q
      <3>2. CASE p = EndOfList
        BY <3>1, <3>2, <2>0, <2>1, <1>1, <1>5, <1>6, <1>7, <1>8 DEF TotalOrder
      <3>3. CASE p # EndOfList
        <4>1. p \in N
          BY <3>3, <1>1, <1>5, <1>6, <1>7 DEF TotalOrder
        <4>2. <<p, c>> \in o
          BY <3>3, <2>0, <2>1, <1>5, <1>6, <1>7 DEF TotalOrder
        <4>3. \A d \in N : ~(<<p, d>> \in o /\ <<d, c>> \in o)
          BY <3>3, <2>0, <2>1, <1>1, <1>5, <1>6, <1>7 DEF TotalOrder
        <4> QED BY <4>1, <4>2, <4>3, <3>1, <3>3, <2>0, <1>1, <1>8 DEF Adjacent
      <3> QED BY <3>2, <3>3
    <2>2. CASE c # n
      <3>1. r.prev[c] = l.prev[c]
        BY <2>0, <2>2, <1>3
      <3>2. \A d \in M :
              /\ l.prev[c] \in M \cup {EndOfList}
              /\ l.prev[c] = EndOfList => <<d, c>> \notin o
              /\ l.prev[c] # EndOfList => /\ <<l.prev[c], c>> \in o
                                          /\ ~(<<l.prev[c], d>> \in o /\ <<d, c>> \in o)
        BY LinkedFacts, <2>0
      <3> HIDE DEF p, n, M, r, N, q
      <3>3. l.prev[c] # b
        <4>1. SUFFICES ASSUME l.prev[c] = b PROVE FALSE
          OBVIOUS
        <4>2. <<b, c>> \in o /\ \A d \in M : ~(<<b, d>> \in o /\ <<d, c>> \in o)
          BY <4>1, <3>2, <1>5
        <4>3. n # EndOfList /\ n \in M
          BY <4>2, <2>0, <1>5, <1>7
        <4>4. <<b, n>> \in o /\ \A d \in M : ~(<<b, d>> \in o /\ <<d, n>> \in o)
          BY <4>3, <1>5, <1>7
        <4> QED BY <4>2, <4>3, <4>4, <2>0, <2>2, <1>6 DEF TotalOrder
      <3> QED BY <3>1, <3>2, <3>3, <2>0, <1>1, <1>5, <1>8 DEF Adjacent
    <2> QED BY <2>1, <2>2
  <1>13. IF r.first = EndOfList THEN N = {}
         ELSE r.first \in N /\ \A c \in N : <<c, r.first>> \notin q
    <2>1. l.first \in M /\ \A c \in M : <<c, l.first>> \notin o
      BY <1>5 DEF Linked
    <2> HIDE DEF p, n, M, r, N, q
    <2>2. CASE p = EndOfList
      <3>1. r.first = n
        BY <2>2, <1>4
      <3>2. CASE n = EndOfList
        <4>1. \A c \in M : c = b
          BY <2>2, <3>2, <1>5, <1>6, <1>7 DEF TotalOrder
        <4> QED BY <4>1, <3>1, <3>2, <1>1
      <3>3. CASE n # EndOfList
        <4>1. n \in M /\ n # b /\ <<b, n>> \in o
          BY <3>3, <1>5, <1>6, <1>7 DEF TotalOrder
        <4>2. \A c \in N : <<c, n>> \notin o
          BY <2>2, <3>3, <4>1, <1>1, <1>5, <1>6, <1>7 DEF TotalOrder
        <4> QED BY <4>1, <4>2, <3>1, <3>3, <1>1, <1>8
      <3> QED BY <3>2, <3>3
    <2>3. CASE p # EndOfList
      <3>1. r.first = l.first
        BY <2>3, <1>4
      <3>2. l.first # b
        BY <2>1, <2>3, <1>5, <1>7
      <3> QED BY <3>1, <3>2, <2>1, <1>1, <1>5, <1>8
    <2> QED BY <2>2, <2>3
  <1>14. IF r.last = EndOfList THEN N = {}
         ELSE r.last \in N /\ \A c \in N : <<r.last, c>> \notin q
    <2>1. l.last \in M /\ \A c \in M : <<l.last, c>> \notin o
      BY <1>5 DEF Linked
    <2> HIDE DEF p, n, M, r, N, q
    <2>2. CASE n = EndOfList
      <3>1. r.last = p
        BY <2>2, <1>4
      <3>2. CASE p = EndOfList
        <4>1. \A c \in M : c = b
          BY <2>2, <3>2, <1>5, <1>6, <1>7 DEF TotalOrder
        <4> QED BY <4>1, <3>1, <3>2, <1>1
      <3>3. CASE p # EndOfList
        <4>1. p \in M /\ p # b /\ <<p, b>> \in o
          BY <3>3, <1>5, <1>6, <1>7 DEF TotalOrder
        <4>2. \A c \in N : <<p, c>> \notin o
          BY <2>2, <3>3, <4>1, <1>1, <1>5, <1>6, <1>7 DEF TotalOrder
        <4> QED BY <4>1, <4>2, <3>1, <3>3, <1>1, <1>8
      <3> QED BY <3>2, <3>3
    <2>3. CASE n # EndOfList
      <3>1. r.last = l.last
        BY <2>3, <1>4
      <3>2. l.last # b
        BY <2>1, <2>3, <1>5, <1>7
      <3> QED BY <3>1, <3>2, <2>1, <1>1, <1>5, <1>8
    <2> QED BY <2>2, <2>3
  <1> QED BY <1>9, <1>10, <1>11, <1>12, <1>13, <1>14 DEF Linked

\* The ends of a list: both are EndOfList exactly when there is no member.
LEMMA LinkedEnds ==
    ASSUME NEW l, NEW o, Linked(l, o)
    PROVE  /\ IsEmpty(l) <=> Members(l) = {}
           /\ ~IsEmpty(l) => /\ l.first \in Members(l)
                             /\ l.last \in Members(l)
                             /\ \A c \in Members(l) : /\ <<c, l.first>> \notin o
                                                      /\ <<l.last, c>> \notin o
  BY EndsAssumption DEF Linked, IsEmpty, Members

\* append_one_buffer() yields a list of the same shape.
LEMMA AppendedType ==
    ASSUME NEW l \in Lists, NEW o, Linked(l, o), NEW b \in Buffers \ Members(l)
    PROVE  /\ Appended(l, b) \in Lists
           /\ Members(Appended(l, b)) = Members(l) \cup {b}
  <1> DEFINE a == Appended(l, b)
  <1>1. CASE IsEmpty(l)
    <2>1. a \in Lists
      BY <1>1 DEF Appended, Lists, Ids
    <2>2. \A x \in Buffers : a.next[x] = IF x = b THEN EndOfList ELSE l.next[x]
      BY <1>1 DEF Appended, Lists
    <2> QED BY <2>1, <2>2, EndsAssumption DEF Members
  <1>2. CASE ~IsEmpty(l)
    <2>1. a \in Lists
      BY <1>2 DEF Appended, Lists, Ids
    <2>2. \A x \in Buffers : a.next[x] = IF x = b THEN EndOfList
                                         ELSE IF x = l.last THEN b ELSE l.next[x]
      BY <1>2 DEF Appended
    <2>3. l.last \in Members(l)
      BY <1>2, LinkedEnds
    <2>4. \A x \in Buffers : a.next[x] # NotInList <=> x \in Members(l) \cup {b}
      <3> HIDE DEF a
      <3> QED BY <2>2, <2>3, EndsAssumption DEF Members
    <2> QED BY <2>1, <2>4 DEF Members
  <1> QED BY <1>1, <1>2

\* append_one_buffer() puts the buffer behind all the others.
LEMMA AppendedLinked ==
    ASSUME NEW l \in Lists, NEW o, Linked(l, o), NEW b \in Buffers \ Members(l)
    PROVE  Linked(Appended(l, b), OrderWith(o, l, b))
  <1> DEFINE M == Members(l)  a == Appended(l, b)  N == Members(a)
             q == OrderWith(o, l, b)
  <1>1. N = M \cup {b}
    BY AppendedType
  <1>2. M \subseteq Buffers /\ EndOfList \notin N /\ NotInList \notin N /\ b \notin M
    BY <1>1, EndsAssumption DEF Members
  <1>3. TotalOrder(o, M)
    BY LinkedFacts
  <1>4. /\ \A c, d \in M : <<c, d>> \in q <=> <<c, d>> \in o
        /\ \A c \in M : <<c, b>> \in q /\ <<b, c>> \notin q
        /\ <<b, b>> \notin q
        /\ q \subseteq N \X N
    BY <1>1, <1>2, <1>3 DEF OrderWith, TotalOrder
  <1>5. TotalOrder(q, N)
    <2> HIDE DEF M, a, N, q
    <2>1. \A c \in N : <<c, c>> \notin q
      BY <1>1, <1>3, <1>4 DEF TotalOrder
    <2>2. \A c, d \in N : c # d => <<c, d>> \in q \/ <<d, c>> \in q
      BY <1>1, <1>3, <1>4 DEF TotalOrder
    <2>3. ASSUME NEW c \in N, NEW d \in N, NEW e \in N,
                 <<c, d>> \in q, <<d, e>> \in q
          PROVE  <<c, e>> \in q
      <3>1. c \in M /\ d \in M
        BY <2>3, <1>1, <1>4
      <3>2. CASE e = b
        BY <3>1, <3>2, <1>4
      <3>3. CASE e # b
        BY <3>1, <3>3, <2>3, <1>1, <1>3, <1>4 DEF TotalOrder
      <3> QED BY <3>2, <3>3
    <2> QED BY <2>1, <2>2, <2>3, <1>4 DEF TotalOrder
  <1>6. CASE IsEmpty(l)
    <2>1. M = {} /\ N = {b}
      BY <1>1, <1>6, LinkedEnds
    <2>2. /\ a.first = b /\ a.last = b
          /\ \A x \in Buffers : a.next[x] = IF x = b THEN EndOfList ELSE l.next[x]
          /\ \A x \in Buffers : a.prev[x] = IF x = b THEN EndOfList ELSE l.prev[x]
      BY <1>6 DEF Appended, Lists
    <2>3. \A c \in Buffers : l.prev[c] = NotInList <=> l.next[c] = NotInList
      BY LinkedFacts
    <2>4. \A c \in Buffers : a.prev[c] = NotInList <=> a.next[c] = NotInList
      BY <2>2, <2>3, EndsAssumption
    <2> QED BY <1>2, <1>4, <1>5, <2>1, <2>2, <2>4 DEF Linked
  <1>7. CASE ~IsEmpty(l)
    <2>1. /\ l.first \in M /\ l.last \in M
          /\ \A c \in M : <<c, l.first>> \notin o /\ <<l.last, c>> \notin o
      BY <1>7, LinkedEnds
    <2>2. /\ a.first = l.first /\ a.last = b
          /\ \A x \in Buffers : a.next[x] = IF x = b THEN EndOfList
                                            ELSE IF x = l.last THEN b ELSE l.next[x]
          /\ \A x \in Buffers : a.prev[x] = IF x = b THEN l.last ELSE l.prev[x]
      BY <1>7 DEF Appended, Lists
    <2>3. \A c \in Buffers : l.prev[c] = NotInList <=> l.next[c] = NotInList
      BY LinkedFacts
    <2>4. \A c \in Buffers : a.prev[c] = NotInList <=> a.next[c] = NotInList
      <3>1. l.last # NotInList /\ b # NotInList /\ l.next[l.last] # NotInList
        BY <2>1, <1>2, EndsAssumption DEF Members
      <3> QED BY <3>1, <2>2, <2>3, EndsAssumption
    <2>5. ASSUME NEW c \in N
          PROVE  IF a.next[c] = EndOfList
                 THEN \A d \in N : <<c, d>> \notin q
                 ELSE a.next[c] \in N /\ Adjacent(q, N, c, a.next[c])
      <3>1. CASE c = b
        <4>1. a.next[c] = EndOfList
          BY <3>1, <2>2
        <4> HIDE DEF M, a, N, q
        <4> QED BY <4>1, <3>1, <1>1, <1>4
      <3>2. CASE c = l.last
        <4>1. a.next[c] = b /\ c \in M /\ b # EndOfList /\ c # b
          BY <3>2, <2>1, <2>2, <1>2, EndsAssumption
        <4> HIDE DEF M, a, N, q
        <4> QED BY <4>1, <3>2, <2>1, <1>1, <1>4 DEF Adjacent
      <3>3. CASE c # b /\ c # l.last
        <4>1. a.next[c] = l.next[c] /\ c \in M
          BY <3>3, <2>2, <1>1, <1>2
        <4>2. /\ l.next[c] \in M \cup {EndOfList}
              /\ \A d \in M :
                   /\ l.next[c] = EndOfList => <<c, d>> \notin o
                   /\ l.next[c] # EndOfList => /\ <<c, l.next[c]>> \in o
                                               /\ ~(<<c, d>> \in o /\ <<d, l.next[c]>> \in o)
          BY <4>1, LinkedFacts
        <4>3. l.next[c] # EndOfList /\ l.next[c] \in M
          BY <4>1, <4>2, <3>3, <2>1, <1>3 DEF TotalOrder
        <4> HIDE DEF M, a, N, q
        <4> QED BY <4>1, <4>2, <4>3, <1>1, <1>4 DEF Adjacent
      <3> QED BY <3>1, <3>2, <3>3
    <2>6. ASSUME NEW c \in N
          PROVE  IF a.prev[c] = EndOfList
                 THEN \A d \in N : <<d, c>> \notin q
                 ELSE a.prev[c] \in N /\ Adjacent(q, N, a.prev[c], c)
      <3>1. CASE c = b
        <4>1. a.prev[c] = l.last /\ l.last # EndOfList
          BY <3>1, <2>1, <2>2, <1>1, <1>2
        <4> HIDE DEF M, a, N, q
        <4> QED BY <4>1, <3>1, <2>1, <1>1, <1>4 DEF Adjacent
      <3>2. CASE c # b
        <4>1. a.prev[c] = l.prev[c] /\ c \in M
          BY <3>2, <2>2, <1>1, <1>2
        <4>2. /\ l.prev[c] \in M \cup {EndOfList}
              /\ \A d \in M :
                   /\ l.prev[c] = EndOfList => <<d, c>> \notin o
                   /\ l.prev[c] # EndOfList => /\ <<l.prev[c], c>> \in o
                                               /\ ~(<<l.prev[c], d>> \in o /\ <<d, c>> \in o)
          BY <4>1, LinkedFacts
        <4> HIDE DEF M, a, N, q
        <4>3. CASE l.prev[c] = EndOfList
          BY <4>1, <4>2, <4>3, <1>1, <1>4
        <4>4. CASE l.prev[c] # EndOfList
          <5>1. l.prev[c] \in M /\ <<l.prev[c], c>> \in q
            BY <4>1, <4>2, <4>4, <1>4
          <5>2. \A d \in N : ~(<<l.prev[c], d>> \in q /\ <<d, c>> \in q)
            BY <5>1, <4>1, <4>2, <4>4, <1>1, <1>4
          <5> QED BY <5>1, <5>2, <4>1, <4>4, <1>1 DEF Adjacent
        <4> QED BY <4>3, <4>4
      <3> QED BY <3>1, <3>2
    <2>7. /\ a.first # EndOfList /\ a.first \in N
          /\ \A c \in N : <<c, a.first>> \notin q
      <3>1. a.first = l.first
        BY <2>2
      <3> HIDE DEF M, a, N, q
      <3>2. l.first \in N /\ l.first # EndOfList
        BY <2>1, <1>1, <1>2
      <3>3. ASSUME NEW c \in N PROVE <<c, l.first>> \notin q
        <4>1. CASE c = b
          BY <4>1, <2>1, <1>4
        <4>2. CASE c \in M
          BY <4>2, <2>1, <1>4
        <4> QED BY <4>1, <4>2, <1>1
      <3> QED BY <3>1, <3>2, <3>3
    <2>8. /\ a.last # EndOfList /\ a.last \in N
          /\ \A c \in N : <<a.last, c>> \notin q
      <3> HIDE DEF M, a, N, q
      <3> QED BY <2>2, <1>1, <1>2, <1>4
    <2> QED BY <1>5, <2>4, <2>5, <2>6, <2>7, <2>8 DEF Linked
  <1> QED BY <1>6, <1>7

---------------------------------------------------------------------------
LEMMA InitIInv == Init => IInv
  <1> SUFFICES ASSUME Init PROVE IInv
    OBVIOUS
  <1>1. TypeOK
    <2>1. list \in Lists
      BY DEF Init, Lists, Ids
    <2>2. walker \in [running : BOOLEAN, id : Ids, num : Nat]
      BY DEF Init, Idle, Ids
    <2>3. /\ flushCount \in Nat /\ oldest \in [Buffers -> Nat]
          /\ insertLsn \in Nat \ {0}
      BY DEF Init, InvalidLsn
    <2>4. /\ batch \subseteq Buffers /\ panicked \in BOOLEAN
          /\ order \subseteq Buffers \X Buffers
      BY Zenon DEF Init
    <2> QED BY <2>1, <2>2, <2>3, <2>4 DEF TypeOK, Lists
  <1>2. Members(list) = {}
    BY DEF Init, Members
  <1>3. Linked(list, order)
    BY <1>2 DEF Init, Linked, TotalOrder
  <1> QED BY <1>1, <1>2, <1>3
          DEF Init, IInv, ListIntact, Sorted, LsnsBounded, NeverOutOfOrder,
              CursorInList, Idle, InvalidLsn

\* polar_put_buffer_to_flush_list() finds the tail no larger than the clock.
LEMMA PutBufferIInv ==
    ASSUME IInv, NEW b \in Buffers, PutBuffer(b)
    PROVE  IInv'
  <1> DEFINE lsns == [oldest EXCEPT ![b] = insertLsn]
  <1>1. /\ list \in Lists /\ Linked(list, order) /\ oldest \in [Buffers -> Nat]
        /\ insertLsn \in Nat /\ insertLsn # 0 /\ ~panicked
        /\ Members(list) = {c \in Buffers : oldest[c] # InvalidLsn}
    BY DEF IInv, TypeOK, Lists, ListIntact, NeverOutOfOrder
  <1>2. b \in Buffers \ Members(list)
    BY <1>1 DEF PutBuffer
  <1>3. \A c \in Buffers : lsns[c] = IF c = b THEN insertLsn ELSE oldest[c]
    BY <1>1
  <1>4. ~OutOfOrder(list, lsns, b)
    <2>1. ~IsEmpty(list) => list.last \in Members(list)
      BY <1>1, LinkedEnds
    <2>2. ~IsEmpty(list) => lsns[list.last] <= insertLsn
      BY <2>1, <1>1, <1>2, <1>3 DEF IInv, LsnsBounded, Members
    <2>3. ~IsEmpty(list) => lsns[list.last] \in Nat
      BY <2>1, <1>1, <1>3 DEF Members
    <2> QED BY <2>2, <2>3, <1>1, <1>3 DEF OutOfOrder
  <1>5. /\ list' = Appended(list, b) /\ order' = OrderWith(order, list, b)
        /\ oldest' = lsns /\ UNCHANGED <<panicked, flushCount, insertLsn, walker, batch>>
    BY <1>4 DEF PutBuffer
  <1>6. /\ list' \in Lists /\ Linked(list', order')
        /\ Members(list') = Members(list) \cup {b}
    BY <1>1, <1>2, <1>5, AppendedType, AppendedLinked
  <1>7. TypeOK'
    BY <1>1, <1>5, <1>6 DEF IInv, TypeOK, Lists, OrderWith, Members
  <1>8. ListIntact'
    BY <1>1, <1>3, <1>5, <1>6 DEF ListIntact, Members, InvalidLsn
  <1>9. Sorted'
    <2>1. order \subseteq Members(list) \X Members(list)
      BY <1>1 DEF Linked, TotalOrder
    <2>2. ASSUME NEW c \in Buffers, NEW d \in Buffers, <<c, d>> \in order'
          PROVE  lsns[c] <= lsns[d]
      <3>1. CASE <<c, d>> \in order
        BY <3>1, <2>1, <1>2, <1>3 DEF IInv, Sorted
      <3>2. CASE d = b
        BY <3>2, <1>1, <1>3 DEF IInv, LsnsBounded
      <3> QED BY <2>2, <3>1, <3>2, <1>5 DEF OrderWith
    <2> QED BY <2>2, <1>5 DEF Sorted
  <1>10. LsnsBounded'
    BY <1>1, <1>3, <1>5 DEF IInv, LsnsBounded
  <1>11. list'.pos = list.pos
    BY <1>5 DEF Appended
  <1>12. NeverOutOfOrder' /\ CursorInList'
    BY <1>5, <1>6, <1>11 DEF IInv, NeverOutOfOrder, CursorInList, PutBuffer, Unlocked
  <1> QED BY <1>7, <1>8, <1>9, <1>10, <1>12 DEF IInv

\* What removing b does to the cursor.
LEMMA RemovedCursor ==
    ASSUME NEW l \in Lists, NEW o, Linked(l, o), NEW b \in Members(l),
           l.pos \in Members(l) \cup {EndOfList, NotInList}
    PROVE  Removed(l, b).pos \in (Members(l) \ {b}) \cup {EndOfList, NotInList}
  <1>1. Members(Removed(l, b)) = Members(l) \ {b}
    BY RemovedType
  <1>2. Linked(Removed(l, b), OrderWithout(o, b))
    BY RemovedLinked
  <1>3. Removed(l, b).first \in (Members(l) \ {b}) \cup {EndOfList}
    BY <1>1, <1>2 DEF Linked
  <1>4. /\ l.next[b] \in Members(l) \cup {EndOfList}
        /\ l.next[b] # b
    <2>1. /\ l.next[b] \in Members(l) \cup {EndOfList}
          /\ l.next[b] # EndOfList => <<b, l.next[b]>> \in o
      BY LinkedFacts
    <2>2. <<b, b>> \notin o
      BY LinkedFacts DEF TotalOrder
    <2>3. b # EndOfList
      BY EndsAssumption DEF Members
    <2> QED BY <2>1, <2>2, <2>3
  <1>5. Removed(l, b).pos = IF b # l.pos THEN l.pos
                            ELSE IF l.next[b] = EndOfList THEN Removed(l, b).first
                            ELSE l.next[b]
    BY DEF Removed
  <1> QED BY <1>3, <1>4, <1>5

LEMMA RemoveBufferIInv ==
    ASSUME IInv, NEW b \in Buffers, RemoveBuffer(b)
    PROVE  IInv'
  <1>1. /\ list \in Lists /\ Linked(list, order) /\ oldest \in [Buffers -> Nat]
        /\ Members(list) = {c \in Buffers : oldest[c] # InvalidLsn} /\ ~panicked
    BY DEF IInv, TypeOK, Lists, ListIntact, NeverOutOfOrder
  <1>2. b \in Members(list)
    BY <1>1 DEF RemoveBuffer
  <1>3. /\ list' \in Lists /\ Linked(list', order')
        /\ Members(list') = Members(list) \ {b}
    BY <1>1, <1>2, RemovedType, RemovedLinked DEF RemoveBuffer
  <1>4. list'.pos \in Members(list') \cup {EndOfList, NotInList}
    BY <1>1, <1>2, <1>3, RemovedCursor DEF RemoveBuffer, IInv, CursorInList
  <1>5. \A c \in Buffers : oldest'[c] = IF c = b THEN 0 ELSE oldest[c]
    BY <1>1 DEF RemoveBuffer, InvalidLsn
  <1>6. TypeOK'
    BY <1>1, <1>3 DEF IInv, TypeOK, Lists, RemoveBuffer, OrderWithout, InvalidLsn
  <1>7. ListIntact'
    BY <1>1, <1>3, <1>5 DEF ListIntact, InvalidLsn
  <1>8. Sorted'
    BY <1>1, <1>5 DEF IInv, Sorted, RemoveBuffer, OrderWithout
  <1>9. LsnsBounded'
    BY <1>1, <1>5 DEF IInv, LsnsBounded, RemoveBuffer, TypeOK
  <1>10. NeverOutOfOrder' /\ CursorInList'
    BY <1>4 DEF IInv, NeverOutOfOrder, CursorInList, RemoveBuffer, Unlocked
  <1> QED BY <1>6, <1>7, <1>8, <1>9, <1>10 DEF IInv

\* polar_adjust_position_in_flush_list(): a removal and an append, unless the
\* buffer is the tail already.
LEMMA AdjustBufferIInv ==
    ASSUME IInv, NEW b \in Buffers, AdjustBuffer(b)
    PROVE  IInv'
  <1> DEFINE lsns == [oldest EXCEPT ![b] = insertLsn]
             r == Removed(list, b)  q == OrderWithout(order, b)
  <1>1. /\ list \in Lists /\ Linked(list, order) /\ oldest \in [Buffers -> Nat]
        /\ insertLsn \in Nat /\ insertLsn # 0 /\ ~panicked
        /\ Members(list) = {c \in Buffers : oldest[c] # InvalidLsn}
    BY DEF IInv, TypeOK, Lists, ListIntact, NeverOutOfOrder
  <1>2. b \in Members(list)
    BY <1>1 DEF AdjustBuffer
  <1>3. /\ \A c \in Buffers : lsns[c] = IF c = b THEN insertLsn ELSE oldest[c]
        /\ \A c \in Buffers : lsns[c] \in Nat /\ lsns[c] <= insertLsn
        /\ oldest' = lsns /\ UNCHANGED <<flushCount, insertLsn, walker, batch>>
        /\ ~walker.running
    BY <1>1 DEF AdjustBuffer, IInv, LsnsBounded, Unlocked
  <1>4. LsnsBounded'
    BY <1>1, <1>3 DEF LsnsBounded
  <1>5. \A c \in Buffers : lsns[c] # InvalidLsn <=> oldest[c] # InvalidLsn
    BY <1>1, <1>2, <1>3 DEF InvalidLsn
  <1>6. CASE list.next[b] = EndOfList
    <2>1. UNCHANGED <<list, order, panicked>>
      BY <1>6 DEF AdjustBuffer
    <2>2. TypeOK'
      BY <2>1, <1>1, <1>3 DEF IInv, TypeOK
    <2>3. ListIntact'
      BY <2>1, <1>1, <1>3, <1>5 DEF ListIntact, Members
    <2>4. order \subseteq Members(list) \X Members(list)
      BY <1>1 DEF Linked, TotalOrder
    <2>5. \A c \in Members(list) : <<b, c>> \notin order
      BY <1>2, <1>6, LinkedFacts, <1>1
    <2>6. ASSUME NEW c \in Buffers, NEW d \in Buffers, <<c, d>> \in order
          PROVE  lsns[c] <= lsns[d]
      <3>1. c # b
        BY <2>4, <2>5, <2>6
      <3> QED BY <3>1, <2>6, <1>1, <1>3 DEF IInv, Sorted, LsnsBounded
    <2>7. Sorted'
      BY <2>1, <2>6, <1>3 DEF Sorted
    <2>8. NeverOutOfOrder' /\ CursorInList'
      BY <2>1, <1>3 DEF IInv, NeverOutOfOrder, CursorInList, Members
    <2> QED BY <2>2, <2>3, <2>7, <2>8, <1>4 DEF IInv
  <1>7. CASE list.next[b] # EndOfList
    <2>1. /\ r \in Lists /\ Linked(r, q) /\ Members(r) = Members(list) \ {b}
      BY <1>1, <1>2, RemovedType, RemovedLinked
    <2>2. r.pos \in Members(r) \cup {EndOfList, NotInList}
      BY <2>1, <1>1, <1>2, RemovedCursor DEF IInv, CursorInList
    <2>3. ~OutOfOrder(r, lsns, b)
      <3>1. ~IsEmpty(r) => r.last \in Members(r)
        BY <2>1, LinkedEnds
      <3>2. ~IsEmpty(r) => lsns[r.last] \in Nat /\ lsns[r.last] <= insertLsn
        BY <3>1, <1>3 DEF Members
      <3> QED BY <3>2, <1>1, <1>3 DEF OutOfOrder
    <2>4. /\ list' = Appended(r, b) /\ order' = OrderWith(q, r, b)
          /\ UNCHANGED panicked
      BY <1>7, <2>3 DEF AdjustBuffer
    <2>5. b \in Buffers \ Members(r)
      BY <2>1
    <2>6. /\ list' \in Lists /\ Linked(list', order')
          /\ Members(list') = Members(list)
      <3> HIDE DEF r, q
      <3>1. Members(list') = Members(r) \cup {b}
        BY <2>1, <2>4, <2>5, AppendedType
      <3> QED BY <3>1, <2>1, <2>4, <2>5, <1>2, AppendedType, AppendedLinked
    <2>7. list'.pos = r.pos
      <3> HIDE DEF r, q
      <3> QED BY <2>4 DEF Appended
    <2>8. order' \subseteq Members(list) \X Members(list)
      BY <2>6 DEF Linked, TotalOrder
    <2>9. TypeOK'
      BY <2>4, <2>6, <2>8, <1>1, <1>3 DEF IInv, TypeOK, Lists, Members
    <2>10. ListIntact'
      BY <2>4, <2>6, <1>1, <1>3, <1>5 DEF ListIntact
    <2>11. ASSUME NEW c \in Buffers, NEW d \in Buffers, <<c, d>> \in order'
           PROVE  lsns[c] <= lsns[d]
      <3>1. CASE <<c, d>> \in q
        BY <3>1, <1>3 DEF IInv, Sorted, OrderWithout
      <3>2. CASE d = b
        BY <3>2, <1>3
      <3> QED BY <2>11, <3>1, <3>2, <2>4 DEF OrderWith
    <2>12. Sorted'
      BY <2>11, <1>3 DEF Sorted
    <2>13. NeverOutOfOrder' /\ CursorInList'
      BY <2>1, <2>2, <2>4, <2>6, <2>7, <1>3 DEF IInv, NeverOutOfOrder, CursorInList
    <2> QED BY <2>9, <2>10, <2>12, <2>13, <1>4 DEF IInv
  <1> QED BY <1>6, <1>7

\* The walk of polar_get_batch_buffer() changes neither links nor LSNs.
LEMMA GetBatchIInv ==
    ASSUME IInv, GetBatch
    PROVE  IInv'
  <1>1. /\ list \in Lists /\ Linked(list, order) /\ ~panicked
        /\ UNCHANGED <<oldest, insertLsn, panicked, order>>
    BY DEF IInv, TypeOK, Lists, ListIntact, NeverOutOfOrder,
           GetBatch, BatchOfEmptyList, BatchBegin, BatchStep, BatchEnd
  <1>2. /\ list.first \in Members(list) \cup {EndOfList}
        /\ \A c \in Members(list) : list.next[c] \in Members(list) \cup {EndOfList}
        /\ Members(list) \subseteq Buffers
    BY <1>1, LinkedFacts DEF Linked, Members
  <1>3. /\ list'.first = list.first /\ list'.last = list.last
        /\ list'.next = list.next /\ list'.prev = list.prev
        /\ list'.pos \in Members(list) \cup {EndOfList, NotInList}
        /\ list' \in Lists
    <2>1. list.pos \in Members(list) \cup {EndOfList, NotInList}
      BY DEF IInv, CursorInList
    <2>2. CASE BatchOfEmptyList \/ BatchStep
      BY <2>1, <2>2, <1>1 DEF BatchOfEmptyList, BatchStep
    <2>3. CASE BatchBegin
      BY <2>1, <2>3, <1>1, <1>2 DEF BatchBegin, Start, Lists, Ids
    <2>4. CASE BatchEnd
      BY <2>1, <2>4, <1>1, <1>2 DEF BatchEnd, Lists, Ids, IInv, CursorInList
    <2> QED BY <2>2, <2>3, <2>4 DEF GetBatch
  <1>4. Members(list') = Members(list)
    BY <1>3 DEF Members
  <1>5. Linked(list', order')
    BY <1>1, <1>3, <1>4 DEF Linked
  <1>6. ListIntact' /\ Sorted' /\ LsnsBounded' /\ NeverOutOfOrder'
    BY <1>1, <1>4, <1>5 DEF IInv, ListIntact, Sorted, LsnsBounded, NeverOutOfOrder
  <1>7. /\ walker'.running => walker'.id \in Members(list) \cup {EndOfList}
        /\ walker' \in [running : BOOLEAN, id : Ids, num : Nat]
        /\ batch' \subseteq Buffers
        /\ flushCount' \in Nat
    <2>0. /\ walker \in [running : BOOLEAN, id : Ids, num : Nat]
          /\ batch \subseteq Buffers /\ flushCount \in Nat
          /\ walker.running => walker.id \in Members(list) \cup {EndOfList}
          /\ list.pos \in Members(list) \cup {EndOfList, NotInList}
      BY DEF IInv, TypeOK, CursorInList
    <2>1. CASE BatchOfEmptyList
      BY <2>0, <2>1 DEF BatchOfEmptyList
    <2>2. CASE BatchBegin
      BY <2>0, <2>2, <1>2 DEF BatchBegin, Start, Ids
    <2>3. CASE BatchStep
      <3>1. walker.id \in Members(list)
        BY <2>0, <2>3 DEF BatchStep, WalkOn
      <3>2. list.next[walker.id] \in Members(list) \cup {EndOfList}
        BY <3>1, <1>2
      <3>3. /\ walker'.id = list.next[walker.id]
            /\ walker' \in [running : BOOLEAN, id : Ids, num : Nat]
        <4>1. list.next[walker.id] \in Ids
          BY <3>2, <1>2 DEF Ids
        <4>2. walker' = [walker EXCEPT !.id = list.next[walker.id], !.num = @ + 1]
          BY <2>3 DEF BatchStep
        <4>3. walker.num + 1 \in Nat
          BY <2>0
        <4> DEFINE n == list.next[walker.id]  k == walker.num + 1
        <4>4. walker' = [walker EXCEPT !.id = n, !.num = k]
          BY <4>2
        <4> HIDE DEF n, k
        <4>5. walker' \in [running : BOOLEAN, id : Ids, num : Nat]
          BY <4>1, <4>3, <4>4, <2>0 DEF n, k
        <4>6. walker'.id = n
          BY <4>4, <2>0
        <4> QED BY <4>5, <4>6 DEF n
      <3>4. batch' \subseteq Buffers /\ flushCount' \in Nat
        BY <2>0, <2>3, <3>1, <1>2 DEF BatchStep
      <3> QED BY <3>2, <3>3, <3>4
    <2>4. CASE BatchEnd
      BY <2>0, <2>4 DEF BatchEnd, Idle, Ids, Counted
    <2> QED BY <2>1, <2>2, <2>3, <2>4 DEF GetBatch
  <1>8. TypeOK'
    BY <1>1, <1>3, <1>7 DEF IInv, TypeOK, Lists
  <1>9. CursorInList'
    BY <1>3, <1>4, <1>7 DEF CursorInList
  <1> QED BY <1>6, <1>8, <1>9 DEF IInv

LEMMA NextIInv == IInv /\ [Next]_vars => IInv'
  <1> SUFFICES ASSUME IInv, [Next]_vars PROVE IInv'
    OBVIOUS
  <1>1. CASE AdvanceLsn
    <2>1. /\ UNCHANGED <<list, flushCount, oldest, walker, batch, panicked, order>>
          /\ insertLsn' = insertLsn + 1
      BY <1>1 DEF AdvanceLsn
    <2>2. TypeOK'
      BY <2>1 DEF IInv, TypeOK
    <2>3. ListIntact' /\ Sorted' /\ NeverOutOfOrder' /\ CursorInList'
      BY <2>1 DEF IInv, ListIntact, Sorted, NeverOutOfOrder, CursorInList,
                  Linked, Members
    <2>4. LsnsBounded'
      BY <2>1 DEF IInv, LsnsBounded, TypeOK
    <2> QED BY <2>2, <2>3, <2>4 DEF IInv
  <1>2. CASE \E b \in Buffers : PutBuffer(b) \/ RemoveBuffer(b) \/ AdjustBuffer(b)
    BY <1>2, PutBufferIInv, RemoveBufferIInv, AdjustBufferIInv
  <1>3. CASE GetBatch
    BY <1>3, GetBatchIInv
  <1>4. CASE UNCHANGED vars
    BY <1>4 DEF vars, IInv, TypeOK, ListIntact, Sorted, LsnsBounded,
                NeverOutOfOrder, CursorInList, Linked, Members
  <1> QED BY <1>1, <1>2, <1>3, <1>4 DEF Next

\* IInv is an invariant of the flush list.
THEOREM Invariance == Spec => []IInv
  BY InitIInv, NextIInv, PTL DEF Spec

\* The pointers of polar_flush.c always have their types.
THEOREM TypeCorrect == Spec => []TypeOK
  <1>1. IInv => TypeOK
    BY DEF IInv
  <1> QED BY <1>1, Invariance, PTL

\* remove_one_buffer and append_one_buffer keep the list intact.
THEOREM ListStaysIntact == Spec => []ListIntact
  <1>1. IInv => ListIntact
    BY DEF IInv
  <1> QED BY <1>1, Invariance, PTL

\* The head of the flush list has the smallest oldest_lsn of all dirty
\* buffers, which is what polar_cal_cur_consistent_lsn relies on.
THEOREM HeadGivesMinimum == Spec => []HeadIsOldest
  <1>1. IInv => HeadIsOldest
    <2> SUFFICES ASSUME IInv, NEW b \in Buffers, oldest[b] # InvalidLsn
                 PROVE  list.first \in Buffers /\ oldest[list.first] <= oldest[b]
      BY DEF HeadIsOldest
    <2>1. Linked(list, order) /\ b \in Members(list)
      BY DEF IInv, ListIntact, NeverOutOfOrder
    <2>2. /\ list.first \in Members(list) /\ list.first \in Buffers
          /\ <<b, list.first>> \notin order
      BY <2>1, LinkedEnds DEF Members
    <2>3. b = list.first \/ <<list.first, b>> \in order
      BY <2>1, <2>2 DEF Linked, TotalOrder
    <2>4. oldest[b] \in Nat
      BY DEF IInv, TypeOK
    <2> QED BY <2>2, <2>3, <2>4 DEF IInv, Sorted
  <1> QED BY <1>1, Invariance, PTL

\* The PANIC of append_one_buffer is unreachable.
THEOREM NoPanic == Spec => []NeverOutOfOrder
  <1>1. IInv => NeverOutOfOrder
    BY DEF IInv
  <1> QED BY <1>1, Invariance, PTL

\* The cursor of polar_get_batch_buffer never stands on a buffer that
\* remove_one_buffer took out of the list.
THEOREM CursorStays == Spec => []CursorInList
  <1>1. IInv => CursorInList
    BY DEF IInv
  <1> QED BY <1>1, Invariance, PTL
===========================================================================
