--------------------------- MODULE HttpScanProofs --------------------------
(***************************************************************************)
(* What http_on_recv notices and what it misses, for every window, tag and *)
(* chunk size.                                                             *)
(***************************************************************************)
EXTENDS HttpScan, TLAPS

USE ScanAssumption

\* The variables keep their types.
LEMMA ScanTypes == Spec => []TypeOK
<1>1. Init => TypeOK
    BY DEF Init, TypeOK
<1>2. TypeOK /\ [Next]_vars => TypeOK'
    <2> SUFFICES ASSUME TypeOK, [Next]_vars PROVE TypeOK'
        OBVIOUS
    <2>1. ASSUME NEW n \in 1 .. MaxChunk, on_recv(n) PROVE TypeOK'
        BY <2>1 DEF TypeOK, on_recv
    <2>2. CASE Dropped
        BY <2>2 DEF TypeOK, Dropped
    <2>3. CASE UNCHANGED vars
        BY <2>3 DEF TypeOK, vars
    <2> QED
        BY <2>1, <2>2, <2>3 DEF Next
<1> QED
    BY <1>1, <1>2, PTL DEF Spec

\* What the search finds lies in the bytes received, tag before blank line.
LEMMA FoundIsEnd ==
    ASSUME TypeOK, NEW n \in Nat, EndFound(n)
    PROVE  \E p \in page.lower \cup page.upper, q \in page.blank :
               p + TagLen <= q /\ q + BlankLen <= n
<1>1. PICK p \in page.lower \cup page.upper, q \in page.blank :
          p <= q /\ q + BlankLen <= n
    BY DEF EndFound, In, TypeOK, Page
<1>2. Apart(p, TagLen, q, BlankLen)
    BY <1>1 DEF TypeOK, Page, IsPage
<1>3. p \in Nat /\ q \in Nat
    BY <1>1 DEF TypeOK, Page, Offset
<1> QED
    BY <1>1, <1>2, <1>3 DEF Apart

\* No task is closed before a tag and then a blank line have arrived.
THEOREM PageNotCutShort == Spec => []NotCutShort
<1>1. Init => NotCutShort
    BY DEF Init, NotCutShort
<1>2. TypeOK /\ NotCutShort /\ [Next]_vars => NotCutShort'
    <2> SUFFICES ASSUME TypeOK, NotCutShort, [Next]_vars PROVE NotCutShort'
        OBVIOUS
    <2>1. ASSUME NEW n \in 1 .. MaxChunk, on_recv(n) PROVE NotCutShort'
        <3>1. total_len + n \in Nat
            BY DEF TypeOK
        <3> QED
            BY <2>1, <3>1, FoundIsEnd DEF on_recv, NotCutShort
    <2>2. CASE Dropped
        BY <2>2 DEF Dropped, NotCutShort
    <2>3. CASE UNCHANGED vars
        BY <2>3 DEF vars, NotCutShort
    <2> QED
        BY <2>1, <2>2, <2>3 DEF Next
<1> QED
    BY <1>1, <1>2, ScanTypes, PTL DEF Spec

\* An end that has arrived is found while its tag is in the window.
LEMMA EndIsFound ==
    ASSUME TypeOK, NEW p \in Offset, NEW q \in Offset, EndsPage(p, q),
           NEW m \in Nat, q + BlankLen <= m, m <= p + Window
    PROVE  EndFound(m)
<1> DEFINE lower == In(page.lower, TagLen, From(m), m)
           tags  == IF lower # {} THEN lower ELSE In(page.upper, TagLen, From(m), m)
<1>1. p \in Nat /\ q \in Nat
    BY DEF Offset
<1>2. From(m) <= p /\ From(m) \in Nat
    BY <1>1 DEF From
<1>3. p + TagLen <= q
    <2>1. Apart(p, TagLen, q, BlankLen)
        BY DEF TypeOK, Page, IsPage, EndsPage
    <2> QED
        BY <2>1, <1>1 DEF Apart, EndsPage
<1>4. p + TagLen <= m
    BY <1>1, <1>3
<1>5. PICK first \in tags : first <= q
    <2>1. CASE p \in page.lower
        <3>1. p \in lower
            BY <2>1, <1>2, <1>4 DEF In
        <3> QED
            BY <3>1, <1>1, <1>3
    <2>2. CASE p \notin page.lower
        <3>1. p \in In(page.upper, TagLen, From(m), m)
            BY <2>2, <1>2, <1>4 DEF In, EndsPage
        <3>2. \A l \in lower : l <= q
            BY <2>2 DEF In, EndsPage
        <3>3. CASE lower = {}
            BY <3>1, <3>3, <1>1, <1>3
        <3>4. CASE lower # {}
            BY <3>2, <3>4
        <3> QED
            BY <3>3, <3>4
    <2> QED
        BY <2>1, <2>2
<1>6. q \in In(page.blank, BlankLen, first, m)
    BY <1>5 DEF In, EndsPage
<1> QED
    BY <1>5, <1>6 DEF EndFound

\* The search over the bytes received so far found nothing, or the task would
\* be closed.
NothingFound == task = "reading" => ~EndFound(total_len)

LEMMA SearchedSoFar == Spec => []NothingFound
<1>1. Init => NothingFound
    BY DEF Init, NothingFound, EndFound, In, Page, Offset
<1>2. NothingFound /\ [Next]_vars => NothingFound'
    <2> SUFFICES ASSUME NothingFound, [Next]_vars PROVE NothingFound'
        OBVIOUS
    <2>1. ASSUME NEW n \in 1 .. MaxChunk, on_recv(n) PROVE NothingFound'
        BY <2>1 DEF on_recv, NothingFound, EndFound
    <2>2. CASE Dropped
        BY <2>2 DEF Dropped, NothingFound
    <2>3. CASE UNCHANGED vars
        BY <2>3 DEF vars, NothingFound, EndFound
    <2> QED
        BY <2>1, <2>2, <2>3 DEF Next
<1> QED
    BY <1>1, <1>2, PTL DEF Spec

\* A reading task has let pass only ends that had left the window.
THEOREM EndIsNoticed == Spec => []EndNoticed
<1>1. TypeOK /\ NothingFound => EndNoticed
    <2> SUFFICES ASSUME TypeOK, ~EndFound(total_len), NEW p \in Offset, NEW q \in Offset,
                        EndsPage(p, q), q + BlankLen <= total_len
                 PROVE  p + Window < total_len
        BY DEF EndNoticed, NothingFound
    <2>1. total_len \in Nat /\ p \in Nat
        BY DEF TypeOK, Offset
    <2>2. ~(total_len <= p + Window)
        BY <2>1, EndIsFound
    <2> QED
        BY <2>1, <2>2
<1> QED
    BY <1>1, ScanTypes, SearchedSoFar, PTL

\* What a search finds, the search of an earlier call has found as soon as the
\* blank line was there: the window only moves forward, and a "</html>" it has
\* left since comes before the blank line as well.
LEMMA FoundBefore ==
    ASSUME TypeOK, NEW t \in Nat, NEW m \in Nat, t <= m, ~EndFound(t), EndFound(m)
    PROVE  \E p \in page.lower \cup page.upper, q \in page.blank :
               p <= q /\ m <= p + Window /\ t < q + BlankLen /\ q + BlankLen <= m
<1> DEFINE Lower(n) == In(page.lower, TagLen, From(n), n)
           Upper(n) == In(page.upper, TagLen, From(n), n)
           Tags(n)  == IF Lower(n) # {} THEN Lower(n) ELSE Upper(n)
<1>1. PICK p \in Tags(m) : \E q \in page.blank : p <= q /\ q + BlankLen <= m
    BY DEF EndFound, In
<1>2. PICK q \in page.blank : p <= q /\ q + BlankLen <= m
    BY <1>1
<1>3. p \in page.lower \cup page.upper /\ From(m) <= p
    BY DEF In
<1>4. p \in Nat /\ q \in Nat
    BY <1>3 DEF TypeOK, Page, Offset
<1>5. From(m) \in Nat /\ From(t) \in Nat /\ From(t) <= From(m) /\ m <= From(m) + Window
    BY DEF From
<1>6. ASSUME q + BlankLen <= t PROVE FALSE
    <2>1. p + TagLen <= q
        <3>1. Apart(p, TagLen, q, BlankLen)
            BY <1>3 DEF TypeOK, Page, IsPage
        <3> QED
            BY <3>1, <1>2, <1>4 DEF Apart
    <2>2. p + TagLen <= t /\ From(t) <= p
        BY <2>1, <1>3, <1>4, <1>5, <1>6
    <2>3. \A first \in Tags(t) : ~(first <= q)
        BY <1>6 DEF EndFound, In
    <2>4. Lower(t) # {} /\ p \in page.upper
        BY <1>2, <1>3, <2>2, <2>3 DEF In
    <2>5. PICK l \in Lower(t) : TRUE
        BY <2>4
    <2>6. l \in Tags(t) /\ l \in page.lower /\ From(t) <= l /\ l + TagLen <= t
        BY <2>4, <2>5 DEF In
    <2>7. l \in Nat /\ ~(l <= q)
        BY <2>3, <2>6 DEF TypeOK, Page, Offset
    <2>8. l \in Lower(m)
        BY <2>6, <2>7, <1>2, <1>3, <1>4, <1>5 DEF In
    <2>9. p \in page.lower
        BY <2>8 DEF In
    <2>10. p \in Lower(t)
        BY <2>2, <2>9 DEF In
    <2> QED
        BY <2>3, <2>10, <1>2
<1> QED
    BY <1>2, <1>3, <1>4, <1>5, <1>6

\* An end is noticed by the call that brings its last byte, or by none.
THEOREM EndAtOnceOrNever == Spec => AtOnceOrNever
<1> DEFINE AtOnce == task = "reading" /\ task' = "closed" =>
               \E p \in page.lower \cup page.upper, q \in page.blank :
                   /\ p <= q /\ total_len' <= p + Window
                   /\ total_len < q + BlankLen /\ q + BlankLen <= total_len'
<1>1. TypeOK /\ NothingFound /\ [Next]_vars => [AtOnce]_vars
    <2> SUFFICES ASSUME TypeOK, NothingFound, Next, task = "reading", task' = "closed"
                 PROVE  AtOnce
        OBVIOUS
    <2>1. PICK n \in 1 .. MaxChunk : on_recv(n)
        BY DEF Next, Dropped
    <2>2. total_len \in Nat /\ total_len + n \in Nat /\ total_len <= total_len + n
        BY DEF TypeOK
    <2>3. ~EndFound(total_len) /\ EndFound(total_len + n)
        BY <2>1 DEF NothingFound, on_recv
    <2>4. total_len' = total_len + n
        BY <2>1 DEF on_recv
    <2> HIDE DEF AtOnce
    <2>5. \E p \in page.lower \cup page.upper, q \in page.blank :
              p <= q /\ total_len + n <= p + Window /\ total_len < q + BlankLen
                /\ q + BlankLen <= total_len + n
        BY <2>2, <2>3, FoundBefore
    <2> QED
        BY <2>4, <2>5 DEF AtOnce
<1>2. Spec => [][AtOnce]_vars
    <2> HIDE DEF AtOnce
    <2> QED
        BY <1>1, ScanTypes, SearchedSoFar, PTL DEF Spec
<1> QED
    BY <1>2 DEF AtOnceOrNever
=============================================================================
