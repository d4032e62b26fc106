---------------------- MODULE DocumentNumbering_proofs ----------------------
(***************************************************************************)
(* Proofs about DocumentNumbering for every number of tenants, overlapping *)
(* create calls and years.                                                 *)
(***************************************************************************)
EXTENDS DocumentNumbering, TLAPS

\* The state stays typed; in particular whoever inserts a document has a number for it.
THEOREM NumberingTypeCorrect == Spec => []TypeOK
<1> USE NumberingAssumption
<1>1. Init => TypeOK
  BY DEF Init, TypeOK, Call, Year
<1>2. TypeOK /\ [Next]_vars => TypeOK'
  <2> SUFFICES ASSUME TypeOK, [Next]_vars PROVE TypeOK'
    OBVIOUS
  <2>1. CASE NewYear
    BY <2>1 DEF NewYear, TypeOK, Year
  <2>2. ASSUME NEW r \in Request, Create(r)
        PROVE  TypeOK'
    BY <2>2 DEF Create, TypeOK, Call
  <2>3. ASSUME NEW r \in Request, TakeNumber(r)
        PROVE  TypeOK'
    <3> DEFINE c == req[r]
               next == counter[SeriesOf(c)] + 1
    <3>1. c \in Call /\ SeriesOf(c) \in Series
      BY DEF TypeOK, Call, Series, SeriesOf
    <3>2. next \in Nat \ {0}
      BY <3>1 DEF TypeOK
    <3>3. /\ counter' = [counter EXCEPT ![SeriesOf(c)] = next]
          /\ req' = [req EXCEPT ![r] = [c EXCEPT !.at = "inserting", !.value = next]]
      BY <2>3 DEF TakeNumber
    <3> HIDE DEF next
    <3>4. [c EXCEPT !.at = "inserting", !.value = next] \in Call
      BY <3>1, <3>2 DEF Call
    <3>5. counter' \in [Series -> Nat]
      BY <3>1, <3>2, <3>3 DEF TypeOK
    <3>6. req' \in [Request -> Call]
      BY <3>3, <3>4 DEF TypeOK
    <3>7. QED
      BY <2>3, <3>5, <3>6 DEF TakeNumber, TypeOK
  <2>4. ASSUME NEW r \in Request, Insert(r)
        PROVE  TypeOK'
    BY <2>4 DEF Insert, TypeOK, Call
  <2>5. ASSUME NEW r \in Request, Fail(r)
        PROVE  TypeOK'
    BY <2>5 DEF Fail, TypeOK, Call
  <2>6. CASE UNCHANGED vars
    BY <2>6 DEF vars, TypeOK
  <2>7. QED
    BY <2>1, <2>2, <2>3, <2>4, <2>5, <2>6 DEF Next
<1>3. QED
  BY <1>1, <1>2, PTL DEF Spec

\* What every counter knows of its series: no call holds a value it has not reached, no two
\* calls hold the same value, and every value it has reached is held.
Counted ==
  /\ \A r \in Request : req[r].value <= counter[SeriesOf(req[r])]
  /\ \A r, s \in Request :
       r # s /\ SeriesOf(req[r]) = SeriesOf(req[s]) /\ req[r].value = req[s].value
         => req[r].value = 0
  /\ Accounted

\* Every call belongs to a series.
LEMMA CallSeries == \A c \in Call : SeriesOf(c) \in Series
BY DEF Call, SeriesOf, Series

\* Different kinds have different prefixes, even where they have different tables.
LEMMA PrefixInjective ==
  \A k, l \in AllKinds : Prefix(k) = Prefix(l) => k = l
BY DEF AllKinds, Prefix

\* Documents that clash are documents of one series with one value.
LEMMA ClashingCalls ==
  ASSUME NEW c \in Call, NEW d \in Call
  PROVE  Clash(c, d) => SeriesOf(c) = SeriesOf(d) /\ c.value = d.value
<1> SUFFICES ASSUME Clash(c, d) PROVE SeriesOf(c) = SeriesOf(d) /\ c.value = d.value
  OBVIOUS
<1>1. Prefix(c.kind) = Prefix(d.kind) /\ c.year = d.year /\ c.value = d.value
  BY DEF Clash, Number
<1>2. c.kind \in AllKinds /\ d.kind \in AllKinds
  BY NumberingAssumption DEF Call
<1>3. c.kind = d.kind
  BY <1>1, <1>2, PrefixInjective
<1>4. QED
  BY <1>1, <1>3 DEF Clash, SeriesOf

\* A step that neither touches the counters nor the series and value of a call that has a
\* value preserves Counted.
LEMMA CountedStable ==
  ASSUME TypeOK, TypeOK', Counted, counter' = counter,
         \A r \in Request :
           \/ SeriesOf(req'[r]) = SeriesOf(req[r]) /\ req'[r].value = req[r].value
           \/ req[r].value = 0 /\ req'[r].value = 0
  PROVE  Counted'
<1>1. ASSUME NEW r \in Request
      PROVE  req'[r].value <= counter'[SeriesOf(req'[r])]
  <2>1. counter[SeriesOf(req'[r])] \in Nat
    BY CallSeries DEF TypeOK
  <2>2. QED
    BY <2>1 DEF Counted
<1>2. ASSUME NEW r \in Request, NEW s \in Request, r # s,
             SeriesOf(req'[r]) = SeriesOf(req'[s]), req'[r].value = req'[s].value
      PROVE  req'[r].value = 0
  BY <1>2 DEF Counted
<1>3. ASSUME NEW q \in Series, NEW v \in 1 .. counter'[q]
      PROVE  \E r \in Request : SeriesOf(req'[r]) = q /\ req'[r].value = v
  <2>1. counter[q] \in Nat /\ v # 0
    BY DEF TypeOK
  <2>2. PICK r \in Request : SeriesOf(req[r]) = q /\ req[r].value = v
    BY DEF Counted, Accounted
  <2>3. QED
    BY <2>1, <2>2
<1>4. QED
  BY <1>1, <1>2, <1>3 DEF Counted, Accounted, Series, SeriesOf

\* What taking a number does, and why the number is new: nobody in the series has it.
LEMMA TakeNumberEffect ==
  ASSUME TypeOK, Counted, NEW r \in Request, TakeNumber(r)
  PROVE  LET q == SeriesOf(req[r])
             next == counter[q] + 1
         IN /\ q \in Series /\ counter[q] \in Nat
            /\ counter' = [counter EXCEPT ![q] = next]
            /\ SeriesOf(req'[r]) = q /\ req'[r].value = next /\ req[r].value = 0
            /\ \A s \in Request : s # r => req'[s] = req[s]
            /\ \A s \in Request : SeriesOf(req[s]) = q => req[s].value < next
<1> DEFINE c == req[r]
           q == SeriesOf(c)
           next == counter[q] + 1
<1>1. c \in Call /\ q \in Series
  BY CallSeries DEF TypeOK
<1>2. counter[q] \in Nat
  BY <1>1 DEF TypeOK
<1>3. /\ counter' = [counter EXCEPT ![q] = next]
      /\ req' = [req EXCEPT ![r] = [c EXCEPT !.at = "inserting", !.value = next]]
      /\ c.at = "numbering"
  BY DEF TakeNumber
<1>4. \A s \in Request : SeriesOf(req[s]) = q => req[s].value < next
  <2> SUFFICES ASSUME NEW s \in Request, SeriesOf(req[s]) = q PROVE req[s].value < next
    OBVIOUS
  <2>1. req[s].value \in Nat
    BY DEF TypeOK, Call
  <2>2. req[s].value <= counter[q]
    BY DEF Counted
  <2>3. QED
    BY <1>2, <2>1, <2>2
<1> HIDE DEF next
<1>5. SeriesOf(req'[r]) = q /\ req'[r].value = next /\ c.value = 0
  BY <1>1, <1>3 DEF TypeOK, Call, SeriesOf
<1>6. \A s \in Request : s # r => req'[s] = req[s]
  BY <1>3 DEF TypeOK
<1>7. QED
  BY <1>1, <1>2, <1>3, <1>4, <1>5, <1>6 DEF next

\* Taking a number, the step that matters.
LEMMA TakeNumberCounted ==
  ASSUME TypeOK, TypeOK', Counted, NEW r \in Request, TakeNumber(r)
  PROVE  Counted'
<1> DEFINE q == SeriesOf(req[r])
           next == counter[q] + 1
<1>1. /\ q \in Series /\ counter[q] \in Nat /\ next \in Nat
      /\ counter' = [counter EXCEPT ![q] = next]
      /\ SeriesOf(req'[r]) = q /\ req'[r].value = next /\ req[r].value = 0
      /\ \A s \in Request : s # r => req'[s] = req[s]
      /\ \A s \in Request : SeriesOf(req[s]) = q => req[s].value < next
  BY TakeNumberEffect
<1>2. next = counter[q] + 1
  OBVIOUS
<1> HIDE DEF next
<1>3. counter'[q] = next /\ \A p \in Series : p # q => counter'[p] = counter[p]
  BY <1>1 DEF TypeOK
<1>4. ASSUME NEW s \in Request
      PROVE  req'[s].value <= counter'[SeriesOf(req'[s])]
  <2>1. SeriesOf(req[s]) \in Series /\ req[s].value \in Nat
    BY CallSeries DEF TypeOK, Call
  <2>2. CASE s = r
    BY <1>1, <1>3, <2>2
  <2>3. CASE s # r /\ SeriesOf(req[s]) = q
    BY <1>1, <1>3, <2>1, <2>3
  <2>4. CASE s # r /\ SeriesOf(req[s]) # q
    BY <1>1, <1>3, <2>1, <2>4 DEF Counted
  <2>5. QED
    BY <2>2, <2>3, <2>4
<1>5. ASSUME NEW s \in Request, NEW u \in Request, s # u,
             SeriesOf(req'[s]) = SeriesOf(req'[u]), req'[s].value = req'[u].value
      PROVE  req'[s].value = 0
  <2>1. CASE s # r /\ u # r
    BY <1>1, <1>5, <2>1 DEF Counted
  <2>2. CASE s = r \/ u = r
    <3>1. PICK p \in Request : /\ p # r /\ req'[p] = req[p]
                               /\ SeriesOf(req[p]) = q /\ req[p].value = next
      BY <1>1, <1>5, <2>2
    <3>2. QED
      BY <1>1, <3>1
  <2>3. QED
    BY <2>1, <2>2
<1>6. ASSUME NEW p \in Series, NEW v \in 1 .. counter'[p]
      PROVE  \E s \in Request : SeriesOf(req'[s]) = p /\ req'[s].value = v
  <2>0. counter[p] \in Nat
    BY DEF TypeOK
  <2>1. CASE v \in 1 .. counter[p]
    <3>1. PICK s \in Request : SeriesOf(req[s]) = p /\ req[s].value = v
      BY <2>1 DEF Counted, Accounted
    <3>2. s # r
      BY <1>1, <2>0, <2>1, <3>1
    <3>3. QED
      BY <1>1, <3>1, <3>2
  <2>2. CASE v \notin 1 .. counter[p]
    <3>1. p = q
      BY <1>3, <2>2
    <3>2. v = next
      BY <1>2, <1>3, <2>0, <2>2, <3>1
    <3>3. QED
      BY <1>1, <3>1, <3>2
  <2>3. QED
    BY <2>1, <2>2
<1>7. QED
  BY <1>4, <1>5, <1>6 DEF Counted, Accounted, Series, SeriesOf

\* Counted is inductive.
LEMMA CountedAlways == Spec => []Counted
<1>1. Init => Counted
  <2> SUFFICES ASSUME Init PROVE Counted
    OBVIOUS
  <2>1. \A r \in Request : req[r].value = 0 /\ SeriesOf(req[r]) \in Series
    BY NumberingAssumption DEF Init, Series, SeriesOf, Year
  <2>2. \A q \in Series : counter[q] = 0
    BY DEF Init
  <2>3. QED
    BY <2>1, <2>2 DEF Counted, Accounted
<1>2. TypeOK /\ TypeOK' /\ Counted /\ [Next]_vars => Counted'
  <2> SUFFICES ASSUME TypeOK, TypeOK', Counted, [Next]_vars PROVE Counted'
    OBVIOUS
  <2>1. CASE NewYear
    BY <2>1, CountedStable DEF NewYear, SeriesOf
  <2>2. ASSUME NEW r \in Request, Create(r)
        PROVE  Counted'
    <3>1. \A s \in Request :
            \/ SeriesOf(req'[s]) = SeriesOf(req[s]) /\ req'[s].value = req[s].value
            \/ req[s].value = 0 /\ req'[s].value = 0
      BY <2>2 DEF Create, TypeOK, Call, SeriesOf
    <3>2. QED
      BY <2>2, <3>1, CountedStable DEF Create
  <2>3. ASSUME NEW r \in Request, TakeNumber(r)
        PROVE  Counted'
    BY <2>3, TakeNumberCounted
  <2>4. ASSUME NEW r \in Request, Insert(r)
        PROVE  Counted'
    <3>1. \A s \in Request : SeriesOf(req'[s]) = SeriesOf(req[s]) /\ req'[s].value = req[s].value
      BY <2>4 DEF Insert, TypeOK, Call, SeriesOf
    <3>2. QED
      BY <2>4, <3>1, CountedStable DEF Insert
  <2>5. ASSUME NEW r \in Request, Fail(r)
        PROVE  Counted'
    <3>1. \A s \in Request : SeriesOf(req'[s]) = SeriesOf(req[s]) /\ req'[s].value = req[s].value
      BY <2>5 DEF Fail, TypeOK, Call, SeriesOf
    <3>2. QED
      BY <2>5, <3>1, CountedStable DEF Fail
  <2>6. CASE UNCHANGED vars
    BY <2>6, CountedStable DEF vars, SeriesOf
  <2>7. QED
    BY <2>1, <2>2, <2>3, <2>4, <2>5, <2>6 DEF Next
<1>3. QED
  BY <1>1, <1>2, NumberingTypeCorrect, PTL DEF Spec

\* No two documents, and no two calls on their way to one, ever share a number within the
\* table of a tenant, however create calls overlap, fail or straddle the new year.
THEOREM NumbersNeverCollide == Spec => []NoCollision
<1>1. TypeOK /\ Counted => NoCollision
  <2> SUFFICES ASSUME TypeOK, Counted, NEW r \in Request, NEW s \in Request, r # s,
                      req[r].value > 0, Clash(req[r], req[s])
               PROVE  FALSE
    BY DEF NoCollision
  <2>1. SeriesOf(req[r]) = SeriesOf(req[s]) /\ req[r].value = req[s].value
    BY ClashingCalls DEF TypeOK
  <2>2. req[r].value = 0
    BY <2>1 DEF Counted
  <2>3. QED
    BY <2>2
<1>2. QED
  BY <1>1, NumberingTypeCorrect, CountedAlways, PTL

\* Every value a counter has reached belongs to a call of its series.
THEOREM NumbersAccounted == Spec => []Accounted
<1>1. Counted => Accounted
  BY DEF Counted
<1>2. QED
  BY <1>1, CountedAlways, PTL

\* The unique index never rejects a document: without failures every call that was given a
\* number ends with a document of that number.
THEOREM NumbersNeverRefused == Spec => []NeverRefused
<1>1. Init => NeverRefused
  BY DEF Init, NeverRefused
<1>2. TypeOK /\ NoCollision /\ NeverRefused /\ [Next]_vars => NeverRefused'
  <2> SUFFICES ASSUME TypeOK, NoCollision, NeverRefused, ~MayFail, [Next]_vars
               PROVE  \A r \in Request : req'[r].at # "failed"
    BY DEF NeverRefused
  <2>1. \A r \in Request : req[r].at # "failed"
    BY DEF NeverRefused
  <2>2. ASSUME NEW r \in Request, Insert(r)
        PROVE  \A s \in Request : req'[s].at # "failed"
    <3>1. ASSUME NEW s \in Request, req[s].at = "stored" PROVE ~Clash(req[r], req[s])
      <4>1. req[r].value > 0 /\ req[s].value > 0 /\ r # s
        BY <2>2, <3>1 DEF Insert, TypeOK, Call
      <4>2. QED
        BY <4>1 DEF NoCollision
    <3>2. req' = [req EXCEPT ![r].at = "stored"]
      BY <2>2, <3>1 DEF Insert
    <3>3. QED
      BY <2>1, <3>2 DEF TypeOK, Call
  <2>3. ASSUME NEW r \in Request, Create(r) \/ TakeNumber(r)
        PROVE  \A s \in Request : req'[s].at # "failed"
    BY <2>1, <2>3 DEF Create, TakeNumber, TypeOK, Call
  <2>4. CASE NewYear \/ UNCHANGED vars
    BY <2>1, <2>4 DEF NewYear, vars
  <2>5. QED
    BY <2>2, <2>3, <2>4 DEF Next, Fail
<1>3. QED
  BY <1>1, <1>2, NumberingTypeCorrect, NumbersNeverCollide, PTL DEF Spec

=============================================================================
