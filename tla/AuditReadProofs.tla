--------------------------- MODULE AuditReadProofs ---------------------------
(***************************************************************************)
(* FewUnreadable, OwnLogComplete and Permanent for every number of users,  *)
(* files, days, restarts and failures of the disk.                         *)
(*                                                                         *)
(* A byte comes to the disk at once or after a time in the buffer, but it  *)
(* comes to one place: Pending(f) is the file f with the bytes that are to *)
(* come to it.  Seen so, a step does one of two things: it drops the end   *)
(* of a pending file, or it adds the line of a new event to one of them.   *)
(***************************************************************************)
EXTENDS AuditLogProofs, FiniteSetTheorems

Left(f)    == IF f = At(handler) THEN handler.buffer ELSE <<>>
Pending(f) == file[f] \o Left(f)

\* The sequence s is the start of t.
Within(s, t) ==
  /\ Len(s) <= Len(t)
  /\ \A q \in 1 .. Len(s) : s[q] = t[q]

\* A line of the event i is added to the pending file g.
Adds(g, i, s) ==
  \A f \in Files : Pending(f)' = IF f = g THEN Pending(f) \o Line(i, s) ELSE Pending(f)

Drops == \A f \in Files : Within(Pending(f)', Pending(f))

LEMMA Associative ==
  \A x, y, z \in Seq(Bytes') : (x \o y) \o z = x \o (y \o z)
BY ConcatAssociative

LEMMA PendingType ==
  ASSUME TypeOK, NEW f \in Files
  PROVE  /\ Left(f) \in Seq(Bytes) /\ Pending(f) \in Seq(Bytes)
         /\ Len(Pending(f)) \in Nat /\ Len(file[f]) <= Len(Pending(f))
         /\ \A q \in 1 .. Len(file[f]) : Pending(f)[q] = file[f][q]
<1> DEFINE a == file[f]  b == Left(f)
<1>1. handler.buffer \in Seq(Bytes) /\ <<>> \in Seq(Bytes)
  BY Numbers DEF Handlers
<1>2. a \in Seq(Bytes) /\ b \in Seq(Bytes)
  BY <1>1, Numbers DEF Left
<1> HIDE DEF a, b
<1>3. Len(a) \in Nat /\ Len(b) \in Nat
  BY <1>2, LenProperties
<1>4. /\ a \o b \in Seq(Bytes) /\ Len(a \o b) = Len(a) + Len(b)
      /\ \A i \in 1 .. Len(a) + Len(b) : (a \o b)[i] = IF i <= Len(a) THEN a[i] ELSE b[i - Len(a)]
  BY <1>2, ConcatProperties
<1>5. \A q \in 1 .. Len(a) : (a \o b)[q] = a[q]
  BY <1>3, <1>4
<1>6. Pending(f) = a \o b
  BY DEF Pending, a, b
<1>7. Len(a \o b) \in Nat /\ Len(a) <= Len(a \o b)
  BY <1>3, <1>4
<1> QED BY <1>2, <1>4, <1>5, <1>6, <1>7 DEF a, b

Measured == \A f \in Files : Len(Pending(f)) \in Nat

LEMMA PendingMeasured == TypeOK => Measured
BY PendingType DEF Measured

LEMMA SettledShape ==
  ASSUME TypeOK, Len(events) < MaxEvents, MustRotate
  PROVE  /\ Settled[At(Held)] = file[At(Held)] \o Held.buffer
         /\ \A f \in Files : f # At(Held) => Settled[f] = file[f]
<1> DEFINE h == At(Held)  b == Held.buffer
<1>1. h \in Files /\ b \in Seq(Bytes) /\ file \in [Files -> Seq(Bytes)]
  BY Holding DEF HandlersTo, TypeOK
<1>2. Settled = Appended(file, h, b)
  BY DEF Settled
<1> HIDE DEF h, b
<1>3. /\ Appended(file, h, b)[h] = file[h] \o b
      /\ \A f \in Files : f # h => Appended(file, h, b)[f] = file[f]
  BY <1>1 DEF Appended
<1> QED BY <1>2, <1>3 DEF h, b

\* Turning to another file moves what is left to where it is pending.
LEMMA SettledPending ==
  ASSUME TypeOK, Len(events) < MaxEvents, NEW f \in Files
  PROVE  Pending(f) = Settled[f] \o (IF f = Target THEN Current.buffer ELSE <<>>)
<1>1. Left(f) = IF f = At(Held) THEN Held.buffer ELSE <<>>
  BY Holding, Numbers DEF Left
<1>2. CASE MustRotate
  <2>1. file[f] \in Seq(Bytes) /\ Pending(f) \in Seq(Bytes)
    BY Numbers, PendingType
  <2>2. file[f] \o <<>> = file[f] /\ Pending(f) \o <<>> = Pending(f)
    BY <2>1, ConcatEmptySeq
  <2>3. Settled[f] = Pending(f)
    BY <1>1, <1>2, <2>2, SettledShape DEF Pending
  <2>4. Current.buffer = <<>>
    BY <1>2, Turning
  <2> QED BY <2>2, <2>3, <2>4
<1>3. CASE ~MustRotate
  <2>1. Settled = file /\ Current = Held /\ Target = At(Held)
    BY <1>3, Turning DEF Settled
  <2> QED BY <1>1, <2>1 DEF Pending
<1> QED BY <1>2, <1>3

\* A line that is written, all of it or a first part, is pending where it goes.
LEMMA WritingAdds ==
  ASSUME TypeOK, NEW u \in Users, NEW s \in Sizes, NEW b \in BOOLEAN, Logged(u, s, b),
         NEW q \in Seq(Bytes'), NEW r \in Seq(Bytes'), q \o r = Queue(s),
         file' = Appended(Settled, Target, q), At(handler') = Target, handler'.buffer = r
  PROVE  Adds(Target, Len(events) + 1, s)
<1>1. Len(events) < MaxEvents
  BY DEF Logged
<1> DEFINE c == Current.buffer  l == Line(Len(events) + 1, s)
<1>2. PICK t \in Files : t = Target
  BY <1>1, Turning
<1>3. /\ file'[t] = file[t] \o q /\ t \in Files
      /\ \A e \in Files : e # t => file'[e] = Settled[e]
  BY <1>2, Written
<1>4. /\ c \in Seq(Bytes') /\ l \in Seq(Bytes') /\ q \o r = c \o l
  <2>1. c \in Seq(Bytes)
    BY <1>1, Turning DEF HandlersTo
  <2>2. Len(events) + 1 \in Nat /\ Len(events) + 1 \in 1 .. Len(events) + 1
    BY Numbers
  <2>3. l \in Seq((1 .. Len(events) + 1) \X (1 .. MaxLine))
    BY <2>2, LineShape
  <2> QED BY <2>1, <2>3, Logging DEF Queue
<1>5. \A f \in Files : /\ file[f] \in Seq(Bytes') /\ Settled[f] \in Seq(Bytes')
                       /\ Pending(f) = Settled[f] \o (IF f = t THEN c ELSE <<>>)
  BY <1>1, <1>2, Logging, Numbers, Turning, SettledPending
<1>6. Settled[t] = file[t]
  BY <1>1, <1>2, Turning
<1>7. \A f \in Files : Left(f)' = IF f = t THEN r ELSE <<>>
  BY <1>2 DEF Left
<1>8. \A f \in Files : Pending(f)' = file'[f] \o (IF f = t THEN r ELSE <<>>)
  BY <1>7 DEF Pending
<1> HIDE DEF c, l
<1>9. Pending(t)' = Pending(t) \o l
  <2> DEFINE a == file[t]
  <2>1. a \in Seq(Bytes')
    BY <1>3, <1>5
  <2>2. Pending(t)' = (a \o q) \o r /\ Pending(t) = a \o c
    BY <1>3, <1>5, <1>6, <1>8
  <2> HIDE DEF a
  <2>3. (a \o q) \o r = a \o (q \o r)
    BY <2>1, Associative, Zenon
  <2>4. (a \o c) \o l = a \o (c \o l)
    BY <1>4, <2>1, Associative, SMTT(30)
  <2> QED BY <1>4, <2>2, <2>3, <2>4
<1>10. ASSUME NEW f \in Files, f # t
      PROVE  Pending(f)' = Pending(f)
  BY <1>3, <1>5, <1>8, <1>10
<1>11. \A f \in Files : Pending(f)' = IF f = t THEN Pending(f) \o l ELSE Pending(f)
  BY <1>9, <1>10
<1> QED BY <1>2, <1>11 DEF Adds, l

LEMMA LogEventAdds ==
  ASSUME TypeOK, NEW u \in Users, NEW s \in Sizes, LogEvent(u, s)
  PROVE  Adds(Target, Len(events) + 1, s)
<1>1. /\ Logged(u, s, TRUE) /\ file' = Appended(Settled, Target, Queue(s))
      /\ handler' = [Current EXCEPT !.size = @ + s, !.buffer = <<>>]
      /\ Len(events) < MaxEvents
  BY DEF LogEvent, Logged
<1>2. Current \in HandlersTo(Len(events) + 1) /\ At(Current) = Target
  BY <1>1, Turning
<1>3. At(handler') = Target /\ handler'.buffer = <<>>
  BY <1>1, <1>2 DEF HandlersTo, At
<1>4. Queue(s) \in Seq(Bytes') /\ <<>> \in Seq(Bytes')
  BY <1>1, Logging, EmptySeq
<1>5. Queue(s) \o <<>> = Queue(s)
  BY <1>4, ConcatEmptySeq
<1> QED BY <1>1, <1>3, <1>4, <1>5, WritingAdds

LEMMA WriteFailsAdds ==
  ASSUME TypeOK, NEW u \in Users, NEW s \in Sizes, WriteFails(u, s)
  PROVE  Adds(Target, Len(events) + 1, s)
<1>1. Logged(u, s, FALSE) /\ Len(events) < MaxEvents
  BY DEF WriteFails, Logged
<1> DEFINE Q == Queue(s)
<1>2. Q \in Seq(Bytes')
  BY <1>1, Logging
<1>3. PICK k \in 0 .. Len(Q) - 1 :
        /\ file' = Appended(Settled, Target, SubSeq(Q, 1, k))
        /\ handler' = [Current EXCEPT !.buffer = SubSeq(Q, k + 1, Len(Q))]
  BY DEF WriteFails
<1> DEFINE done == SubSeq(Q, 1, k)  rest == SubSeq(Q, k + 1, Len(Q))
<1>4. done \in Seq(Bytes') /\ rest \in Seq(Bytes') /\ done \o rest = Q
  <2> HIDE DEF Q
  <2>1. Len(Q) \in Nat /\ k \in 0 .. Len(Q)
    BY <1>2, LenProperties
  <2>2. done \in Seq(Bytes') /\ rest \in Seq(Bytes')
    BY <1>2, <2>1, Cut
  <2>3. SubSeq(Q, 1, k) \o SubSeq(Q, k + 1, Len(Q)) = SubSeq(Q, 1, Len(Q))
    <3>1. 1 \in 1 .. Len(Q) + 1 /\ k \in 1 - 1 .. Len(Q) /\ Len(Q) \in k .. Len(Q)
      BY <2>1
    <3> QED BY <1>2, <3>1, ConcatAdjacentSubSeq
  <2>4. SubSeq(Q, 1, Len(Q)) = Q
    BY <1>2, SubSeqFull
  <2> QED BY <2>2, <2>3, <2>4
<1>5. Current \in HandlersTo(Len(events) + 1) /\ At(Current) = Target
  BY <1>1, Turning
<1> HIDE DEF Q, done, rest
<1>6. At(handler') = Target /\ handler'.buffer = rest
  BY <1>3, <1>5 DEF HandlersTo, At, rest
<1>7. file' = Appended(Settled, Target, done) /\ done \o rest = Queue(s)
  BY <1>3, <1>4 DEF done, Q
<1> QED BY <1>1, <1>4, <1>6, <1>7, WritingAdds

\* What is not open for writing any more loses the end of its buffer.
LEMMA CutWithin ==
  ASSUME NEW S, NEW a \in Seq(S), NEW b \in Seq(S), NEW k \in 0 .. Len(b)
  PROVE  Within(a \o SubSeq(b, 1, k), a \o b)
<1> DEFINE c == SubSeq(b, 1, k)
<1>1. Len(a) \in Nat /\ Len(b) \in Nat /\ k \in Nat /\ k <= Len(b)
  BY LenProperties
<1>2. c \in Seq(S) /\ Len(c) = k
  BY Cut
<1>3. \A i \in 1 .. k : c[i] = b[i]
  <2>1. \A i \in 1 .. k : b[i] \in S
    BY <1>1, ElementOfSeq
  <2>2. \A i \in 1 .. k - 1 + 1 : c[i] = b[1 + i - 1]
    BY <1>1, <2>1, SubSeqProperties
  <2> QED BY <1>1, <2>2
<1> HIDE DEF c
<1>4. /\ Len(a \o c) = Len(a) + k
      /\ \A i \in 1 .. Len(a) + k : (a \o c)[i] = IF i <= Len(a) THEN a[i] ELSE c[i - Len(a)]
  BY <1>2, ConcatProperties
<1>5. /\ Len(a \o b) = Len(a) + Len(b)
      /\ \A i \in 1 .. Len(a) + Len(b) : (a \o b)[i] = IF i <= Len(a) THEN a[i] ELSE b[i - Len(a)]
  BY ConcatProperties
<1>6. Len(a \o c) <= Len(a \o b)
  BY <1>1, <1>4, <1>5
<1>7. ASSUME NEW q \in 1 .. Len(a \o c)
      PROVE  (a \o c)[q] = (a \o b)[q]
  <2>1. q \in 1 .. Len(a) + k /\ q \in 1 .. Len(a) + Len(b)
    BY <1>1, <1>4
  <2>2. CASE q <= Len(a)
    BY <1>4, <1>5, <2>1, <2>2
  <2>3. CASE ~(q <= Len(a))
    <3>1. q - Len(a) \in 1 .. k
      BY <1>1, <2>1, <2>3
    <3> QED BY <1>3, <1>4, <1>5, <2>1, <2>3, <3>1
  <2> QED BY <2>2, <2>3
<1> QED BY <1>6, <1>7 DEF Within, c

LEMMA WithinReflexive ==
  ASSUME NEW S, NEW s \in Seq(S)
  PROVE  Within(s, s)
<1>1. Len(s) \in Nat
  BY LenProperties
<1> QED BY <1>1 DEF Within

LEMMA ClosingDrops ==
  ASSUME TypeOK, NEW k \in 0 .. Len(handler.buffer), At(handler') = At(handler),
         file' = Appended(file, At(handler), SubSeq(handler.buffer, 1, k)),
         handler'.buffer = <<>>
  PROVE  Drops
<1> DEFINE b == handler.buffer  h == At(handler)  c == SubSeq(b, 1, k)
<1>1. b \in Seq(Bytes) /\ c \in Seq(Bytes) /\ file \in [Files -> Seq(Bytes)]
  <2>1. b \in Seq(Bytes) /\ k \in 0 .. Len(b) /\ file \in [Files -> Seq(Bytes)]
    BY Numbers DEF Handlers, TypeOK
  <2> HIDE DEF b
  <2> QED BY <2>1, Cut
<1> SUFFICES ASSUME NEW f \in Files PROVE Within(Pending(f)', Pending(f))
  BY DEF Drops
<1>2. Left(f)' = <<>> /\ file' = Appended(file, h, c)
  BY DEF Left
<1>3. CASE f = h
  <2>1. file[f] \in Seq(Bytes)
    BY <1>1
  <2>2. file'[f] = file[f] \o c
    BY <1>1, <1>2, <1>3 DEF Appended
  <2>3. file[f] \o c \in Seq(Bytes)
    BY <1>1, <2>1, ConcatProperties
  <2>4. (file[f] \o c) \o <<>> = file[f] \o c
    BY <2>3, ConcatEmptySeq
  <2>5. Pending(f)' = file[f] \o c /\ Pending(f) = file[f] \o b
    BY <1>2, <1>3, <2>2, <2>4 DEF Pending, Left
  <2>6. Within(file[f] \o c, file[f] \o b)
    <3>1. \A x, y \in Seq(Bytes) : \A j \in 0 .. Len(y) : Within(x \o SubSeq(y, 1, j), x \o y)
      BY CutWithin
    <3> QED BY <1>1, <2>1, <3>1, Zenon
  <2> QED BY <2>5, <2>6
<1>4. CASE f # h
  <2>1. Left(f) = <<>> /\ file'[f] = file[f]
    BY <1>1, <1>2, <1>4 DEF Left, Appended
  <2>2. Pending(f)' = Pending(f)
    BY <1>2, <2>1 DEF Pending
  <2>3. Pending(f) \in Seq(Bytes)
    BY PendingType
  <2> QED BY <2>2, <2>3, WithinReflexive
<1> QED BY <1>3, <1>4

LEMMA SameDrops ==
  ASSUME TypeOK, UNCHANGED <<file, handler>>
  PROVE  Drops
<1>1. \A f \in Files : Pending(f)' = Pending(f) /\ Pending(f) \in Seq(Bytes)
  BY PendingType DEF Pending, Left, At
<1> QED BY <1>1, WithinReflexive DEF Drops

LEMMA OpenFailsDrops ==
  ASSUME TypeOK, NEW u \in Users, NEW s \in Sizes, OpenFails(u, s)
  PROVE  Drops
<1>1. /\ Len(events) < MaxEvents /\ MustRotate /\ file' = Settled
      /\ handler' = [Opened(Target) EXCEPT !.size = 0, !.closed = TRUE]
  BY DEF OpenFails, Logged
<1>2. handler'.buffer = <<>> /\ Current.buffer = <<>>
  BY <1>1, Turning DEF Opened
<1> SUFFICES ASSUME NEW f \in Files PROVE Within(Pending(f)', Pending(f))
  BY DEF Drops
<1>3. Left(f)' = <<>> /\ Pending(f)' = Settled[f] \o <<>>
  BY <1>1, <1>2 DEF Pending, Left
<1>4. Pending(f) = Settled[f] \o <<>>
  BY <1>1, <1>2, SettledPending
<1>5. Pending(f) \in Seq(Bytes)
  BY PendingType
<1> QED BY <1>3, <1>4, <1>5, WithinReflexive

\* Every step: a line is added, of an event that was not there, or ends drop off.
LEMMA PendingStep ==
  ASSUME TypeOK, [Next]_vars
  PROVE  Drops \/ \E g \in Files, s \in Sizes : Adds(g, Len(events) + 1, s)
<1>1. ASSUME NEW u \in Users, NEW s \in Sizes, LogEvent(u, s) \/ WriteFails(u, s)
      PROVE  \E g \in Files : Adds(g, Len(events) + 1, s)
  <2>1. Target \in Files
    BY <1>1, Turning DEF LogEvent, WriteFails, Logged
  <2> QED BY <1>1, <2>1, LogEventAdds, WriteFailsAdds
<1>2. ASSUME NEW u \in Users, NEW s \in Sizes, CloseFails(u, s)
      PROVE  Drops
  <2>1. PICK k \in 0 .. Len(handler.buffer) :
          file' = Appended(file, At(handler), SubSeq(handler.buffer, 1, k))
    BY <1>2 DEF CloseFails
  <2>2. At(handler') = At(handler) /\ handler'.buffer = <<>>
    BY <1>2, Numbers DEF CloseFails, Handlers, At
  <2> QED BY <2>1, <2>2, ClosingDrops
<1>3. CASE Restart
  <2>1. PICK k \in 0 .. Len(handler.buffer) :
          file' = Appended(file, At(handler), SubSeq(handler.buffer, 1, k))
    BY <1>3 DEF Restart
  <2>2. At(handler') = At(handler) /\ handler'.buffer = <<>>
    BY <1>3, Numbers DEF Restart, Handlers, At
  <2> QED BY <2>1, <2>2, ClosingDrops
<1>4. ASSUME NEW u \in Users, NEW s \in Sizes,
             LogEvent(u, s) \/ DiskFails(u, s) \/ WriteToClosed(u, s)
      PROVE  Drops \/ \E g \in Files : Adds(g, Len(events) + 1, s)
  BY <1>1, <1>2, <1>4, OpenFailsDrops, SameDrops DEF DiskFails, MakeFails, WriteToClosed
<1>5. CASE Midnight \/ UNCHANGED vars
  BY <1>5, SameDrops DEF Midnight, vars
<1> QED BY <1>3, <1>4, <1>5 DEF Next

-----------------------------------------------------------------------------
(***************************************************************************)
(* No byte is pending at two places, so that no entry is met twice: not    *)
(* even when a line stays in the buffer and is written with a later one.   *)
(***************************************************************************)
Once ==
  \A f, g \in Files : \A p \in 1 .. Len(Pending(f)), q \in 1 .. Len(Pending(g)) :
    Pending(f)[p] = Pending(g)[q] => f = g /\ p = q

LEMMA OnePlace ==
  ASSUME Once, NEW f \in Files, NEW g \in Files, NEW p \in 1 .. Len(Pending(f)),
         NEW q \in 1 .. Len(Pending(g)), Pending(f)[p] = Pending(g)[q]
  PROVE  f = g /\ p = q
BY DEF Once

LEMMA AddedBytes ==
  ASSUME TypeOK, NEW g \in Files, NEW s \in Sizes, Adds(g, Len(events) + 1, s),
         NEW f \in Files, NEW p \in 1 .. Len(Pending(f)')
  PROVE  \/ /\ p \in 1 .. Len(Pending(f)) /\ Pending(f)'[p] = Pending(f)[p]
            /\ Pending(f)[p][1] # Len(events) + 1
         \/ /\ f = g /\ p - Len(Pending(g)) \in Nat
            /\ Pending(f)'[p] = <<Len(events) + 1, p - Len(Pending(g))>>
<1> DEFINE n == Len(events) + 1  l == Line(n, s)
<1>1. /\ n \in Nat /\ n \in 1 .. n /\ Bytes \subseteq (1 .. n) \X (1 .. MaxLine)
      /\ \A b \in Bytes : b[1] # n
  BY Numbers DEF Bytes
<1>2. l \in Seq((1 .. n) \X (1 .. MaxLine)) /\ Len(l) = s /\ \A k \in 1 .. s : l[k] = <<n, k>>
  BY <1>1, LineShape
<1>3. s \in Nat
  BY SizeAssumption DEF Sizes
<1>4. /\ Pending(f) \in Seq(Bytes) /\ Pending(f) \in Seq((1 .. n) \X (1 .. MaxLine))
      /\ Len(Pending(f)) \in Nat
  BY <1>1, PendingType, SeqMonotonic
<1>5. ASSUME p \in 1 .. Len(Pending(f))
      PROVE  Pending(f)[p][1] # n
  BY <1>1, <1>4, <1>5, ElementOfSeq
<1>6. CASE f # g
  <2>1. Pending(f)' = Pending(f)
    BY <1>6 DEF Adds
  <2> QED BY <1>5, <2>1
<1>7. CASE f = g
  <2> DEFINE a == Pending(f)  b == Pending(f)'
  <2>1. b = a \o l
    BY <1>7 DEF Adds
  <2>2. a \in Seq((1 .. n) \X (1 .. MaxLine)) /\ Len(a) \in Nat /\ p \in 1 .. Len(b)
    BY <1>4
  <2> HIDE DEF a, b, n, l
  <2>3. /\ Len(b) = Len(a) + s
        /\ \A i \in 1 .. Len(a) + s : b[i] = IF i <= Len(a) THEN a[i] ELSE l[i - Len(a)]
    BY <1>2, <2>1, <2>2, ConcatProperties
  <2>4. CASE p <= Len(a)
    <3>1. p \in 1 .. Len(a) /\ b[p] = a[p]
      BY <1>3, <2>2, <2>3, <2>4
    <3> QED BY <1>5, <3>1 DEF a, b, n
  <2>5. CASE ~(p <= Len(a))
    <3>1. p - Len(a) \in 1 .. s /\ p - Len(a) \in Nat /\ b[p] = l[p - Len(a)]
      BY <1>3, <2>2, <2>3, <2>5
    <3>2. b[p] = <<n, p - Len(a)>>
      BY <1>2, <3>1
    <3> QED BY <1>7, <3>1, <3>2 DEF a, b, n
  <2> QED BY <2>4, <2>5
<1> QED BY <1>6, <1>7

LEMMA OnceStep ==
  ASSUME TypeOK, Once, [Next]_vars
  PROVE  Once'
<1> SUFFICES ASSUME NEW f \in Files, NEW g \in Files,
                    NEW p \in 1 .. Len(Pending(f)'), NEW q \in 1 .. Len(Pending(g)'),
                    Pending(f)'[p] = Pending(g)'[q]
             PROVE  f = g /\ p = q
  BY DEF Once
<1>1. CASE Drops
  <2>1. /\ Len(Pending(f)) \in Nat /\ Len(Pending(f)') <= Len(Pending(f))
        /\ Len(Pending(g)) \in Nat /\ Len(Pending(g)') <= Len(Pending(g))
        /\ Pending(f)'[p] = Pending(f)[p] /\ Pending(g)'[q] = Pending(g)[q]
    BY <1>1, PendingType DEF Drops, Within
  <2>2. /\ Len(Pending(f)') \in Nat /\ Len(Pending(g)') \in Nat
    <3>1. TypeOK'
      BY Step
    <3>2. (TypeOK => Measured)'
      BY PendingMeasured, PTL
    <3> QED BY <3>1, <3>2 DEF Measured
  <2>3. p \in 1 .. Len(Pending(f)) /\ q \in 1 .. Len(Pending(g))
    BY <2>1, <2>2
  <2>4. Pending(f)[p] = Pending(g)[q]
    BY <2>1
  <2> QED BY <2>3, <2>4, OnePlace
<1>2. CASE \E h \in Files, s \in Sizes : Adds(h, Len(events) + 1, s)
  <2>1. PICK h \in Files, s \in Sizes : Adds(h, Len(events) + 1, s)
    BY <1>2
  <2>2. \/ /\ p \in 1 .. Len(Pending(f)) /\ Pending(f)'[p] = Pending(f)[p]
           /\ Pending(f)[p][1] # Len(events) + 1
        \/ /\ f = h /\ p - Len(Pending(h)) \in Nat
           /\ Pending(f)'[p] = <<Len(events) + 1, p - Len(Pending(h))>>
    BY <2>1, AddedBytes
  <2>3. \/ /\ q \in 1 .. Len(Pending(g)) /\ Pending(g)'[q] = Pending(g)[q]
           /\ Pending(g)[q][1] # Len(events) + 1
        \/ /\ g = h /\ q - Len(Pending(h)) \in Nat
           /\ Pending(g)'[q] = <<Len(events) + 1, q - Len(Pending(h))>>
    BY <2>1, AddedBytes
  <2>4. Len(Pending(h)) \in Nat /\ p \in Int /\ q \in Int
    BY PendingType
  <2>5. CASE /\ p \in 1 .. Len(Pending(f)) /\ Pending(f)'[p] = Pending(f)[p]
             /\ q \in 1 .. Len(Pending(g)) /\ Pending(g)'[q] = Pending(g)[q]
    <3>1. Pending(f)[p] = Pending(g)[q]
      BY <2>5
    <3> QED BY <2>5, <3>1, OnePlace
  <2>6. CASE /\ f = h /\ Pending(f)'[p] = <<Len(events) + 1, p - Len(Pending(h))>>
             /\ g = h /\ Pending(g)'[q] = <<Len(events) + 1, q - Len(Pending(h))>>
    <3>1. p - Len(Pending(h)) = q - Len(Pending(h))
      BY <2>6
    <3> QED BY <2>4, <2>6, <3>1
  <2> QED BY <2>2, <2>3, <2>5, <2>6
<1> QED BY <1>1, <1>2, PendingStep

\* Once: whatever fails, no byte is ever on disk or on the way to it twice.
THEOREM WrittenOnce == Spec => []Once
<1>1. Init => Once
  <2> SUFFICES ASSUME Init PROVE Once
    OBVIOUS
  <2>1. \A f \in Files : Left(f) = <<>> /\ file[f] = <<>>
    BY DEF Init, Left
  <2>2. \A f \in Files : Pending(f) = <<>>
    <3>1. <<>> \o <<>> = <<>>
      BY EmptySeq, ConcatEmptySeq
    <3> QED BY <2>1, <3>1 DEF Pending
  <2>3. Len(<<>>) = 0
    OBVIOUS
  <2> QED BY <2>2, <2>3 DEF Once
<1>2. TypeOK /\ Once /\ [Next]_vars => Once'
  BY OnceStep
<1> QED BY <1>1, <1>2, TypeCorrect, PTL DEF Spec

-----------------------------------------------------------------------------
(***************************************************************************)
(* OwnLogComplete: what a reader meets are the entries it can read, each   *)
(* at one place; so no more than the limit come after any of them.         *)
(***************************************************************************)
LEMMA EventType ==
  ASSUME TypeOK, NEW i \in DOMAIN events
  PROVE  events[i] \in Event /\ SizeOf(i) \in Nat /\ 2 <= SizeOf(i)
<1>1. events[i] \in Event
  BY Numbers, ElementOfSeq DEF TypeOK, Event
<1> QED BY <1>1, SizeAssumption DEF Event, Sizes, SizeOf

LEMMA MetType ==
  ASSUME TypeOK, NEW us, NEW x \in Met(us)
  PROVE  /\ x[1] \in Files /\ x[2] \in 1 .. Len(file[x[1]]) /\ x = <<x[1], x[2]>>
         /\ EventAt(x) \in DOMAIN events /\ Readable(EventAt(x))
         /\ events[EventAt(x)].user \in us
         /\ file[x[1]][x[2]] = <<EventAt(x), 1>>
<1>1. /\ x \in Places /\ ReadsAt(EventAt(x), x[1], x[2] - 1)
      /\ events[EventAt(x)].user \in us
  BY DEF Met
<1>2. x[1] \in Files /\ x[2] \in 1 .. Len(file[x[1]]) /\ x = <<x[1], x[2]>>
  BY <1>1 DEF Places
<1> DEFINE f == x[1]  p == x[2]  i == EventAt(x)
<1>3. file[f] \in Seq(Bytes) /\ Len(file[f]) \in Nat
  BY <1>2, Numbers
<1>4. i \in DOMAIN events
  <2>1. file[f][p] \in Bytes
    BY <1>2, <1>3, ElementOfSeq
  <2> QED BY <2>1 DEF EventAt, Bytes
<1>5. file[f][p] = <<i, 1>>
  <2>1. 1 \in 1 .. SizeOf(i) /\ 1 \in 1 .. SizeOf(i) - 1
    BY <1>4, EventType
  <2>2. file[f][(p - 1) + 1] = <<i, 1>>
    BY <1>1, <2>1 DEF ReadsAt, StandsAt, EndsWithText
  <2>3. (p - 1) + 1 = p
    BY <1>2, <1>3
  <2> QED BY <2>2, <2>3
<1>6. Readable(i)
  <2>1. p - 1 \in 0 .. Len(file[f])
    BY <1>2, <1>3
  <2> QED BY <1>1, <1>2, <2>1 DEF Readable
<1> QED BY <1>1, <1>2, <1>4, <1>5, <1>6

\* Every entry that can be read is met.
LEMMA MetAll ==
  ASSUME TypeOK, NEW us, NEW i \in DOMAIN events, Readable(i), events[i].user \in us
  PROVE  \E x \in Met(us) : EventAt(x) = i
<1>1. PICK f \in Files : \E p \in 0 .. Len(file[f]) : ReadsAt(i, f, p)
  BY DEF Readable
<1>2. PICK p \in 0 .. Len(file[f]) : ReadsAt(i, f, p)
  BY <1>1
<1>3. SizeOf(i) \in Nat /\ 2 <= SizeOf(i) /\ Len(file[f]) \in Nat
  BY EventType, Numbers
<1>4. p + 1 <= Len(file[f]) /\ file[f][p + 1] = <<i, 1>>
  BY <1>2, <1>3 DEF ReadsAt, StandsAt, EndsWithText
<1>5. p + 1 \in 1 .. Len(file[f]) /\ (p + 1) - 1 = p
  BY <1>3, <1>4
<1> DEFINE x == <<f, p + 1>>
<1>6. x \in Places
  BY <1>5 DEF Places
<1>7. EventAt(x) = i /\ x[1] = f /\ x[2] - 1 = p
  BY <1>4, <1>5 DEF EventAt
<1>8. x \in Met(us)
  BY <1>2, <1>6, <1>7 DEF Met
<1> QED BY <1>7, <1>8

LEMMA MetOnce ==
  ASSUME TypeOK, Once, NEW us, NEW x \in Met(us), NEW y \in Met(us), EventAt(x) = EventAt(y)
  PROVE  x = y
<1>1. /\ x[1] \in Files /\ x[2] \in 1 .. Len(file[x[1]]) /\ x = <<x[1], x[2]>>
      /\ file[x[1]][x[2]] = <<EventAt(x), 1>>
  BY MetType
<1>2. /\ y[1] \in Files /\ y[2] \in 1 .. Len(file[y[1]]) /\ y = <<y[1], y[2]>>
      /\ file[y[1]][y[2]] = <<EventAt(y), 1>>
  BY MetType
<1>3. ASSUME NEW f \in Files, NEW p \in 1 .. Len(file[f])
      PROVE  p \in 1 .. Len(Pending(f)) /\ Pending(f)[p] = file[f][p]
  BY PendingType, Numbers
<1>4. /\ x[2] \in 1 .. Len(Pending(x[1])) /\ y[2] \in 1 .. Len(Pending(y[1]))
      /\ Pending(x[1])[x[2]] = Pending(y[1])[y[2]]
  BY <1>1, <1>2, <1>3
<1>5. x[1] = y[1] /\ x[2] = y[2]
  BY <1>1, <1>2, <1>4, OnePlace
<1> QED BY <1>1, <1>2, <1>5

LEMMA NotAfterItself ==
  ASSUME TypeOK, NEW us, NEW x \in Met(us)
  PROVE  ~After(x, x)
<1>1. x[1] \in Files /\ x[2] \in Nat
  BY MetType
<1>2. x[1][1] \in Nat /\ x[1][2] \in Nat
  BY <1>1 DEF Files, Days
<1> QED BY <1>1, <1>2 DEF After

\* OwnLogComplete: a user reads every entry about them, once each, as long as
\* these are no more than the limit, whatever is logged about others.
LEMMA ReadsOwn ==
  ASSUME TypeOK, Once
  PROVE  OwnLogComplete
<1> SUFFICES ASSUME NEW u \in Users,
               Cardinality({i \in DOMAIN events : events[i].user = u /\ Readable(i)}) <= MaxLimit
             PROVE  /\ {EventAt(x) : x \in ReadLogEntries({u}, MaxLimit)}
                         = {i \in DOMAIN events : events[i].user = u /\ Readable(i)}
                    /\ Cardinality(ReadLogEntries({u}, MaxLimit))
                         = Cardinality({i \in DOMAIN events : events[i].user = u /\ Readable(i)})
  BY DEF OwnLogComplete
<1> DEFINE own == {i \in DOMAIN events : events[i].user = u /\ Readable(i)}
           met == Met({u})
           at  == [x \in met |-> EventAt(x)]
<1>1. IsFiniteSet(own)
  <2>1. own \in SUBSET (1 .. Len(events)) /\ Len(events) \in Nat
    BY Numbers
  <2>2. IsFiniteSet(1 .. Len(events))
    BY <2>1, FS_Interval
  <2> HIDE DEF own
  <2> QED BY <2>1, <2>2, FS_Subset
<1>2. \A x \in met : EventAt(x) \in own
  BY MetType
<1>3. \A x, y \in met : EventAt(x) = EventAt(y) => x = y
  BY MetOnce
<1>4. \A i \in own : \E x \in met : EventAt(x) = i
  BY MetAll
<1>5. at \in Injection(met, own) /\ at \in Surjection(met, own)
  <2> HIDE DEF own, met
  <2> QED BY <1>2, <1>3, <1>4 DEF Injection, IsInjective, Surjection
<1>6. IsFiniteSet(met) /\ Cardinality(met) = Cardinality(own)
  <2> HIDE DEF own, met, at
  <2> QED BY <1>1, <1>5, FS_Injection
<1>7. Cardinality(met) \in Nat /\ Cardinality(met) <= MaxLimit /\ MaxLimit \in Nat
  <2>1. Cardinality(own) <= MaxLimit
    OBVIOUS
  <2> HIDE DEF own, met
  <2> QED BY <1>6, <2>1, FS_CardinalityType, LimitAssumption
<1>8. ASSUME NEW x \in met
      PROVE  Cardinality({y \in met : After(y, x)}) < MaxLimit
  <2> DEFINE later == {y \in met : After(y, x)}
  <2>1. later \in SUBSET (met \ {x})
    BY <1>8, NotAfterItself
  <2> HIDE DEF met, later
  <2>2. IsFiniteSet(met \ {x}) /\ Cardinality(met \ {x}) = Cardinality(met) - 1
    BY <1>6, <1>8, FS_RemoveElement
  <2>3. /\ Cardinality(later) <= Cardinality(met \ {x})
        /\ Cardinality(later) \in Nat
    BY <2>1, <2>2, FS_Subset, FS_CardinalityType
  <2>4. Cardinality(later) < MaxLimit
    BY <1>7, <2>2, <2>3
  <2> QED BY <2>4 DEF later
<1>9. ReadLogEntries({u}, MaxLimit) = met
  BY <1>8 DEF ReadLogEntries
<1>10. {EventAt(x) : x \in met} = own
  <2> HIDE DEF own, met
  <2> QED BY <1>2, <1>4
<1> QED BY <1>6, <1>9, <1>10

\* OwnLogComplete, in every state.
THEOREM OwnLogIsComplete == Spec => []OwnLogComplete
BY ReadsOwn, TypeCorrect, WrittenOnce, PTL

-----------------------------------------------------------------------------
(***************************************************************************)
(* FewUnreadable.  A file whose end is torn, or about to be torn, is weak: *)
(* the next line may continue what stands there and be unreadable, but     *)
(* after it the file ends with a line.  A failure of the disk weakens one  *)
(* file at most, so that FewInv is inductive.                              *)
(***************************************************************************)
\* Event i can be read, and its line is whole.
Whole(i) ==
  \E f \in Files : \E p \in 0 .. Len(file[f]) : StandsAt(i, f, p) /\ Ends(f, p)

Weak(f) == Left(f) # <<>> \/ ~Ends(f, Len(file[f]))
Weaks   == {f \in Files : Weak(f)}
Unread  == {i \in DOMAIN events : events[i].ok /\ ~Whole(i)}
FewInv  == Cardinality(Unread) + Cardinality(Weaks) <= faults

\* An event that is there stays as it is.
LEMMA EventsStay ==
  ASSUME TypeOK, [Next]_vars, NEW i \in DOMAIN events
  PROVE  i \in DOMAIN events' /\ events'[i] = events[i]
<1>1. i \in 1 .. Len(events) /\ Len(events) \in Nat
  BY Numbers
<1>2. ASSUME NEW u \in Users, NEW s \in Sizes, NEW b \in BOOLEAN, Logged(u, s, b)
      PROVE  i \in DOMAIN events' /\ events'[i] = events[i]
  <2>1. /\ DOMAIN events' = 1 .. Len(events) + 1
        /\ \A j \in 1 .. Len(events) : events'[j] = events[j]
    BY <1>2, Logging
  <2> QED BY <1>1, <2>1
<1>3. \/ \E u \in Users, s \in Sizes, b \in BOOLEAN : Logged(u, s, b)
      \/ UNCHANGED events
  BY DEF Next, LogEvent, DiskFails, WriteFails, OpenFails, MakeFails, CloseFails,
         WriteToClosed, Restart, Midnight, vars
<1> QED BY <1>2, <1>3

LEMMA EndsStill ==
  ASSUME TypeOK, [Next]_vars, NEW f \in Files, NEW p \in 0 .. Len(file[f])
  PROVE  Ends(f, p)' <=> Ends(f, p)
<1>1. CASE p = 0
  BY <1>1 DEF Ends
<1>2. CASE p # 0
  <2>1. p \in 1 .. Len(file[f]) /\ file[f] \in Seq(Bytes)
    BY <1>2, Numbers
  <2>2. file'[f][p] = file[f][p]
    BY <2>1, Step DEF Extends
  <2>3. file[f][p][1] \in DOMAIN events
    BY <2>1, ElementOfSeq DEF Bytes
  <2>4. events'[file'[f][p][1]].size = events[file[f][p][1]].size
    BY <2>2, <2>3, EventsStay
  <2> QED BY <2>2, <2>4 DEF Ends, SizeOf
<1> QED BY <1>1, <1>2

\* A whole line that can be read can be read for ever.
LEMMA WholeStill ==
  ASSUME TypeOK, [Next]_vars, NEW i \in DOMAIN events, Whole(i)
  PROVE  Whole(i)'
<1>1. PICK f \in Files : \E p \in 0 .. Len(file[f]) : StandsAt(i, f, p) /\ Ends(f, p)
  BY DEF Whole
<1>2. PICK p \in 0 .. Len(file[f]) : StandsAt(i, f, p) /\ Ends(f, p)
  BY <1>1
<1>3. p \in 0 .. Len(file'[f]) /\ StandsAt(i, f, p)'
  BY <1>2, EventsStay, StandsStill
<1>4. Ends(f, p)'
  BY <1>2, EndsStill
<1> QED BY <1>3, <1>4 DEF Whole

\* A reported entry is met where its line stands whole.
LEMMA ReportedWhole ==
  ASSUME TypeOK, Once, NothingLost, NEW x \in Met(Users), events[EventAt(x)].ok
  PROVE  StandsAt(EventAt(x), x[1], x[2] - 1)
<1>1. /\ x[1] \in Files /\ x[2] \in 1 .. Len(file[x[1]]) /\ EventAt(x) \in DOMAIN events
      /\ file[x[1]][x[2]] = <<EventAt(x), 1>>
  BY MetType
<1>2. PICK i \in DOMAIN events : i = EventAt(x)
  BY <1>1
<1>3. PICK g \in Files : \E q \in 0 .. Len(file[g]) : StandsAt(i, g, q)
  BY <1>2 DEF NothingLost
<1>4. PICK q \in 0 .. Len(file[g]) : StandsAt(i, g, q)
  BY <1>3
<1>5. SizeOf(i) \in Nat /\ 2 <= SizeOf(i) /\ Len(file[g]) \in Nat /\ q \in Nat
  BY EventType, Numbers
<1>6. q + 1 \in 1 .. Len(file[g]) /\ file[g][q + 1] = <<i, 1>>
  BY <1>4, <1>5 DEF StandsAt
<1>7. ASSUME NEW f \in Files, NEW p \in 1 .. Len(file[f])
      PROVE  p \in 1 .. Len(Pending(f)) /\ Pending(f)[p] = file[f][p]
  BY PendingType, Numbers
<1>8. /\ x[2] \in 1 .. Len(Pending(x[1])) /\ q + 1 \in 1 .. Len(Pending(g))
      /\ Pending(x[1])[x[2]] = Pending(g)[q + 1]
  BY <1>1, <1>2, <1>6, <1>7
<1>9. x[1] = g /\ x[2] = q + 1
  BY <1>1, <1>8, OnePlace
<1>10. x[2] - 1 = q
  BY <1>5, <1>9
<1> QED BY <1>2, <1>4, <1>9, <1>10

\* What a reader meets, and stands whole, stays where it is.
LEMMA MetStill ==
  ASSUME TypeOK, [Next]_vars, NEW x \in Met(Users), StandsAt(EventAt(x), x[1], x[2] - 1)
  PROVE  x \in Met(Users)' /\ EventAt(x)' = EventAt(x)
<1>1. /\ x[1] \in Files /\ x[2] \in 1 .. Len(file[x[1]]) /\ x = <<x[1], x[2]>>
      /\ EventAt(x) \in DOMAIN events
  BY MetType
<1>2. PICK f \in Files : f = x[1]
  BY <1>1
<1>3. PICK p \in 0 .. Len(file[f]) : p = x[2] - 1
  BY <1>1, <1>2, Numbers
<1>4. PICK i \in DOMAIN events : i = EventAt(x)
  BY <1>1
<1>5. StandsAt(i, f, p) /\ Ends(f, p) /\ events[i].user \in Users
  BY <1>2, <1>3, <1>4 DEF Met, ReadsAt
<1>6. x[2] \in 1 .. Len(file'[f]) /\ file'[f][x[2]] = file[f][x[2]]
  BY <1>1, <1>2, Step DEF Extends
<1>7. EventAt(x)' = i
  BY <1>2, <1>4, <1>6 DEF EventAt
<1>8. StandsAt(i, f, p)' /\ Ends(f, p)'
  BY <1>5, EventsStay, StandsStill, EndsStill
<1>9. x \in Places'
  BY <1>1, <1>2, <1>6 DEF Places
<1>10. ReadsAt(i, f, p)' /\ events'[i].user \in Users
  BY <1>5, <1>8, EventsStay DEF ReadsAt
<1> QED BY <1>2, <1>3, <1>4, <1>7, <1>9, <1>10 DEF Met

\* Permanent: an entry that could be read can be read for ever, at the place
\* where it was, whatever is written, reopened or torn meanwhile, unless its
\* log_event raised and its line lacks the newline.
THEOREM ReadPermanently == Spec => Permanent
<1>1. TypeOK /\ Once /\ NothingLost /\ [Next]_vars =>
        [\A x \in Met(Users) :
           \/ x \in Met(Users)' /\ EventAt(x)' = EventAt(x)
           \/ ~events[EventAt(x)].ok /\ EndsWithText(EventAt(x), x[1], x[2] - 1)]_vars
  <2> SUFFICES ASSUME TypeOK, Once, NothingLost, [Next]_vars, NEW x \in Met(Users),
                      ~(/\ ~events[EventAt(x)].ok
                        /\ EndsWithText(EventAt(x), x[1], x[2] - 1))
               PROVE  x \in Met(Users)' /\ EventAt(x)' = EventAt(x)
    OBVIOUS
  <2>1. StandsAt(EventAt(x), x[1], x[2] - 1)
    BY ReportedWhole DEF Met, ReadsAt
  <2> QED BY <2>1, MetStill
<1> QED BY <1>1, TypeCorrect, WrittenOnce, NothingIsLost, PTL DEF Spec, Permanent

LEMMA UnreadNew ==
  ASSUME TypeOK, [Next]_vars, NEW i \in Unread'
  PROVE  \/ i \in Unread
         \/ \E u \in Users, s \in Sizes : LogEvent(u, s) /\ i = Len(events) + 1
<1>1. i \in DOMAIN events' /\ events'[i].ok /\ ~Whole(i)'
  BY DEF Unread
<1>2. i \in DOMAIN events /\ events'[i] = events[i] => i \in Unread
  BY <1>1, WholeStill DEF Unread
<1> QED BY <1>1, <1>2, EventsKept

-----------------------------------------------------------------------------
(***************************************************************************)
(* What a step does to the weak files.                                     *)
(***************************************************************************)
LEMMA SameEnd ==
  ASSUME TypeOK, [Next]_vars, NEW f \in Files, file'[f] = file[f], Left(f)' = <<>>, Weak(f)'
  PROVE  Weak(f)
<1>1. ~Ends(f, Len(file[f]))'
  BY DEF Weak
<1>2. PICK p \in 0 .. Len(file[f]) : p = Len(file[f])
  BY Numbers
<1>3. ~Ends(f, p)'
  BY <1>1, <1>2 DEF Ends
<1>4. ~Ends(f, p)
  BY <1>3, EndsStill
<1> QED BY <1>2, <1>4 DEF Weak

LEMMA SettledWeak ==
  ASSUME TypeOK, [Next]_vars, Len(events) < MaxEvents, NEW f \in Files,
         file'[f] = Settled[f], Left(f)' = <<>>, Weak(f)'
  PROVE  Weak(f)
<1>1. CASE Left(f) # <<>>
  BY <1>1 DEF Weak
<1>2. CASE Left(f) = <<>>
  <2>1. file[f] \in Seq(Bytes)
    BY Numbers
  <2>2. file[f] \o <<>> = file[f]
    BY <2>1, ConcatEmptySeq
  <2>3. f = At(Held) => Held.buffer = <<>>
    BY <1>2, Holding DEF Left
  <2>4. Settled[f] = file[f]
    BY <2>2, <2>3, SettledShape DEF Settled
  <2> QED BY <2>4, SameEnd
<1> QED BY <1>1, <1>2

LEMMA ClosingWeak ==
  ASSUME TypeOK, [Next]_vars, NEW k \in 0 .. Len(handler.buffer), At(handler') = At(handler),
         file' = Appended(file, At(handler), SubSeq(handler.buffer, 1, k)),
         handler'.buffer = <<>>, NEW f \in Files, Weak(f)'
  PROVE  Weak(f)
<1>1. CASE Left(f) # <<>>
  BY <1>1 DEF Weak
<1>2. CASE Left(f) = <<>>
  <2>1. Left(f)' = <<>>
    BY DEF Left
  <2>2. CASE f # At(handler)
    <3>1. file'[f] = file[f]
      BY <2>2 DEF Appended, TypeOK
    <3> QED BY <2>1, <3>1, SameEnd
  <2>3. CASE f = At(handler)
    <3>1. handler.buffer = <<>>
      BY <1>2, <2>3 DEF Left
    <3>2. k = 0
      BY <3>1
    <3>3. SubSeq(handler.buffer, 1, k) = <<>>
      BY <3>2, SubSeqEmpty
    <3>4. file[f] \in Seq(Bytes)
      BY Numbers
    <3>5. file[f] \o <<>> = file[f]
      BY <3>4, ConcatEmptySeq
    <3>6. file'[f] = file[f]
      BY <2>3, <3>3, <3>5 DEF Appended, TypeOK
    <3> QED BY <2>1, <3>6, SameEnd
  <2> QED BY <2>2, <2>3
<1> QED BY <1>1, <1>2

LEMMA SameWeak ==
  ASSUME TypeOK, [Next]_vars, UNCHANGED <<file, handler>>, NEW f \in Files, Weak(f)'
  PROVE  Weak(f)
<1>1. Left(f)' = Left(f)
  BY DEF Left, At
<1>2. CASE Left(f) # <<>>
  BY <1>2 DEF Weak
<1>3. CASE Left(f) = <<>>
  BY <1>1, <1>3, SameEnd
<1> QED BY <1>2, <1>3

\* A line that is written whole is the end of its file, and is readable there
\* when the file was not weak.
LEMMA LogEventEnds ==
  ASSUME TypeOK, [Next]_vars, NEW u \in Users, NEW s \in Sizes, LogEvent(u, s)
  PROVE  /\ Target \in Files
         /\ \A f \in Files : Weak(f)' => Weak(f) /\ f # Target
         /\ \A n \in Nat : n = Len(events) + 1 => Weak(Target) \/ Whole(n)'
<1>1. /\ Logged(u, s, TRUE) /\ file' = Appended(Settled, Target, Queue(s))
      /\ handler' = [Current EXCEPT !.size = @ + s, !.buffer = <<>>]
      /\ Len(events) < MaxEvents
  BY DEF LogEvent, Logged
<1>2. Target \in Files /\ handler'.buffer = <<>>
  BY <1>1, Turning DEF HandlersTo
<1>3. PICK t \in Files : t = Target
  BY <1>2
<1>4. \A f \in Files : Left(f)' = <<>>
  BY <1>2 DEF Left
<1>5. PICK n \in Nat : n = Len(events) + 1
  BY Numbers
<1>6. n \in DOMAIN events' /\ events'[n].size = s /\ s \in Nat /\ 1 <= s
  <2>1. /\ DOMAIN events' = 1 .. Len(events) + 1 /\ s \in Nat /\ 1 <= s
        /\ events'[Len(events) + 1] = [user |-> u, size |-> s, ok |-> TRUE]
    BY <1>1, Logging
  <2> QED BY <1>5, <2>1, Numbers
<1> DEFINE p == Len(file[t]) + Len(Current.buffer)
<1>7. /\ p \in Nat /\ p + s = Len(file'[t])
      /\ \A k \in 1 .. s : file'[t][p + k] = <<n, k>>
  BY <1>3, <1>5, LogEventWrites
<1>8. ~Weak(t)'
  <2>1. s \in 1 .. s
    BY <1>6
  <2>2. file'[t][Len(file'[t])] = <<n, s>>
    BY <1>7, <2>1
  <2>3. Ends(t, Len(file[t]))'
    BY <1>6, <2>2 DEF Ends, SizeOf
  <2> QED BY <1>4, <2>3 DEF Weak
<1>9. ASSUME NEW f \in Files, Weak(f)'
      PROVE  Weak(f) /\ f # t
  <2>1. f # t
    BY <1>8, <1>9
  <2>2. file'[f] = Settled[f]
    BY <1>1, <1>3, <2>1, Turning DEF Appended
  <2> QED BY <1>1, <1>4, <1>9, <2>1, <2>2, SettledWeak
<1>10. ASSUME ~Weak(t)
       PROVE  Whole(n)'
  <2>1. Left(t) = <<>> /\ Ends(t, Len(file[t]))
    BY <1>10 DEF Weak
  <2>2. Current.buffer = <<>>
    <3>1. CASE MustRotate
      BY <1>1, <3>1, Turning
    <3>2. CASE ~MustRotate
      <4>1. Current = Held /\ At(Held) = t
        BY <1>1, <1>3, <3>2, Turning
      <4>2. open => Held = handler
        BY Holding
      <4>3. ~open => Held.buffer = <<>>
        BY Holding
      <4> QED BY <2>1, <4>1, <4>2, <4>3 DEF Left
    <3> QED BY <3>1, <3>2
  <2>3. Len(<<>>) = 0 /\ Len(file[t]) \in Nat
    BY Numbers
  <2>4. p = Len(file[t])
    BY <2>2, <2>3
  <2>5. PICK q \in 0 .. Len(file[t]) : q = Len(file[t])
    BY <2>3
  <2>6. Ends(t, q)'
    BY <2>1, <2>5, EndsStill
  <2>7. q + s = Len(file'[t]) /\ \A k \in 1 .. s : file'[t][q + k] = <<n, k>>
    BY <1>7, <2>4, <2>5
  <2>8. StandsAt(n, t, q)' /\ q \in 0 .. Len(file'[t])
    BY <1>6, <2>3, <2>5, <2>7 DEF StandsAt, SizeOf
  <2> QED BY <2>6, <2>8 DEF Whole
<1> QED BY <1>3, <1>5, <1>9, <1>10

LEMMA WriteFailsWeakens ==
  ASSUME TypeOK, [Next]_vars, NEW u \in Users, NEW s \in Sizes, WriteFails(u, s)
  PROVE  \A f \in Files : Weak(f)' => Weak(f) \/ f = Target
<1>1. Logged(u, s, FALSE) /\ Len(events) < MaxEvents
  BY DEF WriteFails, Logged
<1>2. PICK k \in 0 .. Len(Queue(s)) - 1 :
        /\ file' = Appended(Settled, Target, SubSeq(Queue(s), 1, k))
        /\ handler' = [Current EXCEPT !.buffer = SubSeq(Queue(s), k + 1, Len(Queue(s)))]
  BY DEF WriteFails
<1>3. At(handler') = Target
  <2>1. Current \in HandlersTo(Len(events) + 1) /\ At(Current) = Target
    BY <1>1, Turning
  <2> QED BY <1>2, <2>1 DEF HandlersTo, At
<1> SUFFICES ASSUME NEW f \in Files, f # Target, Weak(f)' PROVE Weak(f)
  OBVIOUS
<1>4. Left(f)' = <<>>
  BY <1>3 DEF Left
<1>5. file'[f] = Settled[f]
  BY <1>1, <1>2, Turning DEF Appended
<1> QED BY <1>1, <1>4, <1>5, SettledWeak

LEMMA OthersWeaken ==
  ASSUME TypeOK, [Next]_vars
  PROVE  \/ \E u \in Users, s \in Sizes : LogEvent(u, s) \/ WriteFails(u, s)
         \/ \A f \in Files : Weak(f)' => Weak(f)
<1>1. ASSUME NEW u \in Users, NEW s \in Sizes, CloseFails(u, s)
      PROVE  \A f \in Files : Weak(f)' => Weak(f)
  <2>1. PICK k \in 0 .. Len(handler.buffer) :
          file' = Appended(file, At(handler), SubSeq(handler.buffer, 1, k))
    BY <1>1 DEF CloseFails
  <2>2. At(handler') = At(handler) /\ handler'.buffer = <<>>
    BY <1>1, Numbers DEF CloseFails, Handlers, At
  <2> QED BY <2>1, <2>2, ClosingWeak
<1>2. CASE Restart
  <2>1. PICK k \in 0 .. Len(handler.buffer) :
          file' = Appended(file, At(handler), SubSeq(handler.buffer, 1, k))
    BY <1>2 DEF Restart
  <2>2. At(handler') = At(handler) /\ handler'.buffer = <<>>
    BY <1>2, Numbers DEF Restart, Handlers, At
  <2> QED BY <2>1, <2>2, ClosingWeak
<1>3. ASSUME NEW u \in Users, NEW s \in Sizes, OpenFails(u, s)
      PROVE  \A f \in Files : Weak(f)' => Weak(f)
  <2>1. /\ Len(events) < MaxEvents /\ MustRotate /\ file' = Settled
        /\ handler'.buffer = <<>>
    BY <1>3, Turning DEF OpenFails, Logged, Opened
  <2>2. \A f \in Files : Left(f)' = <<>> /\ file'[f] = Settled[f]
    BY <2>1 DEF Left
  <2> QED BY <2>1, <2>2, SettledWeak
<1>4. ASSUME UNCHANGED <<file, handler>>
      PROVE  \A f \in Files : Weak(f)' => Weak(f)
  BY <1>4, SameWeak
<1> QED BY <1>1, <1>2, <1>3, <1>4
        DEF Next, DiskFails, MakeFails, WriteToClosed, Midnight, vars

Countable == /\ IsFiniteSet(Unread) /\ Cardinality(Unread) \in Nat
             /\ IsFiniteSet(Weaks) /\ Cardinality(Weaks) \in Nat

LEMMA FiniteCounts == TypeOK => Countable
<1> SUFFICES ASSUME TypeOK PROVE Countable
  OBVIOUS
<1>1. /\ Unread \in SUBSET (1 .. Len(events)) /\ Len(events) \in Nat
      /\ MaxEvents \in Nat /\ MaxDay \in Nat
  BY Numbers DEF Unread
<1>2. IsFiniteSet(Unread)
  <2>1. IsFiniteSet(1 .. Len(events))
    BY <1>1, FS_Interval
  <2> QED BY <1>1, <2>1, FS_Subset
<1>3. IsFiniteSet(Weaks)
  <2>1. IsFiniteSet(1 .. MaxDay) /\ IsFiniteSet(0 .. MaxEvents)
    BY <1>1, FS_Interval
  <2>2. IsFiniteSet((1 .. MaxDay) \X (0 .. MaxEvents))
    BY <2>1, FS_Product
  <2>3. Weaks \in SUBSET ((1 .. MaxDay) \X (0 .. MaxEvents))
    BY DEF Weaks, Files, Days
  <2> QED BY <2>2, <2>3, FS_Subset
<1> QED BY <1>2, <1>3, FS_CardinalityType DEF Countable

LEMMA OneElementMore ==
  ASSUME NEW S, NEW x, IsFiniteSet(S), Cardinality(S) \in Nat
  PROVE  IsFiniteSet(S \cup {x}) /\ Cardinality(S \cup {x}) <= Cardinality(S) + 1
<1>1. /\ IsFiniteSet(S \cup {x})
      /\ Cardinality(S \cup {x}) = IF x \in S THEN Cardinality(S) ELSE Cardinality(S) + 1
  BY FS_AddElement
<1> QED BY <1>1

LEMMA FaultsGrow ==
  ASSUME TypeOK, [Next]_vars
  PROVE  faults' \in Nat /\ faults <= faults'
<1>1. faults \in Nat
  BY Numbers
<1>2. faults' = faults \/ faults' = faults + 1
  BY DEF Next, LogEvent, DiskFails, WriteFails, OpenFails, MakeFails, CloseFails,
         WriteToClosed, Restart, Midnight, vars
<1> QED BY <1>1, <1>2

LEMMA FewStep ==
  ASSUME TypeOK, FewInv, [Next]_vars
  PROVE  FewInv'
<1>1. /\ IsFiniteSet(Unread) /\ Cardinality(Unread) \in Nat
      /\ IsFiniteSet(Weaks) /\ Cardinality(Weaks) \in Nat
      /\ IsFiniteSet(Unread') /\ Cardinality(Unread') \in Nat
      /\ IsFiniteSet(Weaks') /\ Cardinality(Weaks') \in Nat
      /\ faults \in Nat
  <2>1. TypeOK'
    BY Step
  <2>2. (TypeOK => Countable)'
    BY FiniteCounts, PTL
  <2> QED BY <2>1, <2>2, FiniteCounts, Numbers DEF Countable
<1>2. Cardinality(Unread) + Cardinality(Weaks) <= faults
  BY DEF FewInv
<1>3. ASSUME NEW u \in Users, NEW s \in Sizes, LogEvent(u, s)
      PROVE  FewInv'
  <2>1. PICK n \in Nat : n = Len(events) + 1
    BY Numbers
  <2>2. PICK t \in Files : t = Target
    BY <1>3, LogEventEnds
  <2>3. Unread' \subseteq Unread \cup {n}
    BY <2>1, UnreadNew
  <2>4. Weaks' \subseteq Weaks \ {t}
    BY <1>3, <2>2, LogEventEnds DEF Weaks
  <2>5. faults' = faults
    BY <1>3 DEF LogEvent
  <2>6. CASE Weak(t)
    <3>1. t \in Weaks
      BY <2>6 DEF Weaks
    <3>2. /\ IsFiniteSet(Weaks \ {t}) /\ Cardinality(Weaks \ {t}) = Cardinality(Weaks) - 1
      BY <1>1, <3>1, FS_RemoveElement
    <3>3. /\ IsFiniteSet(Unread \cup {n})
          /\ Cardinality(Unread \cup {n}) <= Cardinality(Unread) + 1
      BY <1>1, OneElementMore
    <3>4. Cardinality(Weaks') <= Cardinality(Weaks) - 1
      BY <2>4, <3>2, FS_Subset
    <3>5. Cardinality(Unread') <= Cardinality(Unread) + 1
      <4>1. Cardinality(Unread') <= Cardinality(Unread \cup {n})
        BY <2>3, <3>3, FS_Subset
      <4>2. Cardinality(Unread \cup {n}) \in Nat
        BY <3>3, FS_CardinalityType
      <4> QED BY <1>1, <3>3, <4>1, <4>2
    <3> QED BY <1>1, <1>2, <2>5, <3>4, <3>5 DEF FewInv
  <2>7. CASE ~Weak(t)
    <3>1. Whole(n)'
      BY <1>3, <2>1, <2>2, <2>7, LogEventEnds
    <3>2. n \notin Unread'
      BY <3>1 DEF Unread
    <3>3. Unread' \subseteq Unread /\ Weaks' \subseteq Weaks
      BY <2>3, <2>4, <3>2
    <3>4. Cardinality(Unread') <= Cardinality(Unread) /\ Cardinality(Weaks') <= Cardinality(Weaks)
      BY <1>1, <3>3, FS_Subset
    <3> QED BY <1>1, <1>2, <2>5, <3>4 DEF FewInv
  <2> QED BY <2>6, <2>7
<1>4. ASSUME ~\E u \in Users, s \in Sizes : LogEvent(u, s)
      PROVE  Cardinality(Unread') <= Cardinality(Unread)
  <2>1. Unread' \subseteq Unread
    BY <1>4, UnreadNew
  <2> QED BY <1>1, <2>1, FS_Subset
<1>5. ASSUME NEW u \in Users, NEW s \in Sizes, WriteFails(u, s),
             ~\E v \in Users, r \in Sizes : LogEvent(v, r)
      PROVE  FewInv'
  <2>1. Weaks' \subseteq Weaks \cup {Target}
    BY <1>5, WriteFailsWeakens DEF Weaks
  <2>2. faults' = faults + 1
    BY <1>5 DEF WriteFails
  <2>3. /\ IsFiniteSet(Weaks \cup {Target})
        /\ Cardinality(Weaks \cup {Target}) <= Cardinality(Weaks) + 1
    BY <1>1, OneElementMore
  <2>4. Cardinality(Weaks') <= Cardinality(Weaks) + 1
    <3>1. Cardinality(Weaks') <= Cardinality(Weaks \cup {Target})
      BY <2>1, <2>3, FS_Subset
    <3>2. Cardinality(Weaks \cup {Target}) \in Nat
      BY <2>3, FS_CardinalityType
    <3> QED BY <1>1, <2>3, <3>1, <3>2
  <2> QED BY <1>1, <1>2, <1>4, <1>5, <2>2, <2>4 DEF FewInv
<1>6. ASSUME \A f \in Files : Weak(f)' => Weak(f),
             ~\E v \in Users, r \in Sizes : LogEvent(v, r)
      PROVE  FewInv'
  <2>1. Weaks' \subseteq Weaks
    BY <1>6 DEF Weaks
  <2>2. Cardinality(Weaks') <= Cardinality(Weaks)
    BY <1>1, <2>1, FS_Subset
  <2>3. faults' \in Nat /\ faults <= faults'
    BY FaultsGrow
  <2> QED BY <1>1, <1>2, <1>4, <1>6, <2>2, <2>3 DEF FewInv
<1> QED BY <1>3, <1>5, <1>6, OthersWeaken

\* FewUnreadable: the disk must fail once for every entry that was reported as
\* written and can not be read.
THEOREM FewAreUnreadable == Spec => []FewUnreadable
<1>1. Init => FewInv
  <2> SUFFICES ASSUME Init PROVE FewInv
    OBVIOUS
  <2>1. \A f \in Files : Left(f) = <<>> /\ file[f] = <<>>
    BY DEF Init, Left
  <2>2. Len(<<>>) = 0 /\ DOMAIN <<>> = {}
    OBVIOUS
  <2>3. Weaks = {} /\ Unread = {}
    BY <2>1, <2>2 DEF Weaks, Weak, Ends, Unread, Init
  <2>4. Cardinality({}) = 0
    BY FS_EmptySet
  <2> QED BY <2>3, <2>4 DEF FewInv, Init
<1>2. TypeOK /\ FewInv /\ [Next]_vars => FewInv'
  BY FewStep
<1>3. TypeOK /\ FewInv => FewUnreadable
  <2> SUFFICES ASSUME TypeOK, FewInv PROVE FewUnreadable
    OBVIOUS
  <2> DEFINE lost == {i \in DOMAIN events : events[i].ok /\ ~Readable(i)}
  <2>1. lost \in SUBSET Unread
    BY DEF Unread, Whole, Readable, ReadsAt
  <2> HIDE DEF lost
  <2>2. /\ Cardinality(lost) <= Cardinality(Unread)
        /\ Cardinality(lost) \in Nat
    BY <2>1, FiniteCounts, FS_Subset, FS_CardinalityType DEF Countable
  <2>3. Cardinality(lost) <= faults
    BY <2>2, FiniteCounts, Numbers DEF FewInv, Countable
  <2> QED BY <2>3 DEF FewUnreadable, lost
<1> QED BY <1>1, <1>2, <1>3, TypeCorrect, PTL DEF Spec

=============================================================================
