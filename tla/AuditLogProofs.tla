--------------------------- MODULE AuditLogProofs ---------------------------
(***************************************************************************)
(* TypeOK, NothingLost and SizeBounded for every number of users, files,   *)
(* days, restarts and failures of the disk.                                *)
(*                                                                         *)
(* NothingLost rests on one fact: a step only ever extends the files.      *)
(* SizeBounded is not inductive: SizeInv adds that the files the handler   *)
(* has yet to come to have room for one line more, and that the bytes in   *)
(* its buffer are counted.                                                 *)
(***************************************************************************)
EXTENDS AuditLog, SequenceTheorems, TLAPS

Extends(g, h) ==
  \A f \in Files : /\ Len(g[f]) <= Len(h[f])
                   /\ \A q \in 1 .. Len(g[f]) : h[f][q] = g[f][q]

LEMMA AppendedShape ==
  ASSUME NEW S, NEW g \in [Files -> Seq(S)], NEW f \in Files, NEW b \in Seq(S)
  PROVE  /\ Appended(g, f, b) \in [Files -> Seq(S)]
         /\ Appended(g, f, b)[f] = g[f] \o b
         /\ Len(Appended(g, f, b)[f]) = Len(g[f]) + Len(b)
         /\ \A e \in Files : e # f => Appended(g, f, b)[e] = g[e]
         /\ Extends(g, Appended(g, f, b))
<1>1. g[f] \in Seq(S) /\ Len(g[f]) \in Nat /\ Len(b) \in Nat
  BY LenProperties
<1>2. /\ g[f] \o b \in Seq(S)
      /\ Len(g[f] \o b) = Len(g[f]) + Len(b)
      /\ \A i \in 1 .. Len(g[f]) + Len(b) :
           (g[f] \o b)[i] = IF i <= Len(g[f]) THEN g[f][i] ELSE b[i - Len(g[f])]
  BY <1>1, ConcatProperties
<1>3. /\ Appended(g, f, b) \in [Files -> Seq(S)]
      /\ Appended(g, f, b)[f] = g[f] \o b
      /\ \A e \in Files : e # f => Appended(g, f, b)[e] = g[e]
  BY <1>2 DEF Appended
<1>4. Extends(g, Appended(g, f, b))
  <2> SUFFICES ASSUME NEW e \in Files
               PROVE  /\ Len(g[e]) <= Len(Appended(g, f, b)[e])
                      /\ \A q \in 1 .. Len(g[e]) : Appended(g, f, b)[e][q] = g[e][q]
    BY DEF Extends
  <2>1. CASE e = f
    <3>1. \A q \in 1 .. Len(g[f]) : (g[f] \o b)[q] = g[f][q]
      BY <1>1, <1>2
    <3> QED BY <2>1, <3>1, <1>1, <1>2, <1>3
  <2>2. CASE e # f
    <3>1. Len(g[e]) \in Nat
      BY LenProperties
    <3> QED BY <2>2, <3>1, <1>3
  <2> QED BY <2>1, <2>2
<1> QED BY <1>2, <1>3, <1>4

LEMMA ExtendsTransitive ==
  ASSUME NEW S, NEW g \in [Files -> Seq(S)], NEW h \in [Files -> Seq(S)],
         NEW k \in [Files -> Seq(S)], Extends(g, h), Extends(h, k)
  PROVE  Extends(g, k)
<1> SUFFICES ASSUME NEW f \in Files
             PROVE  /\ Len(g[f]) <= Len(k[f])
                    /\ \A q \in 1 .. Len(g[f]) : k[f][q] = g[f][q]
  BY DEF Extends
<1>1. Len(g[f]) \in Nat /\ Len(h[f]) \in Nat /\ Len(k[f]) \in Nat
  BY LenProperties
<1> QED BY <1>1 DEF Extends

LEMMA ExtendsReflexive ==
  ASSUME NEW S, NEW g \in [Files -> Seq(S)]
  PROVE  Extends(g, g)
<1>1. \A f \in Files : Len(g[f]) \in Nat
  BY LenProperties
<1> QED BY <1>1 DEF Extends

\* The two parts of a sequence cut after k elements.
LEMMA Cut ==
  ASSUME NEW S, NEW s \in Seq(S), NEW k \in 0 .. Len(s)
  PROVE  /\ SubSeq(s, 1, k) \in Seq(S)
         /\ Len(SubSeq(s, 1, k)) = k
         /\ SubSeq(s, k + 1, Len(s)) \in Seq(S)
         /\ Len(SubSeq(s, k + 1, Len(s))) = Len(s) - k
<1>1. Len(s) \in Nat /\ k \in Nat
  BY LenProperties
<1>2. \A i \in 1 .. Len(s) : s[i] \in S
  BY ElementOfSeq
<1>3. /\ SubSeq(s, 1, k) \in Seq(S)
      /\ Len(SubSeq(s, 1, k)) = IF 1 <= k THEN k - 1 + 1 ELSE 0
  <2>1. \A i \in 1 .. k : s[i] \in S
    BY <1>1, <1>2
  <2> QED BY <2>1, <1>1, SubSeqProperties
<1>4. /\ SubSeq(s, k + 1, Len(s)) \in Seq(S)
      /\ Len(SubSeq(s, k + 1, Len(s)))
           = IF k + 1 <= Len(s) THEN Len(s) - (k + 1) + 1 ELSE 0
  <2>1. \A i \in (k + 1) .. Len(s) : s[i] \in S
    BY <1>1, <1>2
  <2>2. k + 1 \in Int /\ Len(s) \in Int
    BY <1>1
  <2> QED BY <2>1, <2>2, SubSeqProperties
<1> QED BY <1>1, <1>3, <1>4

-----------------------------------------------------------------------------
(***************************************************************************)
(* What the handler of an event is, before and after it has turned to the  *)
(* file it writes.                                                         *)
(***************************************************************************)
HandlersTo(n) == [day : 1 .. today, no : 0 .. n, size : Nat,
                  buffer : Seq(Bytes), closed : BOOLEAN]

LEMMA OpenedType ==
  ASSUME TypeOK, NEW n \in Nat, NEW f \in (1 .. today) \X (0 .. n), f \in Files
  PROVE  /\ Opened(f) \in HandlersTo(n)
         /\ At(Opened(f)) = f
         /\ Opened(f).buffer = <<>> /\ ~Opened(f).closed
         /\ Opened(f).size = Len(file[f])
         /\ Opened(f).day = f[1] /\ Opened(f).no = f[2]
<1>1. Len(file[f]) \in Nat
  BY LenProperties DEF TypeOK
<1>2. <<>> \in Seq(Bytes)
  OBVIOUS
<1> QED BY <1>1, <1>2 DEF Opened, At, HandlersTo

LEMMA Numbers ==
  ASSUME TypeOK
  PROVE  /\ Len(events) \in Nat /\ DOMAIN events = 1 .. Len(events)
         /\ today \in Nat /\ 1 <= today /\ today <= MaxDay /\ MaxDay \in Nat
         /\ restarts \in Nat /\ faults \in Nat
         /\ MaxEvents \in Nat /\ MaxLine \in Nat /\ MaxBytes \in Nat
         /\ \A f \in Files : file[f] \in Seq(Bytes) /\ Len(file[f]) \in Nat
         /\ handler \in Handlers /\ Len(handler.buffer) \in Nat
         /\ Len(events) <= MaxEvents /\ open \in BOOLEAN
         /\ ~open \/ handler.closed => handler.buffer = <<>>
<1>1. /\ events \in Seq([user : Users, size : Sizes, ok : BOOLEAN])
      /\ \A f \in Files : file[f] \in Seq(Bytes)
      /\ handler.buffer \in Seq(Bytes)
  BY DEF TypeOK, Handlers
<1>2. Len(events) \in Nat /\ DOMAIN events = 1 .. Len(events)
  BY <1>1, LenProperties
<1>3. \A f \in Files : Len(file[f]) \in Nat
  BY <1>1, LenProperties
<1>4. Len(handler.buffer) \in Nat
  BY <1>1, LenProperties
<1> QED BY <1>1, <1>2, <1>3, <1>4, SizeAssumption, BoundAssumption DEF TypeOK, Days

LEMMA Holding ==
  ASSUME TypeOK
  PROVE  /\ Held \in HandlersTo(Len(events))
         /\ At(Held) \in Files
         /\ ~open \/ Held.closed => Held.buffer = <<>>
         /\ ~open => ~Held.closed /\ Held.size = Len(file[At(Held)])
         /\ open => Held = handler
<1>1. CASE open
  <2>1. Held = handler
    BY <1>1 DEF Held
  <2>2. handler.day \in 1 .. MaxDay /\ handler.no \in 0 .. MaxEvents
    BY Numbers DEF Handlers
  <2> QED BY <1>1, <2>1, <2>2, Numbers DEF Handlers, HandlersTo, At, Files, Days
<1>2. CASE ~open
  <2>1. <<today, 0>> \in (1 .. today) \X (0 .. Len(events)) /\ <<today, 0>> \in Files
    BY Numbers DEF Files, Days
  <2> QED BY <1>2, <2>1, OpenedType, Numbers DEF Held
<1> QED BY <1>1, <1>2

LEMMA Turning ==
  ASSUME TypeOK, Len(events) < MaxEvents
  PROVE  /\ Target \in Files
         /\ MustRotate => Target # At(Held)
         /\ MustRotate => Current = Opened(Target) /\ Current.buffer = <<>>
                          /\ ~Current.closed /\ Current.size = Len(file[Target])
         /\ Current \in HandlersTo(Len(events) + 1)
         /\ Opened(Target) \in HandlersTo(Len(events) + 1) \/ ~MustRotate
         /\ At(Current) = Target
         /\ ~MustRotate => Current = Held /\ Held.size < MaxBytes
         /\ Settled \in [Files -> Seq(Bytes)]
         /\ Extends(file, Settled)
         /\ Settled[Target] = file[Target]
<1>1. /\ Held \in HandlersTo(Len(events)) /\ At(Held) \in Files
      /\ Len(events) \in Nat /\ today \in Nat /\ 1 <= today /\ today <= MaxDay
      /\ MaxEvents \in Nat /\ MaxBytes \in Nat
  BY Holding, Numbers
<1>2. CASE MustRotate
  <2>1. /\ Target \in (1 .. today) \X (0 .. Len(events) + 1)
        /\ Target \in Files
        /\ Target # At(Held)
    <3>1. CASE Held.day # today
      BY <1>1, <3>1 DEF Target, At, Files, Days, HandlersTo
    <3>2. CASE Held.day = today
      <4>1. Full
        BY <1>2, <3>2 DEF MustRotate
      <4> QED BY <1>1, <3>2, <4>1 DEF Target, At, Files, Days, HandlersTo
    <3> QED BY <3>1, <3>2
  <2>2. Current = Opened(Target)
    BY <1>2 DEF Current
  <2>3. /\ Opened(Target) \in HandlersTo(Len(events) + 1)
        /\ At(Opened(Target)) = Target
        /\ Opened(Target).buffer = <<>> /\ ~Opened(Target).closed
        /\ Opened(Target).size = Len(file[Target])
    <3>1. Len(events) + 1 \in Nat
      BY <1>1
    <3> HIDE DEF Target
    <3> QED BY <2>1, <3>1, OpenedType
  <2>4. Settled = Appended(file, At(Held), Held.buffer)
    BY <1>2 DEF Settled
  <2>5. Held.buffer \in Seq(Bytes) /\ file \in [Files -> Seq(Bytes)]
    BY <1>1 DEF HandlersTo, TypeOK
  <2>6. /\ Settled \in [Files -> Seq(Bytes)]
        /\ Extends(file, Settled)
        /\ Settled[Target] = file[Target]
    <3> DEFINE f == At(Held)  b == Held.buffer
    <3>2. f \in Files /\ b \in Seq(Bytes)
      BY <1>1, <2>5
    <3> HIDE DEF f, b
    <3>1. /\ Appended(file, f, b) \in [Files -> Seq(Bytes)]
          /\ \A e \in Files : e # f => Appended(file, f, b)[e] = file[e]
          /\ Extends(file, Appended(file, f, b))
      BY <3>2, <2>5, AppendedShape, SMTT(30)
    <3>3. Settled = Appended(file, f, b)
      BY <2>4 DEF f, b
    <3>4. Target \in Files /\ Target # f
      BY <2>1 DEF f
    <3> HIDE DEF Target, Settled
    <3> QED BY <3>1, <3>3, <3>4
  <2> QED BY <1>2, <2>1, <2>2, <2>3, <2>6
<1>3. CASE ~MustRotate
  <2>1. Target = At(Held) /\ Current = Held /\ Settled = file /\ Held.size < MaxBytes
    BY <1>1, <1>3 DEF Target, Current, Settled, MustRotate, Full, HandlersTo
  <2>2. Held \in HandlersTo(Len(events) + 1)
    BY <1>1 DEF HandlersTo
  <2>3. Extends(file, file) /\ file \in [Files -> Seq(Bytes)]
    BY ExtendsReflexive DEF TypeOK
  <2> QED BY <1>1, <1>3, <2>1, <2>2, <2>3
<1> QED BY <1>2, <1>3

-----------------------------------------------------------------------------
(***************************************************************************)
(* What every event does: it adds an entry, and its bytes are bytes of an  *)
(* event that is there afterwards.                                         *)
(***************************************************************************)
Event == [user : Users, size : Sizes, ok : BOOLEAN]

LEMMA LineShape ==
  ASSUME NEW n \in Nat, NEW i \in 1 .. n, NEW s \in Sizes
  PROVE  /\ Line(i, s) \in Seq((1 .. n) \X (1 .. MaxLine))
         /\ Len(Line(i, s)) = s
         /\ \A k \in 1 .. s : Line(i, s)[k] = <<i, k>>
<1>1. s \in Nat /\ MaxLine \in Nat
  BY SizeAssumption DEF Sizes
<1>2. \A k \in 1 .. s : <<i, k>> \in (1 .. n) \X (1 .. MaxLine)
  BY <1>1 DEF Sizes
<1>3. Line(i, s) \in [1 .. s -> (1 .. n) \X (1 .. MaxLine)]
  BY <1>2 DEF Line
<1> QED BY <1>1, <1>3 DEF Line

LEMMA Logging ==
  ASSUME TypeOK, NEW u \in Users, NEW s \in Sizes, NEW b \in BOOLEAN, Logged(u, s, b)
  PROVE  /\ events' \in Seq(Event) /\ Len(events') = Len(events) + 1
         /\ Len(events') <= MaxEvents /\ DOMAIN events' = 1 .. Len(events) + 1
         /\ \A i \in 1 .. Len(events) : events'[i] = events[i]
         /\ events'[Len(events) + 1] = [user |-> u, size |-> s, ok |-> b]
         /\ Bytes' = (1 .. Len(events) + 1) \X (1 .. MaxLine)
         /\ Seq(Bytes) \subseteq Seq(Bytes')
         /\ \A g \in [Files -> Seq(Bytes)] : g \in [Files -> Seq(Bytes')]
         /\ s \in Nat /\ 1 <= s /\ s <= MaxLine
         /\ Queue(s) \in Seq(Bytes')
         /\ Len(Queue(s)) = Len(Current.buffer) + s
         /\ \A k \in 1 .. s : Queue(s)[Len(Current.buffer) + k] = <<Len(events) + 1, k>>
<1>1. /\ Len(events) \in Nat /\ DOMAIN events = 1 .. Len(events)
      /\ Len(events) < MaxEvents /\ MaxEvents \in Nat /\ MaxLine \in Nat
  BY Numbers DEF Logged
<1>2. /\ events' \in Seq(Event) /\ Len(events') = Len(events) + 1
      /\ \A i \in 1 .. Len(events) : events'[i] = events[i]
      /\ events'[Len(events) + 1] = [user |-> u, size |-> s, ok |-> b]
  <2>1. events \in Seq(Event) /\ [user |-> u, size |-> s, ok |-> b] \in Event
    BY DEF TypeOK, Event
  <2> DEFINE e == [user |-> u, size |-> s, ok |-> b]
  <2>2. events' = Append(events, e)
    BY DEF Logged
  <2>3. e \in Event
    BY <2>1
  <2> HIDE DEF e
  <2>4. /\ Append(events, e) \in Seq(Event) /\ Len(Append(events, e)) = Len(events) + 1
        /\ \A i \in 1 .. Len(events) : Append(events, e)[i] = events[i]
        /\ Append(events, e)[Len(events) + 1] = e
    BY <2>1, <2>3, AppendProperties
  <2> QED BY <2>2, <2>4 DEF e
<1>3. DOMAIN events' = 1 .. Len(events) + 1
  BY <1>2, LenProperties
<1>4. Bytes' = (1 .. Len(events) + 1) \X (1 .. MaxLine) /\ Bytes = (1 .. Len(events)) \X (1 .. MaxLine)
  BY <1>1, <1>3 DEF Bytes
<1>5. Seq(Bytes) \subseteq Seq(Bytes')
  <2>1. Bytes \subseteq Bytes'
    BY <1>1, <1>4
  <2> QED BY <2>1, SeqMonotonic
<1>6. s \in Nat /\ 1 <= s /\ s <= MaxLine
  BY <1>1 DEF Sizes
<1>7. Current.buffer \in Seq(Bytes') /\ Len(Current.buffer) \in Nat
  <2>1. Current.buffer \in Seq(Bytes)
    BY <1>1, Turning DEF HandlersTo
  <2> QED BY <2>1, <1>5, LenProperties
<1>8. /\ Line(Len(events) + 1, s) \in Seq(Bytes')
      /\ Len(Line(Len(events) + 1, s)) = s
      /\ \A k \in 1 .. s : Line(Len(events) + 1, s)[k] = <<Len(events) + 1, k>>
  <2> DEFINE n == Len(events) + 1
  <2>1. n \in Nat /\ n \in 1 .. n /\ Bytes' = (1 .. n) \X (1 .. MaxLine)
    BY <1>1, <1>4
  <2> HIDE DEF n
  <2>2. /\ Line(n, s) \in Seq(Bytes')
        /\ Len(Line(n, s)) = s
        /\ \A k \in 1 .. s : Line(n, s)[k] = <<n, k>>
    BY <2>1, LineShape
  <2> QED BY <2>2 DEF n
<1>9. /\ Queue(s) \in Seq(Bytes')
      /\ Len(Queue(s)) = Len(Current.buffer) + s
      /\ \A k \in 1 .. s : Queue(s)[Len(Current.buffer) + k] = <<Len(events) + 1, k>>
  <2> DEFINE c == Current.buffer  l == Line(Len(events) + 1, s)
  <2>1. c \in Seq(Bytes') /\ l \in Seq(Bytes') /\ Len(c) \in Nat /\ Len(l) = s
        /\ \A k \in 1 .. s : l[k] = <<Len(events) + 1, k>>
    BY <1>7, <1>8
  <2>2. Queue(s) = c \o l
    BY DEF Queue
  <2> HIDE DEF c, l
  <2>3. /\ c \o l \in Seq(Bytes')
        /\ Len(c \o l) = Len(c) + s
        /\ \A i \in 1 .. Len(c) + s :
             (c \o l)[i] = IF i <= Len(c) THEN c[i] ELSE l[i - Len(c)]
    BY <2>1, ConcatProperties
  <2>4. \A k \in 1 .. s : (c \o l)[Len(c) + k] = <<Len(events) + 1, k>>
    <3> TAKE k \in 1 .. s
    <3>1. Len(c) + k \in 1 .. Len(c) + s /\ ~(Len(c) + k <= Len(c)) /\ (Len(c) + k) - Len(c) = k
      BY <1>6, <2>1
    <3> QED BY <2>1, <2>3, <3>1
  <2> QED BY <2>2, <2>3, <2>4 DEF c
<1>10. \A g \in [Files -> Seq(Bytes)] : g \in [Files -> Seq(Bytes')]
  BY <1>5
<1>11. Len(events') <= MaxEvents
  BY <1>1, <1>2
<1> QED BY <1>2, <1>3, <1>4, <1>5, <1>6, <1>9, <1>10, <1>11

\* The files after a step that settles the old file and writes q to the new.
LEMMA Written ==
  ASSUME TypeOK, NEW u \in Users, NEW s \in Sizes, NEW b \in BOOLEAN, Logged(u, s, b),
         NEW q \in Seq(Bytes'), file' = Appended(Settled, Target, q)
  PROVE  /\ file' \in [Files -> Seq(Bytes')]
         /\ Extends(file, file')
         /\ file'[Target] = file[Target] \o q
         /\ Len(file'[Target]) = Len(file[Target]) + Len(q)
         /\ \A e \in Files : e # Target => file'[e] = Settled[e]
<1>1. /\ Settled \in [Files -> Seq(Bytes')] /\ file \in [Files -> Seq(Bytes')]
      /\ Target \in Files /\ Extends(file, Settled) /\ Settled[Target] = file[Target]
  BY Turning, Logging DEF Logged, TypeOK
<1> DEFINE t == Target  g == Settled
<1>2. g \in [Files -> Seq(Bytes')] /\ t \in Files
  BY <1>1
<1>3. file' = Appended(g, t, q) /\ Extends(file, g) /\ g[t] = file[t]
  BY <1>1
<1> HIDE DEF t, g
<1>4. /\ Appended(g, t, q) \in [Files -> Seq(Bytes')]
      /\ Appended(g, t, q)[t] = g[t] \o q
      /\ Len(Appended(g, t, q)[t]) = Len(g[t]) + Len(q)
      /\ \A e \in Files : e # t => Appended(g, t, q)[e] = g[e]
      /\ Extends(g, Appended(g, t, q))
  BY <1>2, AppendedShape
<1>5. Extends(file, file')
  BY <1>1, <1>2, <1>3, <1>4, ExtendsTransitive
<1> QED BY <1>3, <1>4, <1>5 DEF t, g

\* What the handler counts in the file it is about to write.
LEMMA Counted ==
  ASSUME TypeOK, Len(events) < MaxEvents, MustRotate \/ ~Held.closed
  PROVE  /\ Len(file[Target]) \in Nat /\ Len(Current.buffer) \in Nat /\ Current.size \in Nat
         /\ ~Current.closed
         /\ Current.size <= Len(file[Target]) + Len(Current.buffer)
         /\ Len(file[Target]) + Len(Current.buffer) <= Current.size + MaxLine * faults
<1> DEFINE slack == MaxLine * faults
<1>1. slack \in Nat
  BY Numbers
<1>2. Len(file[Target]) \in Nat /\ Current.size \in Nat /\ Current.buffer \in Seq(Bytes)
  BY Numbers, Turning DEF HandlersTo
<1>3. Len(Current.buffer) \in Nat
  BY <1>2, LenProperties
<1>4. open /\ ~handler.closed =>
        /\ handler.size <= Len(file[At(handler)]) + Len(handler.buffer)
        /\ Len(file[At(handler)]) + Len(handler.buffer) <= handler.size + slack
  BY DEF TypeOK
<1> HIDE DEF slack
<1>5. Len(<<>>) = 0
  OBVIOUS
<1>6. /\ ~Current.closed
      /\ Current.size <= Len(file[Target]) + Len(Current.buffer)
      /\ Len(file[Target]) + Len(Current.buffer) <= Current.size + slack
  <2>1. CASE MustRotate
    <3>1. /\ Current.buffer = <<>> /\ ~Current.closed
          /\ Current.size = Len(file[Target])
      BY <2>1, Turning
    <3>2. Len(Current.buffer) = 0
      BY <3>1, <1>5
    <3> QED BY <1>1, <1>2, <3>1, <3>2
  <2>2. CASE ~MustRotate
    <3>1. Current = Held /\ At(Held) = Target /\ ~Held.closed
      BY <2>2, Turning
    <3>2. CASE open
      BY <1>1, <1>2, <1>3, <1>4, <3>1, <3>2, Holding
    <3>3. CASE ~open
      <4>1. Held.buffer = <<>> /\ ~Held.closed /\ Held.size = Len(file[At(Held)])
        BY <3>3, Holding
      <4>2. Len(Current.buffer) = 0
        BY <4>1, <3>1, <1>5
      <4> QED BY <1>1, <1>2, <3>1, <4>1, <4>2
    <3> QED BY <3>2, <3>3
  <2> QED BY <2>1, <2>2
<1> QED BY <1>2, <1>3, <1>6 DEF slack

-----------------------------------------------------------------------------
(***************************************************************************)
(* Every step preserves the types and only extends the files.              *)
(***************************************************************************)
LEMMA OneMore ==
  ASSUME NEW f \in Nat
  PROVE  MaxLine * f \in Nat /\ MaxLine * (f + 1) = MaxLine * f + MaxLine
BY SizeAssumption

LEMMA TypedAfterEvent ==
  ASSUME TypeOK, NEW u \in Users, NEW s \in Sizes, NEW b \in BOOLEAN, Logged(u, s, b),
         file' \in [Files -> Seq(Bytes')], open' \in BOOLEAN, faults' \in 0 .. MaxFaults,
         handler'.day \in 1 .. today, handler'.no \in 0 .. Len(events) + 1,
         handler'.size \in Nat, handler'.buffer \in Seq(Bytes'),
         handler'.closed \in BOOLEAN,
         handler' = [day |-> handler'.day, no |-> handler'.no, size |-> handler'.size,
                     buffer |-> handler'.buffer, closed |-> handler'.closed],
         ~open' \/ handler'.closed => handler'.buffer = <<>>,
         open' /\ ~handler'.closed =>
           /\ handler'.size <= Len(file'[At(handler')]) + Len(handler'.buffer)
           /\ Len(file'[At(handler')]) + Len(handler'.buffer)
                <= handler'.size + MaxLine * faults'
  PROVE  TypeOK'
<1>1. today' = today /\ restarts' = restarts /\ Len(events') = Len(events) + 1
  BY Logging DEF Logged
<1>2. handler' \in Handlers'
  BY <1>1 DEF Handlers
<1>3. events' \in Seq([user : Users, size : Sizes, ok : BOOLEAN]) /\ Len(events') <= MaxEvents
  BY Logging DEF Event
<1>4. today \in Days /\ restarts \in 0 .. MaxRestarts
  BY DEF TypeOK
<1>5. (open /\ ~handler.closed =>
         LET written == Len(file[At(handler)]) + Len(handler.buffer)
         IN  handler.size <= written /\ written <= handler.size + MaxLine * faults)'
  BY DEF At
<1> QED BY <1>1, <1>2, <1>3, <1>4, <1>5 DEF TypeOK

LEMMA LogEventStep ==
  ASSUME TypeOK, NEW u \in Users, NEW s \in Sizes, LogEvent(u, s)
  PROVE  TypeOK' /\ Extends(file, file')
<1>1. /\ Logged(u, s, TRUE) /\ file' = Appended(Settled, Target, Queue(s)) /\ open' = TRUE
      /\ handler' = [Current EXCEPT !.size = @ + s, !.buffer = <<>>] /\ faults' = faults
      /\ (MustRotate \/ ~Held.closed) /\ Len(events) < MaxEvents
  BY DEF LogEvent, Logged
<1>2. Len(events) < MaxEvents
  BY <1>1 DEF Logged
<1>3. /\ Queue(s) \in Seq(Bytes') /\ Len(Queue(s)) = Len(Current.buffer) + s
      /\ s \in Nat
  BY <1>1, Logging
<1>4. /\ file' \in [Files -> Seq(Bytes')] /\ Extends(file, file')
      /\ Len(file'[Target]) = Len(file[Target]) + Len(Queue(s))
  BY <1>1, <1>3, Written
<1>5. Current \in HandlersTo(Len(events) + 1) /\ At(Current) = Target
  BY <1>2, Turning
<1>6. /\ handler'.day = Current.day /\ handler'.no = Current.no
      /\ handler'.size = Current.size + s /\ handler'.buffer = <<>>
      /\ handler'.closed = Current.closed
      /\ handler' = [day |-> handler'.day, no |-> handler'.no, size |-> handler'.size,
                     buffer |-> handler'.buffer, closed |-> handler'.closed]
      /\ At(handler') = Target
  BY <1>1, <1>5 DEF HandlersTo, At
<1>7. /\ Len(file[Target]) \in Nat /\ Len(Current.buffer) \in Nat /\ Current.size \in Nat
      /\ ~Current.closed
      /\ Current.size <= Len(file[Target]) + Len(Current.buffer)
      /\ Len(file[Target]) + Len(Current.buffer) <= Current.size + MaxLine * faults
  BY <1>1, <1>2, Counted
<1>8. <<>> \in Seq(Bytes') /\ Len(<<>>) = 0
  OBVIOUS
<1>9. /\ handler'.size <= Len(file'[Target]) + Len(handler'.buffer)
      /\ Len(file'[Target]) + Len(handler'.buffer) <= handler'.size + MaxLine * faults
  <2> DEFINE slack == MaxLine * faults
  <2>1. slack \in Nat
    BY Numbers, OneMore
  <2>2. /\ Len(file[Target]) \in Nat /\ Len(Current.buffer) \in Nat /\ Current.size \in Nat
        /\ Current.size <= Len(file[Target]) + Len(Current.buffer)
        /\ Len(file[Target]) + Len(Current.buffer) <= Current.size + slack
    BY <1>7
  <2>3. Len(handler'.buffer) = 0
    BY <1>6, <1>8
  <2>5. handler'.size = Current.size + s /\ s \in Nat
    BY <1>3, <1>6
  <2>6. Len(file'[Target]) = Len(file[Target]) + (Len(Current.buffer) + s)
    BY <1>3, <1>4
  <2> DEFINE a == Len(file[Target])  c == Len(Current.buffer)  z == Current.size
             h == handler'.size  l == Len(file'[Target])  e == Len(handler'.buffer)
  <2>7. /\ a \in Nat /\ c \in Nat /\ z \in Nat /\ z <= a + c /\ a + c <= z + slack
        /\ h = z + s /\ l = a + (c + s) /\ e = 0 /\ slack \in Nat /\ s \in Nat
    BY <2>1, <2>2, <2>3, <2>5, <2>6
  <2> HIDE DEF a, c, z, h, l, e
  <2>8. h <= l + e /\ l + e <= h + slack
    BY <2>7
  <2> HIDE DEF slack
  <2>4. /\ handler'.size <= Len(file'[Target]) + Len(handler'.buffer)
        /\ Len(file'[Target]) + Len(handler'.buffer) <= handler'.size + slack
    BY <2>8 DEF h, l, e
  <2> QED BY <2>4 DEF slack
<1>10. /\ handler'.day \in 1 .. today /\ handler'.no \in 0 .. Len(events) + 1
       /\ handler'.size \in Nat /\ handler'.buffer \in Seq(Bytes')
       /\ handler'.closed \in BOOLEAN
  BY <1>3, <1>5, <1>6, <1>8 DEF HandlersTo
<1>11. faults \in 0 .. MaxFaults
  BY DEF TypeOK
<1>12. TypeOK'
  BY <1>1, <1>4, <1>6, <1>8, <1>9, <1>10, <1>11, TypedAfterEvent
<1> QED BY <1>4, <1>12

LEMMA WriteFailsStep ==
  ASSUME TypeOK, faults < MaxFaults, NEW u \in Users, NEW s \in Sizes, WriteFails(u, s)
  PROVE  TypeOK' /\ Extends(file, file')
<1>1. Logged(u, s, FALSE) /\ open' = TRUE /\ faults' = faults + 1
      /\ (MustRotate \/ ~Held.closed)
  BY DEF WriteFails
<1>2. Len(events) < MaxEvents
  BY <1>1 DEF Logged
<1> DEFINE Q == Queue(s)
<1>3. Q \in Seq(Bytes') /\ Len(Q) = Len(Current.buffer) + s /\ s \in Nat /\ s <= MaxLine
  BY <1>1, Logging
<1>4. PICK k \in 0 .. Len(Q) - 1 :
        /\ file' = Appended(Settled, Target, SubSeq(Q, 1, k))
        /\ handler' = [Current EXCEPT !.buffer = SubSeq(Q, k + 1, Len(Q))]
  BY DEF WriteFails
<1> DEFINE done == SubSeq(Q, 1, k)  rest == SubSeq(Q, k + 1, Len(Q))
<1>5. /\ done \in Seq(Bytes') /\ Len(done) = k
      /\ rest \in Seq(Bytes') /\ Len(rest) = Len(Q) - k
      /\ k \in Nat /\ k <= Len(Q) /\ Len(Q) \in Nat
  <2> HIDE DEF Q
  <2>1. Len(Q) \in Nat /\ k \in 0 .. Len(Q)
    BY <1>3, LenProperties
  <2> QED BY <1>3, <2>1, Cut
<1> HIDE DEF Q, done, rest
<1>6. /\ file' \in [Files -> Seq(Bytes')] /\ Extends(file, file')
      /\ Len(file'[Target]) = Len(file[Target]) + k
  <2>1. file' = Appended(Settled, Target, done)
    BY <1>4 DEF done
  <2> QED BY <1>1, <1>5, <2>1, Written
<1>7. Current \in HandlersTo(Len(events) + 1) /\ At(Current) = Target
  BY <1>2, Turning
<1>8. /\ handler'.day = Current.day /\ handler'.no = Current.no
      /\ handler'.size = Current.size /\ handler'.buffer = rest
      /\ handler'.closed = Current.closed
      /\ handler' = [day |-> handler'.day, no |-> handler'.no, size |-> handler'.size,
                     buffer |-> handler'.buffer, closed |-> handler'.closed]
      /\ At(handler') = Target
  BY <1>4, <1>7 DEF HandlersTo, At, rest
<1>9. /\ ~Current.closed
      /\ handler'.size <= Len(file'[Target]) + Len(handler'.buffer)
      /\ Len(file'[Target]) + Len(handler'.buffer) <= handler'.size + MaxLine * faults'
  <2> DEFINE a == Len(file[Target])  c == Len(Current.buffer)  z == Current.size
             slack == MaxLine * faults  more == MaxLine * (faults + 1)
             h == handler'.size  l == Len(file'[Target])  e == Len(handler'.buffer)
  <2>1. /\ a \in Nat /\ c \in Nat /\ z \in Nat /\ ~Current.closed
        /\ z <= a + c /\ a + c <= z + slack
    BY <1>1, <1>2, Counted
  <2>2. slack \in Nat /\ more = slack + MaxLine /\ MaxLine \in Nat
    BY Numbers, OneMore
  <2>3. h = z /\ l = a + k /\ e = (c + s) - k /\ k <= c + s
    BY <1>3, <1>5, <1>6, <1>8
  <2>4. faults' = faults + 1
    BY <1>1
  <2> HIDE DEF a, c, z, slack, more, h, l, e
  <2>5. h <= l + e /\ l + e <= h + more
    BY <2>1, <2>2, <2>3, <1>3, <1>5
  <2> QED BY <2>1, <2>4, <2>5 DEF h, l, e, more
<1>10. /\ handler'.day \in 1 .. today /\ handler'.no \in 0 .. Len(events) + 1
       /\ handler'.size \in Nat /\ handler'.buffer \in Seq(Bytes')
       /\ handler'.closed \in BOOLEAN
  BY <1>5, <1>7, <1>8 DEF HandlersTo
<1>11. faults' \in 0 .. MaxFaults
  BY <1>1, Numbers, BoundAssumption
<1>12. TypeOK'
  BY <1>1, <1>6, <1>8, <1>9, <1>10, <1>11, TypedAfterEvent
<1> QED BY <1>6, <1>12

LEMMA OpenFailsStep ==
  ASSUME TypeOK, faults < MaxFaults, NEW u \in Users, NEW s \in Sizes, OpenFails(u, s)
  PROVE  TypeOK' /\ Extends(file, file')
<1>1. Logged(u, s, FALSE) /\ open' = TRUE /\ faults' = faults + 1 /\ MustRotate
      /\ file' = Settled /\ handler' = [Opened(Target) EXCEPT !.size = 0, !.closed = TRUE]
  BY DEF OpenFails
<1>2. Len(events) < MaxEvents
  BY <1>1 DEF Logged
<1>3. file' \in [Files -> Seq(Bytes')] /\ Extends(file, file')
  BY <1>1, <1>2, Turning, Logging
<1>4. Opened(Target) \in HandlersTo(Len(events) + 1) /\ Opened(Target).buffer = <<>>
  BY <1>1, <1>2, Turning
<1>5. /\ handler'.day \in 1 .. today /\ handler'.no \in 0 .. Len(events) + 1
      /\ handler'.size \in Nat /\ handler'.buffer = <<>> /\ handler'.closed = TRUE
      /\ handler' = [day |-> handler'.day, no |-> handler'.no, size |-> handler'.size,
                     buffer |-> handler'.buffer, closed |-> handler'.closed]
  BY <1>1, <1>4 DEF HandlersTo
<1>6. handler'.buffer \in Seq(Bytes')
  BY <1>5
<1>7. faults' \in 0 .. MaxFaults
  BY <1>1, Numbers, BoundAssumption
<1>8. TypeOK'
  BY <1>1, <1>3, <1>5, <1>6, <1>7, TypedAfterEvent
<1> QED BY <1>3, <1>8

LEMMA CloseFailsStep ==
  ASSUME TypeOK, faults < MaxFaults, NEW u \in Users, NEW s \in Sizes, CloseFails(u, s)
  PROVE  TypeOK' /\ Extends(file, file')
<1>1. Logged(u, s, FALSE) /\ open' = open /\ open /\ faults' = faults + 1
      /\ handler' = [handler EXCEPT !.buffer = <<>>, !.closed = TRUE]
  BY DEF CloseFails
<1> DEFINE w == handler.buffer
<1>2. PICK k \in 0 .. Len(w) : file' = Appended(file, At(handler), SubSeq(w, 1, k))
  BY DEF CloseFails
<1>3. /\ handler.buffer \in Seq(Bytes) /\ Len(w) \in Nat /\ handler \in Handlers
      /\ file \in [Files -> Seq(Bytes)] /\ At(handler) \in Files
  BY <1>1, Numbers, Holding DEF TypeOK, Handlers
<1>4. SubSeq(w, 1, k) \in Seq(Bytes)
  <2>1. w \in Seq(Bytes) /\ k \in 0 .. Len(w)
    BY <1>3
  <2> HIDE DEF w
  <2> QED BY <2>1, Cut
<1>5. file' \in [Files -> Seq(Bytes)] /\ Extends(file, file')
  <2> DEFINE b == SubSeq(w, 1, k)  f == At(handler)
  <2>1. b \in Seq(Bytes) /\ f \in Files /\ file' = Appended(file, f, b)
    BY <1>2, <1>3, <1>4
  <2> HIDE DEF b, f
  <2> QED BY <1>3, <2>1, AppendedShape
<1>6. file' \in [Files -> Seq(Bytes')]
  BY <1>1, <1>5, Logging
<1>7. /\ handler'.day \in 1 .. today /\ handler'.no \in 0 .. Len(events) + 1
      /\ handler'.size \in Nat /\ handler'.buffer = <<>> /\ handler'.closed = TRUE
      /\ handler' = [day |-> handler'.day, no |-> handler'.no, size |-> handler'.size,
                     buffer |-> handler'.buffer, closed |-> handler'.closed]
  <2>1. /\ handler.day \in 1 .. today /\ handler.no \in 0 .. Len(events) + 1
        /\ handler.size \in Nat
    BY <1>3, Numbers DEF Handlers
  <2>2. handler = [day |-> handler.day, no |-> handler.no, size |-> handler.size,
                   buffer |-> handler.buffer, closed |-> handler.closed]
    BY <1>3 DEF Handlers
  <2>3. handler' = [day |-> handler.day, no |-> handler.no, size |-> handler.size,
                    buffer |-> <<>>, closed |-> TRUE]
    BY <1>1, <2>2
  <2> QED BY <2>1, <2>3
<1>8. handler'.buffer \in Seq(Bytes')
  BY <1>7
<1>9. faults' \in 0 .. MaxFaults /\ open' \in BOOLEAN
  BY <1>1, Numbers, BoundAssumption
<1>10. TypeOK'
  BY <1>1, <1>6, <1>7, <1>8, <1>9, TypedAfterEvent
<1> QED BY <1>5, <1>10

\* An event that changes neither the files nor the handler.
LEMMA UnloggedStep ==
  ASSUME TypeOK, NEW u \in Users, NEW s \in Sizes, Logged(u, s, FALSE),
         UNCHANGED <<file, open, handler>>, faults' \in 0 .. MaxFaults,
         ~open \/ handler.closed
  PROVE  TypeOK' /\ Extends(file, file')
<1>1. /\ handler \in Handlers /\ file \in [Files -> Seq(Bytes)] /\ open \in BOOLEAN
      /\ ~open \/ handler.closed => handler.buffer = <<>>
  BY DEF TypeOK
<1>2. file' \in [Files -> Seq(Bytes')] /\ handler.buffer \in Seq(Bytes')
  BY <1>1, Logging DEF Handlers
<1>3. handler = [day |-> handler.day, no |-> handler.no, size |-> handler.size,
                 buffer |-> handler.buffer, closed |-> handler.closed]
  BY <1>1 DEF Handlers
<1>4. /\ handler.day \in 1 .. today /\ handler.no \in 0 .. Len(events) + 1
      /\ handler.size \in Nat /\ handler.closed \in BOOLEAN
  BY <1>1, Numbers DEF Handlers
<1>5. /\ handler'.day \in 1 .. today /\ handler'.no \in 0 .. Len(events) + 1
      /\ handler'.size \in Nat /\ handler'.buffer \in Seq(Bytes')
      /\ handler'.closed \in BOOLEAN
      /\ handler' = [day |-> handler'.day, no |-> handler'.no, size |-> handler'.size,
                     buffer |-> handler'.buffer, closed |-> handler'.closed]
  BY <1>2, <1>3, <1>4
<1>6. /\ open' \in BOOLEAN /\ ~(open' /\ ~handler'.closed)
      /\ ~open' \/ handler'.closed => handler'.buffer = <<>>
  BY <1>1
<1>7. TypeOK'
  BY <1>2, <1>5, <1>6, TypedAfterEvent
<1> QED BY <1>1, <1>7, ExtendsReflexive

LEMMA RestartStep ==
  ASSUME TypeOK, Restart
  PROVE  TypeOK' /\ Extends(file, file')
<1> DEFINE w == handler.buffer
<1>1. PICK k \in 0 .. Len(w) : file' = Appended(file, At(handler), SubSeq(w, 1, k))
  BY DEF Restart
<1>2. /\ handler \in Handlers /\ file \in [Files -> Seq(Bytes)]
      /\ w \in Seq(Bytes) /\ At(handler) \in Files
  <2>1. handler.day \in 1 .. MaxDay /\ handler.no \in 0 .. MaxEvents
    BY Numbers DEF Handlers
  <2> QED BY <2>1, Numbers DEF TypeOK, Handlers, At, Files, Days
<1>3. SubSeq(w, 1, k) \in Seq(Bytes)
  <2> HIDE DEF w
  <2> QED BY <1>2, Cut
<1>4. file' \in [Files -> Seq(Bytes)] /\ Extends(file, file')
  <2> DEFINE b == SubSeq(w, 1, k)  f == At(handler)
  <2>1. b \in Seq(Bytes) /\ f \in Files /\ file' = Appended(file, f, b)
    BY <1>1, <1>2, <1>3
  <2> HIDE DEF b, f
  <2> QED BY <1>2, <2>1, AppendedShape
<1>5. handler' \in Handlers /\ handler'.buffer = <<>> /\ open' = FALSE
  <2>1. handler' = [handler EXCEPT !.buffer = <<>>] /\ open' = FALSE
    BY DEF Restart
  <2>2. <<>> \in Seq(Bytes)
    OBVIOUS
  <2> QED BY <1>2, <2>1, <2>2 DEF Handlers
<1>6. Bytes' = Bytes /\ Handlers' = Handlers /\ events' = events /\ today' = today
      /\ faults' = faults
  BY DEF Restart, Bytes, Handlers
<1>7. restarts' \in 0 .. MaxRestarts
  BY BoundAssumption, Numbers DEF Restart
<1>8. TypeOK'
  BY <1>4, <1>5, <1>6, <1>7 DEF TypeOK
<1> QED BY <1>4, <1>8

LEMMA MidnightStep ==
  ASSUME TypeOK, Midnight
  PROVE  TypeOK' /\ Extends(file, file')
<1>1. /\ Bytes' = Bytes /\ events' = events /\ today' = today + 1 /\ today < MaxDay
      /\ file' = file /\ open' = open /\ handler' = handler /\ restarts' = restarts
      /\ faults' = faults
  BY DEF Midnight, Bytes
<1>2. today' \in Days
  BY <1>1, Numbers DEF Days
<1>3. handler' \in Handlers'
  BY <1>1, Numbers DEF Handlers
<1>4. TypeOK'
  BY <1>1, <1>2, <1>3 DEF TypeOK, At
<1> QED BY <1>1, <1>4, ExtendsReflexive DEF TypeOK

LEMMA StutterStep ==
  ASSUME TypeOK, UNCHANGED vars
  PROVE  TypeOK' /\ Extends(file, file')
<1>1. TypeOK'
  BY DEF TypeOK, vars, Bytes, Handlers, At
<1> QED BY <1>1, ExtendsReflexive DEF TypeOK, vars

LEMMA Step ==
  ASSUME TypeOK, [Next]_vars
  PROVE  TypeOK' /\ Extends(file, file')
<1>1. ASSUME NEW u \in Users, NEW s \in Sizes, LogEvent(u, s)
      PROVE  TypeOK' /\ Extends(file, file')
  BY <1>1, LogEventStep
<1>2. ASSUME NEW u \in Users, NEW s \in Sizes, DiskFails(u, s)
      PROVE  TypeOK' /\ Extends(file, file')
  <2>1. faults < MaxFaults /\ faults \in Nat /\ MaxFaults \in Nat
    BY <1>2, Numbers, BoundAssumption DEF DiskFails
  <2>2. CASE WriteFails(u, s)
    BY <2>1, <2>2, WriteFailsStep
  <2>3. CASE OpenFails(u, s)
    BY <2>1, <2>3, OpenFailsStep
  <2>4. CASE MakeFails(u, s)
    <3>1. Logged(u, s, FALSE) /\ UNCHANGED <<file, open, handler>> /\ ~open
          /\ faults' = faults + 1
      BY <2>4 DEF MakeFails
    <3>2. faults' \in 0 .. MaxFaults
      BY <2>1, <3>1
    <3> QED BY <3>1, <3>2, UnloggedStep
  <2>5. CASE CloseFails(u, s)
    BY <2>1, <2>5, CloseFailsStep
  <2> QED BY <1>2, <2>2, <2>3, <2>4, <2>5 DEF DiskFails
<1>3. ASSUME NEW u \in Users, NEW s \in Sizes, WriteToClosed(u, s)
      PROVE  TypeOK' /\ Extends(file, file')
  <2>1. Logged(u, s, FALSE) /\ UNCHANGED <<file, open, handler>> /\ faults' = faults
        /\ Held.closed
    BY <1>3 DEF WriteToClosed
  <2>2. handler.closed
    BY <2>1, Holding
  <2>3. faults' \in 0 .. MaxFaults
    BY <2>1 DEF TypeOK
  <2> QED BY <2>1, <2>2, <2>3, UnloggedStep
<1> QED BY <1>1, <1>2, <1>3, RestartStep, MidnightStep, StutterStep DEF Next

-----------------------------------------------------------------------------
\* TypeOK: what the handler counts and its buffer holds agrees with the file it
\* has open, whatever has failed.
THEOREM TypeCorrect == Spec => []TypeOK
<1>1. Init => TypeOK
  <2> SUFFICES ASSUME Init PROVE TypeOK
    OBVIOUS
  <2>1. <<>> \in Seq(Bytes) /\ events = <<>> /\ Len(<<>>) = 0
        /\ events \in Seq([user : Users, size : Sizes, ok : BOOLEAN])
    BY DEF Init
  <2>2. handler \in Handlers
    BY <2>1 DEF Init, Handlers
  <2>3. file \in [Files -> Seq(Bytes)]
    BY <2>1 DEF Init
  <2>4. today \in Days /\ Len(events) <= MaxEvents
        /\ restarts \in 0 .. MaxRestarts /\ faults \in 0 .. MaxFaults
    BY <2>1, BoundAssumption DEF Init, Days
  <2>5. open = FALSE /\ handler.buffer = <<>>
    BY DEF Init
  <2> QED BY <2>1, <2>2, <2>3, <2>4, <2>5 DEF TypeOK
<1>2. TypeOK /\ [Next]_vars => TypeOK'
  BY Step
<1> QED BY <1>1, <1>2, PTL DEF Spec

-----------------------------------------------------------------------------
(***************************************************************************)
(* NothingLost.                                                            *)
(***************************************************************************)
\* An event of the next state is one of this state, or its log_event raised,
\* or it is the one that this step has logged.
LEMMA EventsKept ==
  ASSUME TypeOK, [Next]_vars, NEW i \in DOMAIN events'
  PROVE  \/ i \in DOMAIN events /\ events'[i] = events[i]
         \/ ~events'[i].ok
         \/ \E u \in Users, s \in Sizes : LogEvent(u, s) /\ i = Len(events) + 1
<1>1. DOMAIN events = 1 .. Len(events) /\ Len(events) \in Nat
  BY Numbers
<1>2. ASSUME NEW u \in Users, NEW s \in Sizes, NEW b \in BOOLEAN, Logged(u, s, b)
      PROVE  \/ i \in DOMAIN events /\ events'[i] = events[i]
             \/ i = Len(events) + 1 /\ events'[i].ok = b
  <2>1. /\ DOMAIN events' = 1 .. Len(events) + 1
        /\ \A j \in 1 .. Len(events) : events'[j] = events[j]
        /\ events'[Len(events) + 1] = [user |-> u, size |-> s, ok |-> b]
    BY <1>2, Logging
  <2> QED BY <1>1, <2>1
<1>3. ASSUME NEW u \in Users, NEW s \in Sizes, LogEvent(u, s)
      PROVE  \/ i \in DOMAIN events /\ events'[i] = events[i]
             \/ LogEvent(u, s) /\ i = Len(events) + 1
  BY <1>2, <1>3 DEF LogEvent
<1>4. ASSUME NEW u \in Users, NEW s \in Sizes, DiskFails(u, s) \/ WriteToClosed(u, s)
      PROVE  (i \in DOMAIN events /\ events'[i] = events[i]) \/ ~events'[i].ok
  <2>1. Logged(u, s, FALSE)
    BY <1>4 DEF DiskFails, WriteFails, OpenFails, MakeFails, CloseFails, WriteToClosed
  <2> QED BY <1>2, <2>1
<1>5. CASE UNCHANGED events
  BY <1>5
<1> QED BY <1>3, <1>4, <1>5 DEF Next, Restart, Midnight, vars

LEMMA StandsStill ==
  ASSUME TypeOK, [Next]_vars, NEW i \in DOMAIN events, events'[i] = events[i],
         NEW f \in Files, NEW p \in 0 .. Len(file[f]), StandsAt(i, f, p)
  PROVE  p \in 0 .. Len(file'[f]) /\ StandsAt(i, f, p)'
<1>1. TypeOK' /\ Extends(file, file')
  BY Step
<1>2. Len(file[f]) \in Nat /\ Len(file'[f]) \in Nat
  <2>1. file'[f] \in Seq(Bytes')
    BY <1>1 DEF TypeOK
  <2> QED BY <2>1, Numbers, LenProperties
<1>3. /\ Len(file[f]) <= Len(file'[f])
      /\ \A q \in 1 .. Len(file[f]) : file'[f][q] = file[f][q]
  BY <1>1 DEF Extends
<1>4. events[i].size \in Nat /\ events'[i].size = events[i].size
  <2>1. events[i] \in [user : Users, size : Sizes, ok : BOOLEAN]
    BY Numbers, ElementOfSeq DEF TypeOK
  <2> QED BY <2>1, Numbers DEF Sizes
<1>5. /\ p + events[i].size <= Len(file[f])
      /\ \A k \in 1 .. events[i].size : file[f][p + k] = <<i, k>>
  BY DEF StandsAt, SizeOf
<1>6. \A k \in 1 .. events[i].size : file'[f][p + k] = <<i, k>>
  <2> TAKE k \in 1 .. events[i].size
  <2>1. p + k \in 1 .. Len(file[f])
    BY <1>2, <1>4, <1>5
  <2> QED BY <2>1, <1>3, <1>5
<1> QED BY <1>2, <1>3, <1>4, <1>5, <1>6 DEF StandsAt, SizeOf

LEMMA LogEventWrites ==
  ASSUME TypeOK, NEW u \in Users, NEW s \in Sizes, LogEvent(u, s)
  PROVE  LET p == Len(file[Target]) + Len(Current.buffer)
         IN  /\ p \in Nat /\ Target \in Files
             /\ p + s = Len(file'[Target])
             /\ \A k \in 1 .. s : file'[Target][p + k] = <<Len(events) + 1, k>>
<1>1. Logged(u, s, TRUE) /\ file' = Appended(Settled, Target, Queue(s))
  BY DEF LogEvent
<1> DEFINE n == Len(events) + 1  t == Target  q == Queue(s)  c == Len(Current.buffer)
           a == Len(file[t])
<1>2. /\ q \in Seq(Bytes') /\ Len(q) = c + s /\ s \in Nat
      /\ \A k \in 1 .. s : q[c + k] = <<n, k>>
  BY <1>1, Logging
<1>3. file'[t] = file[t] \o q /\ Len(file'[t]) = a + Len(q)
  BY <1>1, <1>2, Written
<1>4. t \in Files /\ c \in Nat /\ a \in Nat /\ file[t] \in Seq(Bytes')
  <2>1. Len(events) < MaxEvents
    BY <1>1 DEF Logged
  <2>2. Current.buffer \in Seq(Bytes)
    BY <2>1, Turning DEF HandlersTo
  <2>3. t \in Files /\ file[t] \in Seq(Bytes)
    BY <2>1, Turning, Numbers
  <2> QED BY <2>2, <2>3, <1>1, LenProperties, Logging
<1> HIDE DEF n, t, q, c
<1>5. \A j \in 1 .. a + (c + s) :
        file'[t][j] = IF j <= a THEN file[t][j] ELSE q[j - a]
  <2> DEFINE g == file[t]
  <2>1. g \in Seq(Bytes') /\ q \in Seq(Bytes') /\ Len(q) = c + s
    BY <1>2, <1>4
  <2>2. file'[t] = g \o q
    BY <1>3
  <2> HIDE DEF g
  <2>3. \A j \in 1 .. Len(g) + (c + s) :
          (g \o q)[j] = IF j <= Len(g) THEN g[j] ELSE q[j - Len(g)]
    BY <2>1, ConcatProperties
  <2> QED BY <2>2, <2>3 DEF g
<1> HIDE DEF a
<1>6. \A k \in 1 .. s : file'[t][(a + c) + k] = <<n, k>>
  <2> TAKE k \in 1 .. s
  <2>1. c \in Nat /\ a \in Nat /\ s \in Nat
    BY <1>2, <1>4
  <2>2. /\ (a + c) + k \in 1 .. a + (c + s) /\ ~((a + c) + k <= a)
        /\ ((a + c) + k) - a = c + k
    BY <2>1
  <2> QED BY <1>2, <1>5, <2>2
<1>7. a + c \in Nat /\ (a + c) + s = Len(file'[t])
  <2>1. c \in Nat /\ a \in Nat /\ s \in Nat /\ Len(file'[t]) = a + (c + s)
    BY <1>2, <1>3, <1>4
  <2> QED BY <2>1
<1> QED BY <1>4, <1>6, <1>7 DEF n, t, a, c

\* NothingLost: no disk that fails, no rotation and no restart ever costs a line
\* whose log_event has returned.
THEOREM NothingIsLost == Spec => []NothingLost
<1>1. Init => NothingLost
  BY DEF Init, NothingLost
<1>2. TypeOK /\ NothingLost /\ [Next]_vars => NothingLost'
  <2> SUFFICES ASSUME TypeOK, NothingLost, [Next]_vars,
                      NEW i \in DOMAIN events', events'[i].ok
               PROVE  \E f \in Files : \E p \in 0 .. Len(file'[f]) : StandsAt(i, f, p)'
    BY DEF NothingLost
  <2>1. CASE i \in DOMAIN events /\ events'[i] = events[i]
    <3>1. i \in DOMAIN events /\ events[i].ok
      BY <2>1, Zenon
    <3>2. \E f \in Files : \E p \in 0 .. Len(file[f]) : StandsAt(i, f, p)
      BY <3>1, Zenon DEF NothingLost
    <3>3. PICK f \in Files : \E p \in 0 .. Len(file[f]) : StandsAt(i, f, p)
      BY <3>2
    <3>4. PICK p \in 0 .. Len(file[f]) : StandsAt(i, f, p)
      BY <3>3
    <3> QED BY <2>1, <3>4, StandsStill
  <2>2. CASE \E u \in Users, s \in Sizes : LogEvent(u, s) /\ i = Len(events) + 1
    <3>1. PICK u \in Users, s \in Sizes : LogEvent(u, s) /\ i = Len(events) + 1
      BY <2>2
    <3>2. PICK f \in Files : \E p \in Nat :
            /\ p + s = Len(file'[f])
            /\ \A k \in 1 .. s : file'[f][p + k] = <<i, k>>
      BY <3>1, LogEventWrites
    <3>3. events'[i].size = s
      <4>1. Logged(u, s, TRUE)
        BY <3>1 DEF LogEvent
      <4>2. events'[Len(events) + 1] = [user |-> u, size |-> s, ok |-> TRUE]
        BY <4>1, Logging
      <4> QED BY <3>1, <4>2
    <3>4. PICK p \in Nat : /\ p + s = Len(file'[f])
                           /\ \A k \in 1 .. s : file'[f][p + k] = <<i, k>>
      BY <3>2
    <3>5. p + s <= Len(file'[f]) /\ p \in 0 .. Len(file'[f])
      BY <3>4, SizeAssumption DEF Sizes
    <3>6. StandsAt(i, f, p)'
      BY <3>3, <3>4, <3>5 DEF StandsAt, SizeOf
    <3> QED BY <3>5, <3>6
  <2> QED BY <2>1, <2>2, EventsKept
<1> QED BY <1>1, <1>2, TypeCorrect, PTL DEF Spec

-----------------------------------------------------------------------------
(***************************************************************************)
(* SizeBounded.  A process that starts opens number 0 of the day again and *)
(* visits the files that are full already, one event at a time: each gets  *)
(* one line more for each process.  The files that the handler has not     *)
(* come to yet are a line below the bound, and a restart, which makes all  *)
(* files such files, raises the bound by a line.                           *)
(***************************************************************************)
Slack == MaxLine * (restarts + faults)

Ahead(f) == ~open \/ handler.day < f[1] \/ (handler.day = f[1] /\ handler.no < f[2])

SizeInv ==
  /\ \A f \in Files : Len(file[f]) < MaxBytes + MaxLine + Slack
  /\ \A f \in Files : Ahead(f) => Len(file[f]) < MaxBytes + Slack
  /\ open =>
       Len(file[At(handler)]) + Len(handler.buffer) < MaxBytes + MaxLine + Slack

LEMMA SlackGrows ==
  ASSUME TypeOK
  PROVE  /\ Slack \in Nat /\ MaxLine * faults \in Nat /\ MaxLine * faults <= Slack
         /\ MaxLine * (1 + restarts + faults) = MaxLine + Slack
         /\ MaxBytes \in Nat /\ MaxLine \in Nat
<1>1. MaxLine \in Nat /\ restarts \in Nat /\ faults \in Nat /\ MaxBytes \in Nat
  BY Numbers
<1>2. MaxLine * restarts \in Nat /\ MaxLine * faults \in Nat
  BY <1>1, OneMore
<1>3. MaxLine * (restarts + faults) = MaxLine * restarts + MaxLine * faults
  BY <1>1
<1>4. MaxLine * (1 + restarts + faults) = MaxLine + MaxLine * (restarts + faults)
  BY <1>1
<1> QED BY <1>1, <1>2, <1>3, <1>4 DEF Slack

LEMMA SlackSame ==
  ASSUME TypeOK, restarts' = restarts, faults' = faults
  PROVE  Slack' \in Nat /\ Slack <= Slack' /\ Slack' = Slack
<1>1. Slack' = Slack
  BY DEF Slack
<1> QED BY <1>1, SlackGrows

LEMMA SlackMore ==
  ASSUME TypeOK, \/ restarts' = restarts + 1 /\ faults' = faults
                 \/ restarts' = restarts /\ faults' = faults + 1
  PROVE  /\ Slack' \in Nat /\ Slack <= Slack' /\ Slack' = Slack + MaxLine
         /\ Slack \in Nat /\ MaxLine \in Nat /\ MaxBytes \in Nat
<1>1. restarts \in Nat /\ faults \in Nat /\ restarts + faults \in Nat
  BY Numbers
<1>2. MaxLine * ((restarts + faults) + 1) = MaxLine * (restarts + faults) + MaxLine
  BY <1>1, OneMore
<1>3. restarts' + faults' = (restarts + faults) + 1
  BY <1>1
<1>4. Slack' = Slack + MaxLine
  BY <1>2, <1>3 DEF Slack
<1>5. Slack \in Nat /\ MaxLine \in Nat /\ MaxBytes \in Nat
  BY SlackGrows
<1> QED BY <1>4, <1>5

\* The handler turns to the same file, or to one it has not come to yet.
LEMMA TargetAhead ==
  ASSUME TypeOK, Len(events) < MaxEvents
  PROVE  /\ MustRotate => Ahead(Target)
         /\ \A e \in Files :
              Target[1] < e[1] \/ (Target[1] = e[1] /\ Target[2] < e[2])
                => Ahead(e) /\ e # Target /\ e # At(Held)
<1>1. /\ Held \in HandlersTo(Len(events)) /\ (open => Held = handler)
      /\ today \in Nat /\ Len(events) \in Nat /\ MaxDay \in Nat /\ MaxEvents \in Nat
  BY Holding, Numbers
<1>2. /\ Held.day \in Nat /\ Held.day <= today /\ Held.no \in Nat
      /\ (~open => Held.day = today /\ Held.no = 0)
  BY <1>1 DEF HandlersTo, Held, Opened
<1>3. \/ Target = <<today, 0>> /\ Held.day # today
      \/ Target = <<Held.day, Held.no + 1>> /\ Held.day = today
      \/ Target = <<Held.day, Held.no>> /\ ~MustRotate
  BY <1>2 DEF Target, MustRotate, At
<1>4. MustRotate => Ahead(Target)
  BY <1>1, <1>2, <1>3 DEF Ahead
<1>5. ASSUME NEW e \in Files, Target[1] < e[1] \/ (Target[1] = e[1] /\ Target[2] < e[2])
      PROVE  Ahead(e) /\ e # Target /\ e # At(Held)
  <2>1. e[1] \in Nat /\ e[2] \in Nat /\ e = <<e[1], e[2]>>
    BY <1>1 DEF Files, Days
  <2>2. Held.day < e[1] \/ (Held.day = e[1] /\ Held.no < e[2])
    <3> DEFINE d == Held.day  n == Held.no  x == e[1]  y == e[2]
    <3>1. d \in Nat /\ n \in Nat /\ x \in Nat /\ y \in Nat /\ today \in Nat /\ d <= today
      BY <1>1, <1>2, <2>1
    <3>2. \/ (today < x \/ (today = x /\ 0 < y)) /\ d # today
          \/ d < x \/ (d = x /\ n + 1 < y)
          \/ d < x \/ (d = x /\ n < y)
      BY <1>3, <1>5
    <3> HIDE DEF d, n, x, y
    <3>3. d < x \/ (d = x /\ n < y)
      BY <3>1, <3>2
    <3> QED BY <3>3 DEF d, n, x, y
  <2>3. e # At(Held) /\ Ahead(e)
    BY <1>1, <1>2, <2>1, <2>2 DEF At, Ahead
  <2>4. e # Target
    BY <1>2, <1>3, <1>5, <2>1
  <2> QED BY <2>3, <2>4
<1> QED BY <1>4, <1>5

\* There is room for a line in the file that is written next.
LEMMA Room ==
  ASSUME TypeOK, SizeInv, Len(events) < MaxEvents, MustRotate \/ ~Held.closed
  PROVE  Len(file[Target]) + Len(Current.buffer) < MaxBytes + Slack
<1> DEFINE a == Len(file[Target])  c == Len(Current.buffer)  z == Current.size
           lost == MaxLine * faults
<1>1. a \in Nat /\ c \in Nat /\ z \in Nat /\ a + c <= z + lost
  BY Counted
<1>2. lost \in Nat /\ Slack \in Nat /\ lost <= Slack /\ MaxBytes \in Nat
  BY SlackGrows
<1>3. CASE MustRotate
  <2>1. a < MaxBytes + Slack
    BY <1>3, TargetAhead, Turning DEF SizeInv
  <2>2. Len(<<>>) = 0
    OBVIOUS
  <2>3. c = 0
    BY <1>3, <2>2, Turning
  <2> HIDE DEF a, c, lost
  <2>4. a + c < MaxBytes + Slack
    BY <1>1, <1>2, <2>1, <2>3
  <2> QED BY <2>4 DEF a, c
<1>4. CASE ~MustRotate
  <2>1. z < MaxBytes
    BY <1>4, Turning
  <2> HIDE DEF a, c, z, lost
  <2>2. a + c < MaxBytes + Slack
    BY <1>1, <1>2, <2>1
  <2> QED BY <2>2 DEF a, c
<1> QED BY <1>3, <1>4

\* Closing the old file writes no more than was counted for it.
LEMMA SettledBounded ==
  ASSUME TypeOK, SizeInv, Len(events) < MaxEvents
  PROVE  \A e \in Files : /\ Len(Settled[e]) < MaxBytes + MaxLine + Slack
                          /\ e # At(Held) => Settled[e] = file[e]
<1>1. CASE ~MustRotate
  BY <1>1 DEF Settled, SizeInv
<1>2. CASE MustRotate
  <2> DEFINE f == At(Held)  b == Held.buffer
  <2>1. f \in Files /\ b \in Seq(Bytes) /\ file \in [Files -> Seq(Bytes)]
    BY Holding DEF HandlersTo, TypeOK
  <2>2. Len(file[f]) + Len(b) < MaxBytes + MaxLine + Slack
    <3>1. CASE open
      BY <3>1, Holding DEF SizeInv
    <3>2. CASE ~open
      <4>1. b = <<>> /\ Len(<<>>) = 0 /\ Len(file[f]) \in Nat
        BY <3>2, <2>1, Holding, Numbers
      <4>2. Len(file[f]) < MaxBytes + MaxLine + Slack
        BY <2>1 DEF SizeInv
      <4>3. Len(b) = 0
        BY <4>1
      <4> HIDE DEF f, b
      <4> QED BY <4>1, <4>2, <4>3
    <3> QED BY <3>1, <3>2
  <2>3. Settled = Appended(file, f, b)
    BY <1>2 DEF Settled
  <2> HIDE DEF f, b
  <2>4. /\ Len(Appended(file, f, b)[f]) = Len(file[f]) + Len(b)
        /\ \A e \in Files : e # f => Appended(file, f, b)[e] = file[e]
    BY <2>1, AppendedShape
  <2>5. ASSUME NEW e \in Files
        PROVE  /\ Len(Settled[e]) < MaxBytes + MaxLine + Slack
               /\ e # f => Settled[e] = file[e]
    BY <2>2, <2>3, <2>4 DEF SizeInv
  <2> QED BY <2>5 DEF f
<1> QED BY <1>1, <1>2

LEMMA BoundsLater ==
  ASSUME TypeOK, SizeInv, TypeOK', open' = open, handler'.buffer = handler.buffer,
         handler'.day = handler.day, handler'.no = handler.no,
         file' = file, Slack' \in Nat, Slack <= Slack'
  PROVE  SizeInv'
<1>1. /\ MaxBytes \in Nat /\ MaxLine \in Nat /\ Slack \in Nat
      /\ \A f \in Files : Len(file[f]) \in Nat
      /\ Len(handler.buffer) \in Nat
  BY SlackGrows, Numbers
<1>2. open => At(handler) \in Files /\ At(handler') = At(handler)
  BY Holding DEF At
<1>3. \A f \in Files : Ahead(f)' <=> Ahead(f)
  BY DEF Ahead
<1>4. \A f \in Files : /\ Len(file[f]) < MaxBytes + MaxLine + Slack'
                       /\ Ahead(f) => Len(file[f]) < MaxBytes + Slack'
  BY <1>1 DEF SizeInv
<1>5. open => Len(file[At(handler)]) + Len(handler.buffer) < MaxBytes + MaxLine + Slack'
  <2> DEFINE a == Len(file[At(handler)])  c == Len(handler.buffer)
  <2>1. open => a \in Nat /\ c \in Nat /\ a + c < MaxBytes + MaxLine + Slack
    BY <1>1, <1>2 DEF SizeInv
  <2> HIDE DEF a, c
  <2>2. open => a + c < MaxBytes + MaxLine + Slack'
    BY <1>1, <2>1
  <2> QED BY <2>2 DEF a, c
<1> QED BY <1>2, <1>3, <1>4, <1>5 DEF SizeInv

LEMMA WritesBounded ==
  ASSUME TypeOK, SizeInv, NEW u \in Users, NEW s \in Sizes, NEW b \in BOOLEAN,
         Logged(u, s, b), MustRotate \/ ~Held.closed,
         NEW q \in Seq(Bytes'), file' = Appended(Settled, Target, q),
         handler'.day = Target[1], handler'.no = Target[2], open' = TRUE,
         Len(handler'.buffer) \in Nat, Len(q) \in Nat,
         Len(q) + Len(handler'.buffer) = Len(Current.buffer) + s,
         Slack' \in Nat, Slack <= Slack'
  PROVE  SizeInv'
<1>1. Len(events) < MaxEvents
  BY DEF Logged
<1>2. /\ MaxBytes \in Nat /\ MaxLine \in Nat /\ Slack \in Nat
      /\ s \in Nat /\ s <= MaxLine /\ Len(file[Target]) \in Nat /\ Target \in Files
      /\ \A f \in Files : Len(file[f]) \in Nat
  BY <1>1, SlackGrows, Numbers, Logging, Turning
<1>3. Len(Current.buffer) \in Nat
  BY <1>1, Counted
<1>4. /\ Len(file'[Target]) = Len(file[Target]) + Len(q)
      /\ \A e \in Files : e # Target => file'[e] = Settled[e]
  BY Written
<1>5. Len(file'[Target]) + Len(handler'.buffer) < MaxBytes + MaxLine + Slack'
  <2> DEFINE a == Len(file[Target])  c == Len(Current.buffer)  l == Len(file'[Target])
             h == Len(handler'.buffer)  m == Len(q)
  <2>1. /\ a + c < MaxBytes + Slack /\ l = a + m /\ m + h = c + s
        /\ a \in Nat /\ c \in Nat /\ h \in Nat /\ m \in Nat
    BY <1>1, <1>2, <1>3, <1>4, Room
  <2> HIDE DEF a, c, l, h, m
  <2>2. l + h < MaxBytes + MaxLine + Slack'
    <3> DEFINE x == Slack  y == Slack'
    <3>1. x \in Nat /\ y \in Nat /\ x <= y /\ a + c < MaxBytes + x
      BY <1>2, <2>1
    <3> HIDE DEF x, y
    <3>2. l + h < MaxBytes + MaxLine + y
      BY <1>2, <2>1, <3>1
    <3> QED BY <3>2 DEF y
  <2> QED BY <2>2 DEF l, h
<1>6. Len(file'[Target]) \in Nat
  BY <1>2, <1>4
<1>7. ASSUME NEW e \in Files
      PROVE  Len(file'[e]) < MaxBytes + MaxLine + Slack'
  <2>1. CASE e = Target
    <3> DEFINE l == Len(file'[Target])  h == Len(handler'.buffer)
    <3>1. l \in Nat /\ h \in Nat /\ l + h < MaxBytes + MaxLine + Slack'
      BY <1>5, <1>6
    <3> HIDE DEF l, h
    <3>2. l < MaxBytes + MaxLine + Slack'
      <4> DEFINE y == Slack'
      <4>1. y \in Nat /\ l + h < MaxBytes + MaxLine + y
        BY <3>1
      <4> HIDE DEF y
      <4>2. l < MaxBytes + MaxLine + y
        BY <1>2, <3>1, <4>1
      <4> QED BY <4>2 DEF y
    <3> QED BY <2>1, <3>2 DEF l
  <2>2. CASE e # Target
    <3> DEFINE l == Len(Settled[e])
    <3>1. file'[e] = Settled[e] /\ l < MaxBytes + MaxLine + Slack
      BY <1>1, <1>4, <2>2, SettledBounded
    <3>2. l \in Nat
      <4>1. Settled[e] \in Seq(Bytes)
        BY <1>1, Turning
      <4> QED BY <4>1, LenProperties
    <3>3. Len(file'[e]) = l
      BY <3>1
    <3> HIDE DEF l
    <3> QED BY <1>2, <3>1, <3>2, <3>3
  <2> QED BY <2>1, <2>2
<1>8. ASSUME NEW e \in Files, Ahead(e)'
      PROVE  Len(file'[e]) < MaxBytes + Slack'
  <2>1. Target[1] < e[1] \/ (Target[1] = e[1] /\ Target[2] < e[2])
    BY <1>8 DEF Ahead
  <2>2. Ahead(e) /\ e # Target /\ e # At(Held)
    BY <1>1, <2>1, TargetAhead
  <2>3. file'[e] = file[e] /\ Len(file[e]) < MaxBytes + Slack
    BY <1>1, <1>4, <2>2, SettledBounded DEF SizeInv
  <2> QED BY <1>2, <2>3
<1>9. At(handler') = Target
  <2>1. Target = <<Target[1], Target[2]>>
    BY <1>2 DEF Files
  <2> QED BY <2>1 DEF At
<1> QED BY <1>5, <1>7, <1>8, <1>9 DEF SizeInv

LEMMA LogEventBounded ==
  ASSUME TypeOK, SizeInv, TypeOK', NEW u \in Users, NEW s \in Sizes, LogEvent(u, s)
  PROVE  SizeInv'
<1>1. /\ Logged(u, s, TRUE) /\ file' = Appended(Settled, Target, Queue(s)) /\ open' = TRUE
      /\ handler' = [Current EXCEPT !.size = @ + s, !.buffer = <<>>]
      /\ faults' = faults /\ restarts' = restarts /\ (MustRotate \/ ~Held.closed)
      /\ Len(events) < MaxEvents
  BY DEF LogEvent, Logged
<1>2. Current \in HandlersTo(Len(events) + 1) /\ At(Current) = Target
  BY <1>1, Turning
<1>3. handler'.day = Target[1] /\ handler'.no = Target[2] /\ handler'.buffer = <<>>
  BY <1>1, <1>2 DEF HandlersTo, At
<1>4. /\ Queue(s) \in Seq(Bytes') /\ Len(Queue(s)) = Len(Current.buffer) + s
      /\ Len(Queue(s)) \in Nat
  BY <1>1, Logging, LenProperties
<1>5. Len(<<>>) = 0
  OBVIOUS
<1>6. Len(handler'.buffer) = 0
  BY <1>3, <1>5
<1>7. Slack' \in Nat /\ Slack <= Slack'
  BY <1>1, SlackSame
<1>8. Len(Queue(s)) + Len(handler'.buffer) = Len(Current.buffer) + s
  BY <1>4, <1>6
<1>9. Len(handler'.buffer) \in Nat
  BY <1>6
<1> QED BY <1>1, <1>3, <1>4, <1>7, <1>8, <1>9, WritesBounded

LEMMA WriteFailsBounded ==
  ASSUME TypeOK, SizeInv, TypeOK', NEW u \in Users, NEW s \in Sizes, WriteFails(u, s)
  PROVE  SizeInv'
<1>1. /\ Logged(u, s, FALSE) /\ open' = TRUE /\ faults' = faults + 1
      /\ restarts' = restarts /\ (MustRotate \/ ~Held.closed) /\ Len(events) < MaxEvents
  BY DEF WriteFails, Logged
<1> DEFINE Q == Queue(s)
<1>2. Q \in Seq(Bytes') /\ Len(Q) = Len(Current.buffer) + s
  BY <1>1, Logging
<1>3. PICK k \in 0 .. Len(Q) - 1 :
        /\ file' = Appended(Settled, Target, SubSeq(Q, 1, k))
        /\ handler' = [Current EXCEPT !.buffer = SubSeq(Q, k + 1, Len(Q))]
  BY DEF WriteFails
<1> DEFINE done == SubSeq(Q, 1, k)  rest == SubSeq(Q, k + 1, Len(Q))
<1>4. /\ done \in Seq(Bytes') /\ Len(done) = k /\ Len(rest) = Len(Q) - k
      /\ k \in Nat /\ k <= Len(Q) /\ Len(Q) \in Nat
  <2> HIDE DEF Q
  <2>1. Len(Q) \in Nat /\ k \in 0 .. Len(Q)
    BY <1>2, LenProperties
  <2> QED BY <1>2, <2>1, Cut
<1>5. Current \in HandlersTo(Len(events) + 1) /\ At(Current) = Target
  BY <1>1, Turning
<1> HIDE DEF Q, done, rest
<1>6. handler'.day = Target[1] /\ handler'.no = Target[2] /\ handler'.buffer = rest
  BY <1>3, <1>5 DEF HandlersTo, At, rest
<1>7. /\ Len(done) \in Nat /\ Len(handler'.buffer) \in Nat
      /\ Len(done) + Len(handler'.buffer) = Len(Current.buffer) + s
  BY <1>2, <1>4, <1>6
<1>8. Slack' \in Nat /\ Slack <= Slack'
  BY <1>1, SlackMore
<1>9. file' = Appended(Settled, Target, done)
  BY <1>3 DEF done
<1> QED BY <1>1, <1>4, <1>6, <1>7, <1>8, <1>9, WritesBounded

LEMMA OpenFailsBounded ==
  ASSUME TypeOK, SizeInv, TypeOK', NEW u \in Users, NEW s \in Sizes, OpenFails(u, s)
  PROVE  SizeInv'
<1>1. /\ Logged(u, s, FALSE) /\ open' = TRUE /\ faults' = faults + 1 /\ MustRotate
      /\ restarts' = restarts /\ Len(events) < MaxEvents
      /\ file' = Settled /\ handler' = [Opened(Target) EXCEPT !.size = 0, !.closed = TRUE]
  BY DEF OpenFails, Logged
<1>2. /\ Slack' = Slack + MaxLine /\ Slack \in Nat /\ MaxLine \in Nat /\ MaxBytes \in Nat
  BY <1>1, SlackMore
<1>3. /\ handler'.buffer = <<>> /\ At(handler') = Target /\ Target \in Files
      /\ handler'.day = Target[1] /\ handler'.no = Target[2]
  <2>1. Opened(Target) \in HandlersTo(Len(events) + 1) /\ At(Opened(Target)) = Target
        /\ Opened(Target).buffer = <<>> /\ Target \in Files
    BY <1>1, Turning
  <2> QED BY <1>1, <2>1 DEF HandlersTo, At
<1>4. ASSUME NEW e \in Files
      PROVE  /\ Len(file'[e]) < MaxBytes + MaxLine + Slack'
             /\ Len(file'[e]) \in Nat
             /\ Ahead(e)' => Len(file'[e]) < MaxBytes + Slack'
  <2>1. Len(file'[e]) < MaxBytes + MaxLine + Slack
    BY <1>1, SettledBounded
  <2>2. Len(file'[e]) \in Nat
    <3>1. file'[e] \in Seq(Bytes')
      BY DEF TypeOK
    <3> QED BY <3>1, LenProperties
  <2> QED BY <1>2, <2>1, <2>2
<1>5. Len(file'[At(handler')]) + Len(handler'.buffer) < MaxBytes + MaxLine + Slack'
  <2>1. Len(<<>>) = 0
    OBVIOUS
  <2>2. Len(handler'.buffer) = 0
    BY <1>3, <2>1
  <2> QED BY <1>3, <1>4, <2>2
<1> QED BY <1>4, <1>5 DEF SizeInv

\* The bytes that a closing writes are counted already.
LEMMA ClosingBounded ==
  ASSUME TypeOK, SizeInv, TypeOK', NEW k \in 0 .. Len(handler.buffer),
         file' = Appended(file, At(handler), SubSeq(handler.buffer, 1, k))
  PROVE  /\ Len(file'[At(handler)]) = Len(file[At(handler)]) + k
         /\ At(handler) \in Files
         /\ \A e \in Files : /\ Len(file'[e]) < MaxBytes + MaxLine + Slack
                             /\ e # At(handler) => file'[e] = file[e]
<1> DEFINE w == handler.buffer  f == At(handler)  b == SubSeq(w, 1, k)
<1>1. w \in Seq(Bytes) /\ f \in Files /\ file \in [Files -> Seq(Bytes)] /\ Len(w) \in Nat
  <2>1. handler.day \in 1 .. MaxDay /\ handler.no \in 0 .. MaxEvents
    BY Numbers DEF Handlers
  <2> QED BY <2>1, Numbers DEF TypeOK, Handlers, At, Files, Days
<1>2. b \in Seq(Bytes) /\ Len(b) = k
  <2>1. k \in 0 .. Len(w)
    OBVIOUS
  <2> HIDE DEF w
  <2> QED BY <1>1, <2>1, Cut
<1>3. file' = Appended(file, f, b)
  OBVIOUS
<1>4. Len(file[f]) + k < MaxBytes + MaxLine + Slack
  <2>1. /\ Len(file[f]) \in Nat /\ MaxBytes \in Nat /\ MaxLine \in Nat /\ Slack \in Nat
        /\ k \in Nat /\ k <= Len(w)
    BY <1>1, Numbers, SlackGrows
  <2>2. CASE open
    <3> DEFINE a == Len(file[f])  c == Len(w)
    <3>1. a + c < MaxBytes + MaxLine + Slack /\ a \in Nat /\ c \in Nat
      BY <1>1, <2>1, <2>2 DEF SizeInv
    <3> HIDE DEF a, c
    <3>2. c = Len(w)
      BY DEF c
    <3>3. a + k < MaxBytes + MaxLine + Slack
      BY <2>1, <3>1, <3>2
    <3> QED BY <3>3 DEF a
  <2>3. CASE ~open
    <3>1. w = <<>> /\ Len(<<>>) = 0
      BY <2>3, Numbers
    <3>2. k = 0
      BY <2>1, <3>1
    <3> QED BY <1>1, <2>1, <3>2 DEF SizeInv
  <2> QED BY <2>2, <2>3
<1> HIDE DEF f, b
<1>5. /\ Len(file'[f]) = Len(file[f]) + k
      /\ \A e \in Files : e # f => file'[e] = file[e]
  <2>1. /\ Len(Appended(file, f, b)[f]) = Len(file[f]) + Len(b)
        /\ \A e \in Files : e # f => Appended(file, f, b)[e] = file[e]
    <3>1. file \in [Files -> Seq(Bytes)] /\ f \in Files /\ b \in Seq(Bytes)
      BY <1>1, <1>2 DEF f
    <3> QED BY <3>1, AppendedShape
  <2>2. file' = Appended(file, f, b)
    BY <1>3 DEF f, b
  <2> QED BY <1>2, <2>1, <2>2
<1>6. \A e \in Files : /\ Len(file'[e]) < MaxBytes + MaxLine + Slack
                       /\ e # f => file'[e] = file[e]
  BY <1>4, <1>5 DEF SizeInv
<1> QED BY <1>1, <1>5, <1>6 DEF f

LEMMA CloseFailsBounded ==
  ASSUME TypeOK, SizeInv, TypeOK', NEW u \in Users, NEW s \in Sizes, CloseFails(u, s)
  PROVE  SizeInv'
<1>1. /\ Logged(u, s, FALSE) /\ open' = open /\ open /\ faults' = faults + 1
      /\ restarts' = restarts /\ handler \in Handlers
      /\ handler' = [handler EXCEPT !.buffer = <<>>, !.closed = TRUE]
  BY Numbers DEF CloseFails, Logged
<1>2. PICK k \in 0 .. Len(handler.buffer) :
        file' = Appended(file, At(handler), SubSeq(handler.buffer, 1, k))
  BY DEF CloseFails
<1>3. /\ At(handler) \in Files
      /\ \A e \in Files : /\ Len(file'[e]) < MaxBytes + MaxLine + Slack
                          /\ e # At(handler) => file'[e] = file[e]
  BY <1>2, ClosingBounded
<1>4. /\ Slack' = Slack + MaxLine /\ Slack \in Nat /\ MaxLine \in Nat /\ MaxBytes \in Nat
  BY <1>1, SlackMore
<1>5. handler'.buffer = <<>> /\ At(handler') = At(handler)
  BY <1>1 DEF Handlers, At
<1>6. \A e \in Files : Len(file'[e]) \in Nat
  <2>1. \A e \in Files : file'[e] \in Seq(Bytes')
    BY DEF TypeOK
  <2> QED BY <2>1, LenProperties
<1>7. \A e \in Files : /\ Len(file'[e]) < MaxBytes + MaxLine + Slack'
                       /\ Len(file'[e]) < MaxBytes + Slack'
  BY <1>3, <1>4, <1>6
<1>8. Len(file'[At(handler')]) + Len(handler'.buffer) < MaxBytes + MaxLine + Slack'
  <2>1. Len(<<>>) = 0
    OBVIOUS
  <2>2. Len(handler'.buffer) = 0
    BY <1>5, <2>1
  <2> QED BY <1>3, <1>5, <1>6, <1>7, <2>2
<1> QED BY <1>7, <1>8 DEF SizeInv

LEMMA RestartBounded ==
  ASSUME TypeOK, SizeInv, TypeOK', Restart
  PROVE  SizeInv'
<1>1. open' = FALSE /\ restarts' = restarts + 1 /\ faults' = faults
  BY DEF Restart
<1>2. PICK k \in 0 .. Len(handler.buffer) :
        file' = Appended(file, At(handler), SubSeq(handler.buffer, 1, k))
  BY DEF Restart
<1>3. \A e \in Files : Len(file'[e]) < MaxBytes + MaxLine + Slack
  BY <1>2, ClosingBounded
<1>4. /\ Slack' = Slack + MaxLine /\ Slack \in Nat /\ MaxLine \in Nat /\ MaxBytes \in Nat
  BY <1>1, SlackMore
<1>5. \A e \in Files : Len(file'[e]) \in Nat
  <2>1. \A e \in Files : file'[e] \in Seq(Bytes')
    BY DEF TypeOK
  <2> QED BY <2>1, LenProperties
<1>6. \A e \in Files : /\ Len(file'[e]) < MaxBytes + MaxLine + Slack'
                       /\ Len(file'[e]) < MaxBytes + Slack'
  BY <1>3, <1>4, <1>5
<1> QED BY <1>1, <1>6 DEF SizeInv

\* SizeBounded: however often the process restarts and the disk fails, no file
\* grows past MAX_BYTES by more than a line for each, and one.
THEOREM SizeIsBounded == Spec => []SizeBounded
<1>1. Init => SizeInv
  <2> SUFFICES ASSUME Init PROVE SizeInv
    OBVIOUS
  <2>1. \A f \in Files : file[f] = <<>>
    BY DEF Init
  <2>2. Len(<<>>) = 0 /\ ~open /\ restarts = 0 /\ faults = 0
    BY DEF Init
  <2>3. MaxLine \in Nat /\ MaxBytes \in Nat /\ 0 < MaxBytes
    BY SizeAssumption
  <2>4. Slack = 0
    BY <2>2, <2>3 DEF Slack
  <2>5. \A f \in Files : Len(file[f]) = 0
    BY <2>1, <2>2
  <2>6. \A f \in Files : /\ Len(file[f]) < MaxBytes + MaxLine + Slack
                          /\ Len(file[f]) < MaxBytes + Slack
    BY <2>3, <2>4, <2>5
  <2> QED BY <2>2, <2>6 DEF SizeInv
<1>2. TypeOK /\ TypeOK' /\ SizeInv /\ [Next]_vars => SizeInv'
  <2> SUFFICES ASSUME TypeOK, TypeOK', SizeInv, [Next]_vars PROVE SizeInv'
    OBVIOUS
  <2>1. ASSUME NEW u \in Users, NEW s \in Sizes, DiskFails(u, s) PROVE SizeInv'
    <3>1. CASE MakeFails(u, s)
      <4>1. /\ UNCHANGED <<file, open, handler, restarts>> /\ faults' = faults + 1
        BY <3>1 DEF MakeFails, Logged
      <4>2. Slack' \in Nat /\ Slack <= Slack'
        BY <4>1, SlackMore
      <4> QED BY <4>1, <4>2, BoundsLater
    <3> QED BY <2>1, <3>1, WriteFailsBounded, OpenFailsBounded, CloseFailsBounded
            DEF DiskFails
  <2>2. CASE UNCHANGED <<file, open, handler, restarts, faults>>
    <3>1. Slack' \in Nat /\ Slack <= Slack'
      BY <2>2, SlackSame
    <3> QED BY <2>2, <3>1, BoundsLater
  <2>3. ASSUME NEW u \in Users, NEW s \in Sizes, WriteToClosed(u, s) PROVE SizeInv'
    BY <2>2, <2>3 DEF WriteToClosed, Logged
  <2> QED BY <2>1, <2>2, <2>3, LogEventBounded, RestartBounded DEF Next, Midnight, vars
<1>3. TypeOK /\ SizeInv => SizeBounded
  BY SlackGrows DEF SizeInv, SizeBounded
<1> QED BY <1>1, <1>2, <1>3, TypeCorrect, PTL DEF Spec

=============================================================================
