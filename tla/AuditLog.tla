------------------------------ MODULE AuditLog ------------------------------
(***************************************************************************)
(* The audit log on disk: JSONLHandler (logging_setup.py) as log_event     *)
(* uses it, and read_log_entries (audit/writer.py).                        *)
(*                                                                         *)
(* A file belongs to a day and has a number.  The handler appends to one   *)
(* file, moves to the next number when it counts MaxBytes there, and to    *)
(* number 0 when the day changes.  It is made by the first event after a   *)
(* start of the process and then opens number 0 of the day again, however  *)
(* many files the day already has; moving on from there, it visits them    *)
(* one event at a time.  A reader goes through the files newest first, but *)
(* through each file from its start, and keeps the last entries it met.    *)
(*                                                                         *)
(* The disk may fail.  A write that fails leaves the first part of the     *)
(* line on disk and the rest in the stream's buffer, where it waits for    *)
(* the next write or is lost with the process; log_event raises.  "On      *)
(* disk" is what the system has been given: it is the process that is      *)
(* restarted here, not the machine.  A character is one byte.              *)
(***************************************************************************)
EXTENDS Naturals, Sequences, FiniteSets

CONSTANTS
  Users,       \* actors and targets of events
  MaxLine,     \* bound: length of a line
  MaxBytes,    \* MAX_BYTES
  MaxLimit,    \* the largest limit a read may ask for (the smallest is 1)
  MaxEvents,   \* bound: events logged
  MaxDay,      \* bound: days
  MaxRestarts, \* bound: restarts of the process
  MaxFaults    \* bound: failures of the disk

ASSUME SizeAssumption == MaxLine \in Nat \ {0, 1} /\ MaxBytes \in Nat \ {0}
ASSUME LimitAssumption == MaxLimit \in Nat \ {0}
ASSUME BoundAssumption ==
  /\ MaxEvents \in Nat /\ MaxDay \in Nat \ {0}
  /\ MaxRestarts \in Nat /\ MaxFaults \in Nat

VARIABLES
  today,    \* the current day
  events,   \* the events logged, in order: [user, size, ok (log_event returned)]
  file,     \* file[f]: the bytes of f, <<i, k>> for byte k of the line of event i
  open,     \* _initialized
  handler,  \* _current_day, _file_no, _current_size; its stream and buffer
  restarts, \* restarts of the process so far
  faults    \* failures of the disk so far

vars == <<today, events, file, open, handler, restarts, faults>>

\* A line has a text and a newline.
Sizes  == 2 .. MaxLine
Days   == 1 .. MaxDay
Files  == Days \X (0 .. MaxEvents)
At(h)  == <<h.day, h.no>>

Init ==
  /\ today = 1
  /\ events = <<>>
  /\ file = [f \in Files |-> <<>>]
  /\ open = FALSE
  /\ handler = [day |-> 1, no |-> 0, size |-> 0, buffer |-> <<>>, closed |-> FALSE]
  /\ restarts = 0
  /\ faults = 0

-----------------------------------------------------------------------------
(***************************************************************************)
(* Writing.                                                                *)
(***************************************************************************)
\* The last byte is the newline.
Line(i, s) == [k \in 1 .. s |-> <<i, k>>]

\* Mutant: an opened file counts as empty.
OpenedUnmeasured(f) ==
  [day |-> f[1], no |-> f[2], size |-> 0, buffer |-> <<>>, closed |-> FALSE]

\* _open_new_file: in append mode, counting what the file already holds.
Opened(f) ==
  [day |-> f[1], no |-> f[2], size |-> Len(file[f]), buffer |-> <<>>, closed |-> FALSE]

\* _ensure_initialized: a process makes its handler with its first event.
Held == IF open THEN handler ELSE Opened(<<today, 0>>)

\* Mutant: off by one.
FullByOne == Held.size > MaxBytes

Full == Held.size >= MaxBytes

\* _rotate_if_needed: at most one file further per event.
MustRotate == Held.day # today \/ Full

Target ==
  IF Held.day # today THEN <<today, 0>>
  ELSE IF Full THEN <<Held.day, Held.no + 1>> ELSE At(Held)

\* Mutant: a file is opened for writing anew.
AppendedAnew(files, f, bytes) ==
  [files EXCEPT ![f] = IF MustRotate /\ f = Target THEN bytes ELSE @ \o bytes]

Appended(files, f, bytes) == [files EXCEPT ![f] = @ \o bytes]

\* The handler and the files once the right file is open: closing the old one
\* has written what was left in its buffer.
Current == IF MustRotate THEN Opened(Target) ELSE Held
Settled == IF MustRotate THEN Appended(file, At(Held), Held.buffer) ELSE file

\* The bytes that the write of a line has to bring to the disk, oldest first.
Queue(s) == Current.buffer \o Line(Len(events) + 1, s)

Logged(u, s, b) ==
  /\ Len(events) < MaxEvents
  /\ events' = Append(events, [user |-> u, size |-> s, ok |-> b])
  /\ UNCHANGED <<today, restarts>>

LogEvent(u, s) ==
  /\ Logged(u, s, TRUE)
  /\ MustRotate \/ ~Held.closed
  /\ open' = TRUE
  /\ file' = Appended(Settled, Target, Queue(s))
  /\ handler' = [Current EXCEPT !.size = @ + s, !.buffer = <<>>]
  /\ UNCHANGED faults

\* flush() raises after k bytes, and the line is not counted.
WriteFails(u, s) ==
  /\ Logged(u, s, FALSE)
  /\ MustRotate \/ ~Held.closed
  /\ open' = TRUE
  /\ \E k \in 0 .. Len(Queue(s)) - 1 :
       /\ file' = Appended(Settled, Target, SubSeq(Queue(s), 1, k))
       /\ handler' = [Current EXCEPT !.buffer = SubSeq(Queue(s), k + 1, Len(Queue(s)))]
  /\ faults' = faults + 1

\* open() raises: the handler has noted the new file already, but keeps the
\* old stream, which is closed.
OpenFails(u, s) ==
  /\ Logged(u, s, FALSE)
  /\ MustRotate
  /\ open' = TRUE
  /\ file' = Settled
  /\ handler' = [Opened(Target) EXCEPT !.size = 0, !.closed = TRUE]
  /\ faults' = faults + 1

\* JSONLHandler() raises, and the next event tries again.
MakeFails(u, s) ==
  /\ Logged(u, s, FALSE)
  /\ ~open
  /\ faults' = faults + 1
  /\ UNCHANGED <<file, open, handler>>

\* close() raises, whether or not it had something to write, and drops what it
\* could not write; the file stays noted.
CloseFails(u, s) ==
  /\ Logged(u, s, FALSE)
  /\ open /\ MustRotate
  /\ \E k \in 0 .. Len(handler.buffer) :
       file' = Appended(file, At(handler), SubSeq(handler.buffer, 1, k))
  /\ handler' = [handler EXCEPT !.buffer = <<>>, !.closed = TRUE]
  /\ faults' = faults + 1
  /\ UNCHANGED open

\* Writing to a closed stream raises, until the day or the process changes.
WriteToClosed(u, s) ==
  /\ Logged(u, s, FALSE)
  /\ ~MustRotate /\ Held.closed
  /\ UNCHANGED <<file, open, handler, faults>>

\* A buffer is written at an orderly exit and lost when the process is killed.
Restart ==
  /\ restarts < MaxRestarts
  /\ restarts' = restarts + 1
  /\ open' = FALSE
  /\ \E k \in 0 .. Len(handler.buffer) :
       file' = Appended(file, At(handler), SubSeq(handler.buffer, 1, k))
  /\ handler' = [handler EXCEPT !.buffer = <<>>]
  /\ UNCHANGED <<today, events, faults>>

Midnight ==
  /\ today < MaxDay
  /\ today' = today + 1
  /\ UNCHANGED <<events, file, open, handler, restarts, faults>>

DiskFails(u, s) ==
  /\ faults < MaxFaults
  /\ WriteFails(u, s) \/ OpenFails(u, s) \/ MakeFails(u, s) \/ CloseFails(u, s)

Next ==
  \/ \E u \in Users, s \in Sizes :
       LogEvent(u, s) \/ DiskFails(u, s) \/ WriteToClosed(u, s)
  \/ Restart
  \/ Midnight

Spec == Init /\ [][Next]_vars

-----------------------------------------------------------------------------
(***************************************************************************)
(* Reading.                                                                *)
(***************************************************************************)
SizeOf(i) == events[i].size

\* The line of event i stands in file f after the first p bytes ...
StandsAt(i, f, p) ==
  /\ p + SizeOf(i) <= Len(file[f])
  /\ \A k \in 1 .. SizeOf(i) : file[f][p + k] = <<i, k>>

\* A line ends with the first p bytes of file f.
Ends(f, p) == p = 0 \/ file[f][p][2] = SizeOf(file[f][p][1])

\* The text of event i ends file f after p bytes, and its newline is not there.
EndsWithText(i, f, p) ==
  /\ p + SizeOf(i) = Len(file[f]) + 1
  /\ \A k \in 1 .. SizeOf(i) - 1 : file[f][p + k] = <<i, k>>

\* Mutant: reading stops at a line that is not JSON.
ReadsAtUntilTorn(i, f, p) ==
  /\ StandsAt(i, f, p)
  /\ \A q \in 1 .. p : StandsAt(file[f][q][1], f, q - file[f][q][2])

\* json.loads accepts a line that is the text of one event and nothing else: the
\* newline is stripped before, and the last line of a file may lack it.
ReadsAt(i, f, p) ==
  /\ StandsAt(i, f, p) \/ EndsWithText(i, f, p)
  /\ Ends(f, p)

\* The places where a line starts, <<file, first byte>>, and the event there.
Places     == UNION {{f} \X (1 .. Len(file[f])) : f \in Files}
EventAt(x) == file[x[1]][x[2]][1]

\* The entries that a reader of what concerns us meets.
Met(us) ==
  {x \in Places : /\ ReadsAt(EventAt(x), x[1], x[2] - 1)
                  /\ events[EventAt(x)].user \in us}

\* It comes to y after x: the files are read by name, the last one first, and
\* each from its start.
After(y, x) ==
  \/ y[1][1] < x[1][1]
  \/ y[1][1] = x[1][1] /\ y[1][2] < x[1][2]
  \/ y[1] = x[1] /\ y[2] > x[2]

\* Mutant: the limit is applied before the filter.
ReadLastEntries(us, limit) ==
  {x \in Met(us) : Cardinality({y \in Met(Users) : After(y, x)}) < limit}

\* entries[-limit:]
ReadLogEntries(us, limit) ==
  {x \in Met(us) : Cardinality({y \in Met(us) : After(y, x)}) < limit}

-----------------------------------------------------------------------------
Bytes == (DOMAIN events) \X (1 .. MaxLine)

Handlers == [day : 1 .. today, no : 0 .. Len(events), size : Nat,
             buffer : Seq(Bytes), closed : BOOLEAN]

\* Types; and an open handler knows the length of its file, with the bytes
\* still in the buffer, up to the lines whose writing failed.
TypeOK ==
  /\ today \in Days
  /\ events \in Seq([user : Users, size : Sizes, ok : BOOLEAN])
  /\ Len(events) <= MaxEvents
  /\ file \in [Files -> Seq(Bytes)]
  /\ open \in BOOLEAN
  /\ handler \in Handlers
  /\ restarts \in 0 .. MaxRestarts
  /\ faults \in 0 .. MaxFaults
  /\ ~open \/ handler.closed => handler.buffer = <<>>
  /\ open /\ ~handler.closed =>
       LET written == Len(file[At(handler)]) + Len(handler.buffer)
       IN  handler.size <= written /\ written <= handler.size + MaxLine * faults

\* When log_event has returned, the whole line is on disk, and stays there:
\* reopening, rotating, the change of the day, and a disk that fails before or
\* after overwrite nothing and tear no line that was reported as written.
NothingLost ==
  \A i \in DOMAIN events :
    events[i].ok => \E f \in Files : \E p \in 0 .. Len(file[f]) : StandsAt(i, f, p)

Readable(i) == \E f \in Files : \E p \in 0 .. Len(file[f]) : ReadsAt(i, f, p)

\* A line can be written and yet not be read, when it continues a torn one:
\* that happens to at most one line for each failure of the disk.
FewUnreadable ==
  Cardinality({i \in DOMAIN events : events[i].ok /\ ~Readable(i)}) <= faults

\* What a reader has met once it meets again, at the same place: no write, no
\* reopening and no failure moves or hides the entry.  Excepted is only an entry
\* whose log_event raised and whose newline is missing: it can be read as long as
\* nothing follows it.
Permanent ==
  [][\A x \in Met(Users) :
       \/ x \in Met(Users)' /\ EventAt(x)' = EventAt(x)
       \/ ~events[EventAt(x)].ok /\ EndsWithText(EventAt(x), x[1], x[2] - 1)]_vars

\* A user whose entries are not more than the limit reads all of them, once
\* each, however many of others lie between them or after them.
OwnLogComplete ==
  \A u \in Users :
    LET own  == {i \in DOMAIN events : events[i].user = u /\ Readable(i)}
        read == ReadLogEntries({u}, MaxLimit)
    IN  Cardinality(own) <= MaxLimit =>
          /\ {EventAt(x) : x \in read} = own
          /\ Cardinality(read) = Cardinality(own)

\* A file holds less than MAX_BYTES (logging_setup.py 11) before its last line,
\* except for one more line per restart, whose process moves through the full
\* files of the day one event at a time, and one per line that failed.
SizeBounded ==
  \A f \in Files : Len(file[f]) < MaxBytes + MaxLine * (1 + restarts + faults)

\* README.md 194: "Read full audit log".  The event logged last is among those
\* that the largest read returns.
LatestReadable ==
  events # <<>> => \E x \in ReadLogEntries(Users, MaxLimit) : EventAt(x) = Len(events)

=============================================================================
