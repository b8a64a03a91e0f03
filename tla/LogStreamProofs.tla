--------------------------- MODULE LogStreamProofs ---------------------------
(***************************************************************************)
(* Theorems about LogStream, for any tail, rate and bounds.                *)
(***************************************************************************)
EXTENDS LogStream, FiniteSetTheorems, SequenceTheorems, TLAPS

\* Every piece delivered or held back is of a line the container has written.
Known ==
    /\ next <= Len(log) + 1
    /\ half => next <= Len(log)
    /\ \A k \in 1 .. Len(rest) : rest[k][1] \in 1 .. Len(log)

\* The log is in the order of time, and the resume point is not in the future.
Timely ==
    /\ \A i \in 1 .. Len(log) : log[i] <= clock
    /\ \A i, j \in 1 .. Len(log) : i <= j => log[i] <= log[j]
    /\ since <= clock

Typed == TypeOK /\ Known

\* The resume points that a published chunk may leave.
Stamps(chunk) == {log[chunk[1][1]], clock}

Covered(i) == i \in 1 .. Len(log) /\ (i \in Seen \/ OutOfReach(i))

\* What lies before a resume point that is the time of a line, or before a piece
\* that is held back (of an earlier stream, possibly), needs no further delivery.
Resume ==
    /\ jump = 0 => \A i \in 1 .. Len(log) : log[i] < since => Covered(i)
    /\ \A k \in 1 .. Len(rest) : \A i \in 1 .. rest[k][1] - 1 : Covered(i)

\* The suppressed lines no note has reported are the last ones decided.
Trailing ==
    /\ limit.dropped <= Len(out)
    /\ \A j \in Len(out) - limit.dropped + 1 .. Len(out) : out[j].what = "dropped"
    /\ limit.dropped < Len(out) => out[Len(out) - limit.dropped].what # "dropped"

-----------------------------------------------------------------------------
\* What _emit appends: everything before stays, and the chunk is decided.
LEMMA EmitAppends ==
    ASSUME Typed, NEW chunk \in Seq(Piece), Emit(chunk)
    PROVE  /\ out' \in Seq(Decision)
           /\ Len(out) < Len(out')
           /\ \A k \in 1 .. Len(out) : out'[k] = out[k]
           /\ out'[Len(out')].what \in {"line", "dropped"}
           /\ out'[Len(out')].chunk = chunk
<1> DEFINE line == [what |-> "line", chunk |-> chunk]
           drop == [what |-> "dropped", chunk |-> chunk]
           note == [what |-> "note", count |-> limit.dropped]
<1>1. line \in Decision /\ drop \in Decision
  BY DEF Decision
<1>2. out \in Seq(Decision) /\ limit.dropped \in Nat
  BY DEF Typed, TypeOK
<1>3. note \in Decision
  BY <1>2 DEF Decision
<1>4. CASE ~Allowed
  <2>1. out' = Append(out, drop)
    BY <1>4 DEF Emit
  <2>. QED
    BY <2>1, <1>1, <1>2
<1>5. CASE Allowed /\ Unreported = 0
  <2>1. out' = out \o <<>> \o <<line>>
    BY <1>5 DEF Emit, Note
  <2>. QED
    BY <2>1, <1>1, <1>2
<1>6. CASE Allowed /\ Unreported # 0
  <2>1. out' = out \o <<note>> \o <<line>>
    BY <1>6 DEF Emit, Note, Unreported
  <2>. QED
    BY <2>1, <1>1, <1>2, <1>3
<1>. QED
  BY <1>4, <1>5, <1>6

\* What a sequence over S holds is in S.
LEMMA Element ==
    ASSUME NEW S, NEW s \in Seq(S), NEW i \in 1 .. Len(s)
    PROVE  s[i] \in S
OBVIOUS

\* ... and what becomes of the limiter and the resume point.
LEMMA EmitTypes ==
    ASSUME Typed, StreamAssumption, NEW chunk \in Seq(Piece), chunk # <<>>,
           chunk[1][1] \in 1 .. Len(log), Emit(chunk)
    PROVE  /\ limit' \in [window : 0 .. MaxTime, count : Nat, dropped : Nat]
           /\ since' \in 0 .. MaxTime /\ jump' \in {0, since'}
           /\ \/ since' = since /\ jump' = jump
              \/ since' = log[chunk[1][1]]
              \/ since' = clock /\ jump' # 0
<1>1. /\ clock \in 1 .. MaxTime /\ since \in 0 .. MaxTime /\ jump \in {0, since}
      /\ limit \in [window : 0 .. MaxTime, count : Nat, dropped : Nat]
      /\ log[chunk[1][1]] \in 1 .. MaxTime
  <2>1. log \in Seq(1 .. MaxTime) /\ chunk[1][1] \in 1 .. Len(log)
    BY DEF Typed, TypeOK
  <2>2. log[chunk[1][1]] \in 1 .. MaxTime
    BY <2>1, Element
  <2>. QED
    BY <2>2 DEF Typed, TypeOK
<1>2. CountNow \in Nat
  BY <1>1 DEF CountNow
<1>3. \A n \in Nat : Counted(n) \in [window : 0 .. MaxTime, count : Nat, dropped : Nat]
  BY <1>1, <1>2, StreamAssumption DEF Counted
<1>4. limit' = limit \/ limit' = Counted(0) \/ limit' = Counted(limit.dropped + 1)
  BY DEF Emit, Unreported
<1>5. limit.dropped + 1 \in Nat /\ 0 \in Nat
  BY <1>1
<1>6. limit' \in [window : 0 .. MaxTime, count : Nat, dropped : Nat]
  BY <1>1, <1>3, <1>4, <1>5
<1>7. /\ jump' \in {0, since'}
      /\ \/ since' = since /\ jump' = jump
         \/ since' = log[chunk[1][1]]
         \/ since' = clock /\ jump' # 0
  <2>1. CASE Allowed
    <3>1. PICK timed \in Timings(chunk) : /\ since' = Stamp(chunk, timed)
                                          /\ jump' = IF timed THEN 0 ELSE clock
      BY <2>1 DEF Emit
    <3>2. timed \in BOOLEAN
      BY DEF Timings
    <3> QED BY <1>1, <3>1, <3>2 DEF Stamp
  <2>2. CASE ~Allowed
    BY <1>1, <2>2 DEF Emit, resume
  <2> QED BY <2>1, <2>2
<1>8. log[chunk[1][1]] \in 0 .. MaxTime /\ clock \in 0 .. MaxTime
  BY <1>1, StreamAssumption
<1>. QED
  BY <1>1, <1>6, <1>7, <1>8

\* The chunks that reach _emit.
LEMMA Chunks ==
    ASSUME Typed
    PROVE  /\ half => /\ <<next, "rest">> \in Piece
                      /\ Append(rest, <<next, "rest">>) \in Seq(Piece)
                      /\ Append(rest, <<next, "rest">>) # <<>>
                      /\ Append(rest, <<next, "rest">>)[1][1] \in 1 .. Len(log)
           /\ rest # <<>> => rest \in Seq(Piece) /\ rest[1][1] \in 1 .. Len(log)
<1>1. /\ rest \in Seq(Piece) /\ next \in 1 .. MaxLines + 1
      /\ Len(log) \in Nat /\ Len(log) <= MaxLines
  BY DEF Typed, TypeOK
<1>2. ASSUME half
      PROVE  /\ <<next, "rest">> \in Piece
             /\ Append(rest, <<next, "rest">>) \in Seq(Piece)
             /\ Append(rest, <<next, "rest">>) # <<>>
             /\ Append(rest, <<next, "rest">>)[1][1] \in 1 .. Len(log)
  <2>1. next \in 1 .. MaxLines /\ next \in 1 .. Len(log)
    BY <1>1, <1>2, StreamAssumption DEF Typed, Known, StreamAssumption
  <2>2. <<next, "rest">> \in Piece
    BY <2>1 DEF Piece
  <2>3. CASE rest = <<>>
    BY <1>1, <2>1, <2>2, <2>3
  <2>4. CASE rest # <<>>
    <3>1. Append(rest, <<next, "rest">>)[1] = rest[1] /\ 1 \in 1 .. Len(rest)
      BY <1>1, <2>2, <2>4
    <3>. QED
      BY <1>1, <2>2, <3>1 DEF Typed, Known
  <2>. QED
    BY <2>3, <2>4, <2>2
<1>3. ASSUME rest # <<>>
      PROVE  rest[1][1] \in 1 .. Len(log)
  BY <1>1, <1>3 DEF Typed, Known
<1>. QED
  BY <1>1, <1>2, <1>3

-----------------------------------------------------------------------------
LEMMA InitTyped == ASSUME StreamAssumption, Init PROVE Typed
<1>1. /\ clock \in 1 .. MaxTime /\ since \in 0 .. MaxTime /\ next \in 1 .. MaxLines + 1
      /\ faults \in 0 .. MaxFaults /\ gone \in 0 .. MaxGone
      /\ log \in Seq(1 .. MaxTime) /\ Len(log) = 0 /\ Len(log) <= MaxLines
  BY DEF Init, StreamAssumption
<1>2. limit \in [window : 0 .. MaxTime, count : Nat, dropped : Nat]
  BY DEF Init, NewLimiter, StreamAssumption
<1>a. rest \in Seq(Piece) /\ Len(rest) = 0
  BY DEF Init
<1>b. out \in Seq(Decision)
  BY DEF Init
<1>c. opened \in SUBSET [size : 0 .. MaxLines, from : 0 .. MaxTime] /\ bare \in SUBSET (1 .. MaxLines)
  BY DEF Init
<1>d. half = FALSE /\ at = "open" /\ next = 1
  BY DEF Init
<1>3. /\ rest \in Seq(Piece) /\ Len(rest) = 0 /\ out \in Seq(Decision)
      /\ ~half /\ half \in BOOLEAN
      /\ at \in {"open", "read", "check", "gone"} /\ next = 1
  BY <1>a, <1>b, <1>d
<1>e. jump \in {0, since}
  BY DEF Init
<1>4. TypeOK
  BY <1>1, <1>2, <1>3, <1>c, <1>e DEF TypeOK
<1>5. Known
  BY <1>1, <1>3 DEF Known
<1>. QED
  BY <1>4, <1>5 DEF Typed

LEMMA StepTyped == ASSUME StreamAssumption, Typed, [Next]_vars PROVE Typed'
<1>1. /\ clock \in 1 .. MaxTime /\ since \in 0 .. MaxTime
      /\ log \in Seq(1 .. MaxTime) /\ Len(log) \in Nat /\ Len(log) <= MaxLines
      /\ limit \in [window : 0 .. MaxTime, count : Nat, dropped : Nat]
      /\ rest \in Seq(Piece) /\ next \in 1 .. MaxLines + 1 /\ half \in BOOLEAN
      /\ out \in Seq(Decision) /\ opened \in SUBSET [size : 0 .. MaxLines, from : 0 .. MaxTime]
      /\ bare \in SUBSET (1 .. MaxLines) /\ jump \in {0, since}
      /\ faults \in 0 .. MaxFaults /\ gone \in 0 .. MaxGone
      /\ at \in {"open", "read", "check", "gone"}
  BY DEF Typed, TypeOK
<1>2. /\ next <= Len(log) + 1 /\ (half => next <= Len(log))
      /\ \A k \in 1 .. Len(rest) : rest[k][1] \in 1 .. Len(log)
  BY DEF Typed, Known
<1>3. CASE Write
  <2>1. /\ log' = Append(log, clock) /\ Len(log) < MaxLines
        /\ UNCHANGED <<clock, at, since, jump, limit, rest, next, half, out, opened, faults, gone>>
    BY <1>3 DEF Write, follower, resume, stream, counters
  <2>2. log' \in Seq(1 .. MaxTime) /\ Len(log') = Len(log) + 1
    BY <1>1, <2>1
  <2>3. \A k \in 1 .. Len(rest) : rest[k][1] \in 1 .. Len(log) + 1
    BY <1>1, <1>2
  <2>4. bare' \in SUBSET (1 .. MaxLines)
    <3>1. Len(log) + 1 \in 1 .. MaxLines
      BY <1>1, <2>1, StreamAssumption DEF StreamAssumption
    <3> QED BY <1>1, <1>3, <3>1 DEF Write
  <2>. QED
    BY <1>1, <1>2, <2>1, <2>2, <2>3, <2>4, StreamAssumption DEF Typed, TypeOK, Known, StreamAssumption
<1>4. CASE Tick
  BY <1>1, <1>2, <1>4, StreamAssumption
     DEF Tick, Typed, TypeOK, Known, follower, resume, written, stream, counters, StreamAssumption
<1>5. CASE Open
  <2>1. /\ at' = "read" /\ next' \in 1 .. Len(log) + 1 /\ half' = FALSE
        /\ opened' = opened \cup {[size |-> Len(log), from |-> jump]}
        /\ UNCHANGED <<clock, log, bare, since, jump, limit, rest, out, faults, gone>>
    BY <1>5 DEF Open, counters, written, resume
  <2>2. Len(log) \in 0 .. MaxLines /\ jump \in 0 .. MaxTime
    BY <1>1, StreamAssumption DEF StreamAssumption
  <2>3. opened' \in SUBSET [size : 0 .. MaxLines, from : 0 .. MaxTime]
    BY <1>1, <2>1, <2>2
  <2>4. next' \in 1 .. MaxLines + 1
    BY <1>1, <2>1, StreamAssumption DEF StreamAssumption
  <2>5. TypeOK'
    BY <1>1, <2>1, <2>3, <2>4 DEF TypeOK
  <2>6. Known'
    BY <1>1, <1>2, <2>1 DEF Known
  <2>. QED
    BY <2>5, <2>6 DEF Typed
<1>6. CASE OpenFails \/ Break \/ Present \/ Absent
  <2>1. /\ at' \in {"open", "read", "check", "gone"}
        /\ UNCHANGED <<clock, log, bare, since, jump, limit, rest, next, half, out, opened>>
    BY <1>6 DEF OpenFails, Break, Present, Absent, stream, counters, written, resume
  <2>2. faults' \in 0 .. MaxFaults /\ gone' \in 0 .. MaxGone
    <3>1. CASE OpenFails \/ Break
      BY <1>1, <3>1, StreamAssumption DEF OpenFails, Break, Fault
    <3>2. CASE Present
      BY <1>1, <3>2 DEF Present, counters
    <3>3. CASE Absent
      BY <1>1, <3>3, StreamAssumption DEF Absent, counters
    <3>. QED
      BY <1>6, <3>1, <3>2, <3>3
  <2>3. TypeOK'
    BY <1>1, <2>1, <2>2 DEF TypeOK
  <2>4. Known'
    BY <1>1, <1>2, <2>1 DEF Known
  <2>. QED
    BY <2>3, <2>4 DEF Typed
<1>7. CASE FeedHead
  <2>1. /\ next <= Len(log) /\ half' = TRUE /\ rest' = Append(rest, <<next, "head">>)
        /\ UNCHANGED <<clock, log, bare, at, since, jump, limit, next, out, opened, faults, gone>>
    BY <1>7 DEF FeedHead, counters, written, resume
  <2>2. <<next, "head">> \in Piece /\ next \in 1 .. Len(log)
    BY <1>1, <2>1, StreamAssumption DEF Piece, StreamAssumption
  <2>3. rest' \in Seq(Piece)
    BY <1>1, <2>1, <2>2
  <2>4. \A k \in 1 .. Len(rest') : rest'[k][1] \in 1 .. Len(log)
    <3>. TAKE k \in 1 .. Len(rest')
    <3>1. CASE k \in 1 .. Len(rest)
      BY <1>1, <1>2, <2>1, <2>2, <3>1
    <3>2. CASE k = Len(rest) + 1
      BY <1>1, <2>1, <2>2, <3>2
    <3>. QED
      <4>1. Len(rest') = Len(rest) + 1
        BY <1>1, <2>1, <2>2
      <4>2. k \in 1 .. Len(rest) \/ k = Len(rest) + 1
        BY <1>1, <4>1
      <4>. QED
        BY <4>2, <3>1, <3>2
  <2>. QED
    BY <1>1, <1>2, <2>1, <2>2, <2>3, <2>4 DEF Typed, TypeOK, Known
<1>8. CASE FeedLine
  <2>. DEFINE chunk == Append(rest, <<next, "rest">>)
  <2>1. /\ half /\ half' = FALSE /\ next' = next + 1 /\ Emit(chunk) /\ rest' = <<>>
        /\ UNCHANGED <<clock, log, bare, at, opened, faults, gone>>
    BY <1>8 DEF FeedLine, counters, written
  <2>2. chunk \in Seq(Piece) /\ chunk # <<>> /\ chunk[1][1] \in 1 .. Len(log)
    BY <2>1, Chunks
  <2>. HIDE DEF chunk
  <2>3. /\ limit' \in [window : 0 .. MaxTime, count : Nat, dropped : Nat]
        /\ since' \in 0 .. MaxTime /\ jump' \in {0, since'} /\ out' \in Seq(Decision)
    BY <2>1, <2>2, EmitTypes, EmitAppends
  <2>4. next' \in 1 .. MaxLines + 1 /\ next' <= Len(log) + 1
    BY <1>1, <1>2, <2>1, StreamAssumption DEF StreamAssumption
  <2>a. half' \in BOOLEAN
    BY <2>1
  <2>b. rest' = <<>>
    BY <2>1
  <2>c. rest' \in Seq(Piece)
    BY <2>b
  <2>5. TypeOK'
    BY <1>1, <2>1, <2>3, <2>4, <2>a, <2>c DEF TypeOK
  <2>6. Len(rest') = 0
    BY <2>1
  <2>7. Known'
    BY <1>1, <2>1, <2>4, <2>6 DEF Known
  <2>. QED
    BY <2>5, <2>7 DEF Typed
<1>9. CASE End
  <2>1. /\ at' = "check" /\ rest' = <<>> /\ Fault
        /\ UNCHANGED <<clock, log, bare, next, half, opened, gone>>
    BY <1>9 DEF End, Flushed, stream, written
  <2>2. faults' \in 0 .. MaxFaults
    BY <1>1, <2>1, StreamAssumption DEF Fault, StreamAssumption
  <2>3. /\ limit' \in [window : 0 .. MaxTime, count : Nat, dropped : Nat]
        /\ since' \in 0 .. MaxTime /\ jump' \in {0, since'} /\ out' \in Seq(Decision)
    <3>1. CASE rest # <<>> /\ Emit(rest)
      BY <1>1, <3>1, Chunks, EmitTypes, EmitAppends
    <3>. QED
      BY <1>1, <1>9, <3>1 DEF End, resume
  <2>. QED
    BY <1>1, <1>2, <2>1, <2>2, <2>3 DEF Typed, TypeOK, Known
<1>10. CASE Respawn
  <2>1. /\ at' = "open" /\ since' = 0 /\ jump' = 0 /\ limit' = NewLimiter /\ rest' = <<>>
        /\ out' = Append(out, [what |-> "new"])
        /\ UNCHANGED <<clock, log, bare, next, half, opened, faults, gone>>
    BY <1>10 DEF Respawn, stream, counters, written
  <2>2. [what |-> "new"] \in Decision
    BY DEF Decision
  <2>3. out' \in Seq(Decision)
    BY <1>1, <2>1, <2>2
  <2>. QED
    BY <1>1, <1>2, <2>1, <2>3, StreamAssumption
       DEF Typed, TypeOK, Known, NewLimiter, StreamAssumption
<1>11. CASE UNCHANGED vars
  BY <1>1, <1>2, <1>11 DEF vars, follower, resume, written, stream, counters, Typed, TypeOK, Known
<1>. QED
  BY <1>3, <1>4, <1>5, <1>6, <1>7, <1>8, <1>9, <1>10, <1>11 DEF Next, Step

\* The follower, its buffer and its limiter keep their types: no piece is of a
\* line that was not written, and no line beyond the log is read.
THEOREM TypeCorrect == Spec => []TypeOK
<1>1. Init => Typed
  BY InitTyped, StreamAssumption
<1>2. Typed /\ [Next]_vars => Typed'
  BY StepTyped, StreamAssumption
<1>3. Typed => TypeOK
  BY DEF Typed
<1>. QED
  BY <1>1, <1>2, <1>3, PTL DEF Spec

-----------------------------------------------------------------------------
(* No gap.                                                                 *)

LEMMA InitTimely == ASSUME StreamAssumption, Init PROVE Timely
BY DEF Timely, Init, StreamAssumption

LEMMA StepTimely == ASSUME StreamAssumption, Typed, Timely, [Next]_vars PROVE Timely'
<1>1. /\ clock \in 1 .. MaxTime /\ since \in 0 .. MaxTime
      /\ log \in Seq(1 .. MaxTime) /\ Len(log) \in Nat
  BY DEF Typed, TypeOK
<1>2. /\ \A i \in 1 .. Len(log) : log[i] <= clock
      /\ \A i, j \in 1 .. Len(log) : i <= j => log[i] <= log[j]
      /\ since <= clock
  BY DEF Timely
<1>3. CASE Write
  <2>1. log' = Append(log, clock) /\ UNCHANGED <<clock, since>>
    BY <1>3 DEF Write, follower, resume
  <2>2. /\ Len(log') = Len(log) + 1 /\ log'[Len(log) + 1] = clock
        /\ \A i \in 1 .. Len(log) : log'[i] = log[i]
    BY <1>1, <2>1
  <2>3. \A i \in 1 .. Len(log') : i \in 1 .. Len(log) \/ i = Len(log) + 1
    BY <1>1, <2>2
  <2>4. \A i \in 1 .. Len(log') : log'[i] <= clock
    BY <1>1, <1>2, <2>2, <2>3
  <2>5. ASSUME NEW i \in 1 .. Len(log'), NEW j \in 1 .. Len(log'), i <= j
        PROVE  log'[i] <= log'[j]
    <3>1. CASE j = Len(log) + 1
      BY <2>2, <2>4, <3>1
    <3>2. CASE j # Len(log) + 1
      <4>1. i \in 1 .. Len(log) /\ j \in 1 .. Len(log)
        BY <1>1, <2>2, <2>3, <2>5, <3>2
      <4>. QED
        BY <1>2, <2>2, <2>5, <4>1
    <3>. QED
      BY <3>1, <3>2
  <2>. QED
    BY <1>2, <2>1, <2>4, <2>5 DEF Timely
<1>4. CASE Tick
  <2>1. clock' = clock + 1 /\ UNCHANGED <<log, since>>
    BY <1>4 DEF Tick, follower, resume, written
  <2>. QED
    BY <1>1, <1>2, <2>1 DEF Timely
<1>5. ASSUME clock' = clock, log' = log,
             since' = since \/ since' = 0 \/ since' = clock \/ \E i \in 1 .. Len(log) : since' = log[i]
      PROVE  Timely'
  BY <1>1, <1>2, <1>5 DEF Timely
<1>6. CASE Open \/ OpenFails \/ FeedHead \/ Break \/ Present \/ Absent \/ Respawn \/ UNCHANGED vars
  BY <1>5, <1>6 DEF Open, OpenFails, FeedHead, Break, Present, Absent, Respawn, vars, follower,
                    resume, written
<1>7. CASE FeedLine
  BY <1>5, <1>7, Chunks, EmitTypes DEF FeedLine, written
<1>8. CASE End
  <2>1. clock' = clock /\ log' = log
    BY <1>8 DEF End, written
  <2>2. CASE rest # <<>> /\ Emit(rest)
    BY <1>5, <2>1, <2>2, Chunks, EmitTypes
  <2>. QED
    BY <1>5, <1>8, <2>1, <2>2 DEF End, resume
<1>. QED
  BY <1>3, <1>4, <1>6, <1>7, <1>8 DEF Next, Step

\* What is covered stays covered while the log, the decisions and the history of
\* openings only grow.
LEMMA CoveredStays ==
    ASSUME Typed, Typed', Len(log) <= Len(log'), Len(out) <= Len(out'),
           \A k \in 1 .. Len(log) : log'[k] = log[k],
           \A k \in 1 .. Len(out) : out'[k] = out[k], opened \subseteq opened',
           NEW i, Covered(i)
    PROVE  Covered(i)'
<1>1. /\ log \in Seq(1 .. MaxTime) /\ log' \in Seq(1 .. MaxTime)
      /\ out \in Seq(Decision) /\ out' \in Seq(Decision)
  BY DEF Typed, TypeOK
<1>a. i \in 1 .. Len(log) /\ i \in 1 .. Len(log')
  BY <1>1 DEF Covered
<1>2. CASE i \in Seen
  <2>1. i \in 1 .. Len(log')
    BY <1>a
  <2>2. PICK k \in Emitted : \E p \in 1 .. Len(out[k].chunk) : out[k].chunk[p] = <<i, "rest">>
    BY <1>2 DEF Seen
  <2>3. k \in 1 .. Len(out) /\ out[k].what \in {"line", "dropped"}
    BY <2>2 DEF Emitted
  <2>4. k \in 1 .. Len(out') /\ out'[k] = out[k]
    BY <1>1, <2>3
  <2>5. k \in Emitted'
    BY <2>3, <2>4 DEF Emitted
  <2>6. i \in Seen'
    BY <2>1, <2>2, <2>4, <2>5 DEF Seen
  <2>. QED
    BY <1>a, <2>6 DEF Covered
<1>3. CASE OutOfReach(i)
  BY <1>a, <1>3 DEF Covered, OutOfReach
<1>. QED
  BY <1>2, <1>3 DEF Covered

\* A decision on a chunk with the rest of a line delivers that line.
LEMMA EmitSees ==
    ASSUME Typed, NEW chunk \in Seq(Piece), Emit(chunk), log' = log,
           NEW i \in 1 .. Len(log), NEW p \in 1 .. Len(chunk), chunk[p] = <<i, "rest">>
    PROVE  i \in Seen'
<1>1. Len(out') \in 1 .. Len(out')
  <2>1. out \in Seq(Decision)
    BY DEF Typed, TypeOK
  <2>. QED
    BY <2>1, EmitAppends
<1>2. Len(out') \in Emitted'
  BY <1>1, EmitAppends DEF Emitted
<1>. QED
  BY <1>2, EmitAppends DEF Seen

LEMMA InitCoverage == ASSUME StreamAssumption, Init PROVE Resume /\ NoGapWithinTail
<1>1. Len(log) = 0 /\ Len(rest) = 0 /\ next = 1
  BY DEF Init
<1>. QED
  BY <1>1 DEF Resume, NoGapWithinTail

LEMMA StepCoverage ==
    ASSUME StreamAssumption, Typed, Typed', Timely, Resume, NoGapWithinTail, [Next]_vars
    PROVE  Resume' /\ NoGapWithinTail'
<1>1. /\ clock \in 1 .. MaxTime /\ since \in 0 .. MaxTime
      /\ log \in Seq(1 .. MaxTime) /\ Len(log) \in Nat
      /\ rest \in Seq(Piece) /\ next \in 1 .. MaxLines + 1 /\ next <= Len(log) + 1
      /\ out \in Seq(Decision) /\ jump \in {0, since} /\ FollowTail \in Nat
  <2>1. /\ clock \in 1 .. MaxTime /\ since \in 0 .. MaxTime
        /\ log \in Seq(1 .. MaxTime)
        /\ rest \in Seq(Piece) /\ next \in 1 .. MaxLines + 1
        /\ out \in Seq(Decision) /\ jump \in {0, since}
    BY DEF Typed, TypeOK
  <2>2. next <= Len(log) + 1
    BY DEF Typed, Known
  <2>3. Len(log) \in Nat
    BY <2>1
  <2>4. FollowTail \in Nat
    BY DEF StreamAssumption
  <2> QED BY <2>1, <2>2, <2>3, <2>4
<1>2. /\ \A i \in 1 .. Len(log) : log[i] <= clock
      /\ \A i, j \in 1 .. Len(log) : i <= j => log[i] <= log[j]
      /\ since <= clock
  BY DEF Timely
<1>3. /\ jump = 0 => \A i \in 1 .. Len(log) : log[i] < since => Covered(i)
      /\ \A k \in 1 .. Len(rest) : \A i \in 1 .. rest[k][1] - 1 : Covered(i)
      /\ \A i \in 1 .. next - 1 : Covered(i)
  <2>1. \A i \in 1 .. next - 1 : i \in 1 .. Len(log)
    BY <1>1
  <2> QED BY <2>1 DEF Resume, NoGapWithinTail, Covered
<1>4. ASSUME /\ jump' = 0 => \A i \in 1 .. Len(log') : log'[i] < since' => Covered(i)'
             /\ \A k \in 1 .. Len(rest') : \A i \in 1 .. rest'[k][1] - 1 : Covered(i)'
             /\ \A i \in 1 .. next' - 1 : Covered(i)'
      PROVE  Resume' /\ NoGapWithinTail'
  BY <1>4 DEF Resume, NoGapWithinTail, Covered
<1>5. CASE Write
  <2>1. log' = Append(log, clock) /\ UNCHANGED <<since, jump, rest, next, out, opened>>
    BY <1>5 DEF Write, follower, resume, stream
  <2>2. /\ Len(log') = Len(log) + 1 /\ log'[Len(log) + 1] = clock
        /\ \A i \in 1 .. Len(log) : log'[i] = log[i]
    BY <1>1, <2>1
  <2>3. \A i : Covered(i) => Covered(i)'
    BY <1>1, <2>1, <2>2, CoveredStays
  <2>4. ASSUME NEW i \in 1 .. Len(log'), log'[i] < since'
        PROVE  i \in 1 .. Len(log) /\ log[i] < since
    <3>1. since \in Nat /\ clock \in Nat /\ since <= clock /\ since' = since
      BY <1>1, <1>2, <2>1
    <3>2. i # Len(log) + 1
      BY <2>2, <2>4, <3>1
    <3>3. i \in 1 .. Len(log)
      BY <1>1, <2>2, <3>2
    <3>. QED
      BY <2>2, <2>4, <3>1, <3>3
  <2>. QED
    BY <1>3, <1>4, <2>1, <2>3, <2>4
<1>6. CASE Tick \/ OpenFails \/ Break \/ Present \/ Absent \/ UNCHANGED vars
  <2>1. UNCHANGED <<log, since, jump, rest, next, out, opened>>
    BY <1>6 DEF Tick, OpenFails, Break, Present, Absent, vars, follower, stream, resume, written
  <2>2. \A i : Covered(i) => Covered(i)'
    BY <1>1, <2>1, CoveredStays
  <2>. QED
    BY <1>3, <1>4, <2>1, <2>2
<1>7. CASE Open
  <2>1. /\ opened' = opened \cup {[size |-> Len(log), from |-> jump]}
        /\ UNCHANGED <<log, since, jump, rest, out>>
    BY <1>7 DEF Open, written, resume
  <2>2. PICK n \in 1 .. Len(log) + 1 : Starts(n) /\ next' = n
    BY <1>7 DEF Open
  <2>3. \A i : Covered(i) => Covered(i)'
    BY <1>1, <2>1, CoveredStays
  <2>4. ASSUME NEW i \in 1 .. next' - 1
        PROVE  Covered(i)'
    <3>1. i \in 1 .. Len(log) /\ n - 1 \in 1 .. Len(log) /\ i <= n - 1 /\ n > 1
      BY <1>1, <2>2, <2>4
    <3>2. n - 1 + FollowTail <= Len(log) \/ log[n - 1] < since
      <4>1. ~(SinceTail(n - 1) /\ SinceStamp(n - 1))
        BY <2>2, <3>1 DEF Starts
      <4>2. log[n - 1] \in 1 .. MaxTime
        BY <1>1, <3>1
      <4>. QED
        BY <1>1, <2>2, <4>1, <4>2 DEF SinceTail, SinceStamp
    <3>3. CASE n - 1 + FollowTail <= Len(log)
      <4>1. i + FollowTail <= Len(log) /\ [size |-> Len(log), from |-> jump] \in opened'
        BY <1>1, <2>1, <3>1, <3>3
      <4>2. OutOfReach(i)'
        BY <4>1 DEF OutOfReach
      <4>. QED
        BY <2>1, <3>1, <4>2 DEF Covered
    <3>4. CASE log[n - 1] < since
      <4>1. log[i] <= log[n - 1]
        BY <1>2, <3>1
      <4>2. log[i] \in 1 .. MaxTime /\ log[n - 1] \in 1 .. MaxTime
        BY <1>1, <3>1, Element
      <4>3. log[i] < since
        BY <1>1, <3>4, <4>1, <4>2
      <4>4. CASE jump = 0
        BY <1>3, <2>3, <3>1, <4>3, <4>4
      <4>5. CASE jump # 0
        <5>1. log'[i] < jump /\ [size |-> Len(log), from |-> jump] \in opened'
          BY <1>1, <2>1, <4>3, <4>5
        <5>2. OutOfReach(i)'
          BY <5>1 DEF OutOfReach
        <5> QED BY <2>1, <3>1, <5>2 DEF Covered
      <4>. QED
        BY <4>4, <4>5
    <3>. QED
      BY <3>2, <3>3, <3>4
  <2>. QED
    BY <1>3, <1>4, <2>1, <2>3, <2>4
<1>8. CASE FeedHead
  <2>1. /\ next <= Len(log) /\ rest' = Append(rest, <<next, "head">>)
        /\ UNCHANGED <<log, since, jump, next, out, opened>>
    BY <1>8 DEF FeedHead, written, resume
  <2>2. <<next, "head">> \in Piece
    BY <1>1, <2>1, StreamAssumption DEF Piece, StreamAssumption, Typed, TypeOK
  <2>3. /\ Len(rest') = Len(rest) + 1 /\ rest'[Len(rest) + 1] = <<next, "head">>
        /\ \A k \in 1 .. Len(rest) : rest'[k] = rest[k]
    BY <1>1, <2>1, <2>2
  <2>4. \A i : Covered(i) => Covered(i)'
    BY <1>1, <2>1, CoveredStays
  <2>5. \A k \in 1 .. Len(rest') : k \in 1 .. Len(rest) \/ k = Len(rest) + 1
    <3>1. Len(rest) \in Nat /\ Len(rest') = Len(rest) + 1
      BY <1>1, <2>3
    <3>. QED
      BY <3>1
  <2>6. \A k \in 1 .. Len(rest') : \A i \in 1 .. rest'[k][1] - 1 : Covered(i)'
    BY <1>3, <2>3, <2>4, <2>5
  <2>. QED
    BY <1>3, <1>4, <2>1, <2>4, <2>6
\* A published chunk: what is older than its first piece was covered.
<1>9. ASSUME NEW chunk \in Seq(Piece), chunk # <<>>, chunk[1][1] \in 1 .. Len(log), Emit(chunk),
             \A i \in 1 .. chunk[1][1] - 1 : Covered(i),
             log' = log, opened' = opened
      PROVE  /\ \A i : Covered(i) => Covered(i)'
             /\ jump' = 0 => \A i \in 1 .. Len(log') : log'[i] < since' => Covered(i)'
  <2>1. \A i : Covered(i) => Covered(i)'
    <3>1. Len(out) <= Len(out') /\ \A k \in 1 .. Len(out) : out'[k] = out[k]
      <4>1. Len(out) < Len(out') /\ \A k \in 1 .. Len(out) : out'[k] = out[k]
        BY <1>9, EmitAppends
      <4>2. Len(out) \in Nat /\ Len(out') \in Nat
        <5>1. out \in Seq(Decision) /\ out' \in Seq(Decision)
          BY <1>1, <1>9, EmitAppends
        <5>. QED
          BY <5>1, LenProperties
      <4>. QED
        BY <4>1, <4>2
    <3>2. /\ Len(log) <= Len(log') /\ \A k \in 1 .. Len(log) : log'[k] = log[k]
          /\ opened \subseteq opened'
      BY <1>1, <1>9
    <3>. QED
      BY <3>1, <3>2, CoveredStays
  <2>2. \/ since' = since /\ jump' = jump
        \/ since' = log[chunk[1][1]]
        \/ jump' # 0
    BY <1>9, EmitTypes
  <2>3. \A i \in 1 .. Len(log) : log[i] < log[chunk[1][1]] => i \in 1 .. chunk[1][1] - 1
    <3>. SUFFICES ASSUME NEW i \in 1 .. Len(log), log[i] < log[chunk[1][1]]
                  PROVE  i \in 1 .. chunk[1][1] - 1
      OBVIOUS
    <3>1. log[i] \in 1 .. MaxTime /\ log[chunk[1][1]] \in 1 .. MaxTime
      BY <1>1, <1>9, Element
    <3>2. ~(chunk[1][1] <= i)
      BY <1>2, <1>9, <3>1
    <3>. QED
      BY <1>1, <1>9, <3>2
  <2>. QED
    BY <1>3, <1>9, <2>1, <2>2, <2>3
<1>10. CASE FeedLine
  <2>. DEFINE chunk == Append(rest, <<next, "rest">>)
  <2>1. /\ half /\ next' = next + 1 /\ Emit(chunk) /\ rest' = <<>>
        /\ log' = log /\ opened' = opened
    BY <1>10 DEF FeedLine, written
  <2>2. /\ <<next, "rest">> \in Piece /\ chunk \in Seq(Piece) /\ chunk # <<>>
        /\ chunk[1][1] \in 1 .. Len(log)
    BY <2>1, Chunks
  <2>3. /\ Len(chunk) = Len(rest) + 1 /\ chunk[Len(rest) + 1] = <<next, "rest">>
        /\ \A k \in 1 .. Len(rest) : chunk[k] = rest[k]
    BY <1>1, <2>2
  <2>4. chunk[1] = <<next, "rest">> \/ (1 \in 1 .. Len(rest) /\ chunk[1] = rest[1])
    <3>1. Len(rest) = 0 \/ 1 \in 1 .. Len(rest)
      BY <1>1
    <3>. QED
      BY <2>3, <3>1
  <2>. HIDE DEF chunk
  <2>5. \A i \in 1 .. chunk[1][1] - 1 : Covered(i)
    BY <1>3, <2>4
  <2>6. /\ \A i : Covered(i) => Covered(i)'
        /\ jump' = 0 => \A i \in 1 .. Len(log') : log'[i] < since' => Covered(i)'
    BY <1>9, <2>1, <2>2, <2>5
  <2>7. \A i : i = next => Covered(i)'
    <3>1. next \in 1 .. Len(log) /\ Len(rest) + 1 \in 1 .. Len(chunk)
      BY <1>1, <2>1, <2>3 DEF Typed, Known
    <3>2. next \in Seen'
      BY <2>1, <2>2, <2>3, <3>1, EmitSees
    <3>. QED
      BY <2>1, <3>1, <3>2 DEF Covered
  <2>8. \A i \in 1 .. next' - 1 : i \in 1 .. next - 1 \/ i = next
    BY <1>1, <2>1
  <2>9. \A i \in 1 .. next' - 1 : Covered(i)'
    BY <1>3, <2>6, <2>7, <2>8
  <2>10. Len(rest') = 0
    BY <2>1
  <2>. QED
    BY <1>4, <2>6, <2>9, <2>10
<1>11. CASE End
  <2>1. /\ rest' = <<>> /\ next' = next /\ log' = log /\ opened' = opened
    BY <1>11 DEF End, Flushed, stream, written
  <2>2. /\ \A i : Covered(i) => Covered(i)'
        /\ jump' = 0 => \A i \in 1 .. Len(log') : log'[i] < since' => Covered(i)'
    <3>1. CASE rest # <<>> /\ Emit(rest)
      <4>1. rest[1][1] \in 1 .. Len(log) /\ 1 \in 1 .. Len(rest)
        BY <1>1, <3>1, Chunks
      <4>2. \A i \in 1 .. rest[1][1] - 1 : Covered(i)
        BY <1>3, <4>1
      <4>. QED
        BY <1>1, <1>9, <2>1, <3>1, <4>1, <4>2
    <3>2. CASE UNCHANGED <<since, jump, limit, out>>
      <4>1. \A i : Covered(i) => Covered(i)'
        BY <1>1, <2>1, <3>2, CoveredStays
      <4>. QED
        BY <1>3, <2>1, <3>2, <4>1
    <3>. QED
      BY <1>11, <3>1, <3>2 DEF End, resume
  <2>3. Len(rest') = 0
    BY <2>1
  <2>. QED
    BY <1>3, <1>4, <2>1, <2>2, <2>3
<1>12. CASE Respawn
  <2>1. /\ since' = 0 /\ rest' = <<>> /\ out' = Append(out, [what |-> "new"])
        /\ UNCHANGED <<log, next, opened>>
    BY <1>12 DEF Respawn, stream, written
  <2>2. Len(out') = Len(out) + 1 /\ \A k \in 1 .. Len(out) : out'[k] = out[k]
    BY <1>1, <2>1 DEF Decision
  <2>3. \A i : Covered(i) => Covered(i)'
    <3>1. Len(out) <= Len(out') /\ Len(log) <= Len(log')
      BY <1>1, <2>1, <2>2
    <3>. QED
      BY <2>1, <2>2, <3>1, CoveredStays
  <2>4. \A i \in 1 .. Len(log) : ~(log[i] < 0)
    BY <1>1
  <2>5. Len(rest') = 0
    BY <2>1
  <2>. QED
    BY <1>3, <1>4, <2>1, <2>3, <2>4, <2>5
<1>. QED
  BY <1>5, <1>6, <1>7, <1>8, <1>10, <1>11, <1>12 DEF Next, Step

\* A line the follower passed over is seen, or was out of reach at some opening:
\* beyond the tail, or before a resume point that a line without a timestamp had
\* set; whatever breaks, ends and suppressed lines there were.
THEOREM NothingIsSkipped == Spec => []NoGapWithinTail
<1> DEFINE Inv == Typed /\ Timely /\ Resume /\ NoGapWithinTail
<1>1. Init => Inv
  BY InitTyped, InitTimely, InitCoverage, StreamAssumption
<1>2. Inv /\ [Next]_vars => Inv'
  BY StepTyped, StepTimely, StepCoverage, StreamAssumption
<1>3. Inv => NoGapWithinTail
  OBVIOUS
<1>. QED
  BY <1>1, <1>2, <1>3, PTL DEF Spec

-----------------------------------------------------------------------------
(* Suppressed lines.                                                       *)

\* NotesFillTheGaps for one decision of a sequence of them.
Fills(o, k) ==
    LET Run(n) == n < k /\ \A j \in k - n .. k - 1 : o[j].what = "dropped"
    IN  /\ o[k].what = "line" => ~Run(1)
        /\ o[k].what = "note" => o[k].count > 0 /\ Run(o[k].count) /\ ~Run(o[k].count + 1)

\* Without a limit nothing is ever suppressed.
Unlimited == MaxRate = 0 => limit.dropped = 0

\* It depends on what was decided before only.
LEMMA FillsStay ==
    ASSUME NEW s \in Seq(Decision), NEW t \in Seq(Decision), Len(s) <= Len(t),
           \A j \in 1 .. Len(s) : t[j] = s[j], NEW k \in 1 .. Len(s), Fills(s, k)
    PROVE  Fills(t, k)
<1>1. t[k] = s[k] /\ s[k] \in Decision /\ k \in Nat
  OBVIOUS
<1>2. s[k].what = "note" => s[k].count \in Nat
  BY <1>1 DEF Decision
<1>3. \A n \in Nat : n < k =>
          ((\A j \in k - n .. k - 1 : t[j].what = "dropped") <=>
           (\A j \in k - n .. k - 1 : s[j].what = "dropped"))
  <2>. SUFFICES ASSUME NEW n \in Nat, n < k
                PROVE  \A j \in k - n .. k - 1 : t[j] = s[j]
    OBVIOUS
  <2>1. \A j \in k - n .. k - 1 : j \in 1 .. Len(s)
    OBVIOUS
  <2>. QED
    BY <2>1
<1>4. 1 \in Nat /\ (s[k].what = "note" => s[k].count + 1 \in Nat)
  BY <1>2
<1>. QED
  BY <1>1, <1>2, <1>3, <1>4 DEF Fills

\* A decision that is appended.
LEMMA FillsAppend ==
    ASSUME NEW s \in Seq(Decision), NEW d \in Decision, \A k \in 1 .. Len(s) : Fills(s, k),
           Fills(Append(s, d), Len(s) + 1)
    PROVE  \A k \in 1 .. Len(Append(s, d)) : Fills(Append(s, d), k)
<1>1. /\ Append(s, d) \in Seq(Decision) /\ Len(Append(s, d)) = Len(s) + 1
      /\ \A j \in 1 .. Len(s) : Append(s, d)[j] = s[j]
  OBVIOUS
<1>2. \A k \in 1 .. Len(s) : Fills(Append(s, d), k)
  <2>1. Len(s) <= Len(Append(s, d))
    BY <1>1
  <2>. QED
    BY <1>1, <2>1, FillsStay
<1>3. \A k \in 1 .. Len(s) + 1 : k \in 1 .. Len(s) \/ k = Len(s) + 1
  OBVIOUS
<1>. QED
  BY <1>1, <1>2, <1>3

Noted == Trailing /\ Unlimited /\ NotesFillTheGaps

LEMMA InitNoted == ASSUME StreamAssumption, Init PROVE Noted
<1>1. Len(out) = 0 /\ limit.dropped = 0
  BY DEF Init, NewLimiter
<1>. QED
  BY <1>1 DEF Noted, Trailing, Unlimited, NotesFillTheGaps

LEMMA EmitNoted ==
    ASSUME StreamAssumption, Typed, Noted, NEW chunk \in Seq(Piece), Emit(chunk)
    PROVE  Noted'
<1>. DEFINE line == [what |-> "line", chunk |-> chunk]
            drop == [what |-> "dropped", chunk |-> chunk]
            note == [what |-> "note", count |-> limit.dropped]
            d == limit.dropped
            L == Len(out)
<1>1. out \in Seq(Decision) /\ d \in Nat /\ L \in Nat
  BY DEF Typed, TypeOK
<1>2. /\ d <= L
      /\ \A j \in L - d + 1 .. L : out[j].what = "dropped"
      /\ d < L => out[L - d].what # "dropped"
  BY DEF Noted, Trailing
<1>3. \A k \in 1 .. L : Fills(out, k)
  BY DEF Noted, NotesFillTheGaps, Fills
<1>4. line \in Decision /\ drop \in Decision /\ note \in Decision
  BY <1>1 DEF Decision
<1>5. ASSUME \A k \in 1 .. Len(out') : Fills(out', k)
      PROVE  NotesFillTheGaps'
  BY <1>5 DEF NotesFillTheGaps, Fills
<1>6. CASE ~Allowed
  <2>1. out' = Append(out, drop) /\ limit'.dropped = d + 1
    BY <1>6 DEF Emit, Counted, Unreported
  <2>2. MaxRate # 0
    BY <1>6 DEF Allowed
  <2>3. /\ Len(out') = L + 1 /\ out'[L + 1] = drop
        /\ \A j \in 1 .. L : out'[j] = out[j]
    BY <1>1, <1>4, <2>1
  <2>4. Fills(Append(out, drop), L + 1)
    BY <2>1, <2>3 DEF Fills
  <2>5. NotesFillTheGaps'
    BY <1>1, <1>3, <1>4, <1>5, <2>1, <2>4, FillsAppend
  <2>6. Trailing'
    <3>1. limit'.dropped <= Len(out')
      BY <1>1, <1>2, <2>1, <2>3
    <3>2. \A j \in Len(out') - limit'.dropped + 1 .. Len(out') : out'[j].what = "dropped"
      <4>1. \A j \in Len(out') - limit'.dropped + 1 .. Len(out') :
                j = L + 1 \/ (j \in L - d + 1 .. L /\ j \in 1 .. L)
        BY <1>1, <1>2, <2>1, <2>3
      <4>. QED
        BY <1>2, <2>3, <4>1
    <3>3. limit'.dropped < Len(out') => out'[Len(out') - limit'.dropped].what # "dropped"
      <4>1. Len(out') - limit'.dropped = L - d
        <5>1. Len(out') = L + 1 /\ limit'.dropped = d + 1
          BY <2>1, <2>3
        <5>2. \A a, b \in Nat : a = L + 1 /\ b = d + 1 => a - b = L - d
          BY <1>1
        <5>3. Len(out') \in Nat /\ limit'.dropped \in Nat
          BY <1>1, <5>1
        <5>. QED
          BY <5>1, <5>2, <5>3
      <4>2. limit'.dropped < Len(out') => L - d \in 1 .. L /\ d < L
        BY <1>1, <2>1, <2>3
      <4>. QED
        BY <1>2, <2>3, <4>1, <4>2
    <3>. QED
      BY <3>1, <3>2, <3>3 DEF Trailing
  <2>. QED
    BY <2>2, <2>5, <2>6 DEF Noted, Unlimited
<1>7. CASE Allowed
  <2>1. limit'.dropped = 0
    BY <1>7 DEF Emit, Counted, Noted, Unlimited
  <2>2. ASSUME Len(out') \in Nat \ {0}, out'[Len(out')] = line
        PROVE  Trailing' /\ Unlimited'
    BY <2>1, <2>2 DEF Trailing, Unlimited
  <2>3. CASE d = 0
    <3>1. out' = Append(out, line)
      BY <1>1, <1>4, <1>7, <2>3 DEF Emit, Note, Unreported
    <3>2. /\ Len(out') = L + 1 /\ out'[L + 1] = line
          /\ \A j \in 1 .. L : out'[j] = out[j]
      BY <1>1, <1>4, <3>1
    <3>3. Fills(Append(out, line), L + 1)
      <4>1. 1 < L + 1 => out'[L].what # "dropped"
        BY <1>1, <1>2, <2>3, <3>2
      <4>2. L \in L + 1 - 1 .. L + 1 - 1
        BY <1>1
      <4>. QED
        BY <3>1, <3>2, <4>1, <4>2 DEF Fills
    <3>. QED
      BY <1>1, <1>3, <1>4, <1>5, <2>2, <3>1, <3>2, <3>3, FillsAppend DEF Noted
  <2>4. CASE d # 0
    <3>. DEFINE mid == Append(out, note)
    <3>1. out' = Append(mid, line)
      <4>1. out' = out \o <<note>> \o <<line>>
        BY <1>7, <2>4 DEF Emit, Note, Unreported
      <4>. QED
        BY <1>1, <1>4, <4>1
    <3>2. /\ mid \in Seq(Decision) /\ Len(mid) = L + 1 /\ mid[L + 1] = note
          /\ \A j \in 1 .. L : mid[j] = out[j]
      BY <1>1, <1>4
    <3>3. Fills(mid, L + 1)
      <4>1. d > 0 /\ d < L + 1
        BY <1>1, <1>2, <2>4
      <4>2. \A j \in L + 1 - d .. L + 1 - 1 : mid[j].what = "dropped"
        <5>1. \A j \in L + 1 - d .. L + 1 - 1 : j \in L - d + 1 .. L /\ j \in 1 .. L
          BY <1>1, <1>2
        <5>. QED
          BY <1>2, <3>2, <5>1
      <4>3. d + 1 < L + 1 => mid[L - d].what # "dropped" /\ L - d \in L + 1 - (d + 1) .. L + 1 - 1
        BY <1>1, <1>2, <3>2
      <4>4. mid[L + 1].what = "note" /\ mid[L + 1].count = d
        BY <3>2
      <4>5. ~(d + 1 < L + 1 /\ \A j \in L + 1 - (d + 1) .. L + 1 - 1 : mid[j].what = "dropped")
        BY <4>3
      <4>. HIDE DEF mid
      <4>. QED
        BY <1>1, <4>1, <4>2, <4>4, <4>5 DEF Fills
    <3>4. \A k \in 1 .. Len(mid) : Fills(mid, k)
      BY <1>1, <1>3, <1>4, <3>3, FillsAppend
    <3>. HIDE DEF mid
    <3>5. /\ Len(out') = L + 2 /\ out'[L + 2] = line /\ out'[L + 1] = note
      BY <1>1, <1>4, <3>1, <3>2
    <3>6. Fills(out', L + 2)
      <4>1. L + 1 \in L + 2 - 1 .. L + 2 - 1
        BY <1>1
      <4>. QED
        BY <3>5, <4>1 DEF Fills
    <3>7. Len(mid) + 1 = L + 2
      BY <1>1, <3>2
    <3>8. \A k \in 1 .. Len(out') : Fills(out', k)
      BY <1>4, <3>1, <3>2, <3>4, <3>6, <3>7, FillsAppend
    <3>9. Len(out') \in Nat \ {0}
      BY <1>1, <3>5
    <3>. QED
      BY <1>5, <2>2, <3>5, <3>8, <3>9 DEF Noted
  <2>. QED
    BY <2>3, <2>4
<1>. QED
  BY <1>6, <1>7

LEMMA StepNoted == ASSUME StreamAssumption, Typed, Noted, [Next]_vars PROVE Noted'
<1>1. CASE UNCHANGED <<limit, out>>
  BY <1>1 DEF Noted, Trailing, Unlimited, NotesFillTheGaps
<1>2. CASE FeedLine
  BY <1>2, Chunks, EmitNoted DEF FeedLine
<1>3. CASE rest # <<>> /\ Emit(rest)
  BY <1>3, Chunks, EmitNoted
<1>4. CASE Respawn
  <2>1. out' = Append(out, [what |-> "new"]) /\ limit'.dropped = 0
    BY <1>4 DEF Respawn, NewLimiter
  <2>2. [what |-> "new"] \in Decision /\ out \in Seq(Decision) /\ Len(out) \in Nat
    BY DEF Decision, Typed, TypeOK
  <2>3. Len(out') = Len(out) + 1 /\ out'[Len(out) + 1] = [what |-> "new"]
    BY <2>1, <2>2
  <2>4. Fills(Append(out, [what |-> "new"]), Len(out) + 1)
    BY <2>1, <2>3 DEF Fills
  <2>5. \A k \in 1 .. Len(out) : Fills(out, k)
    BY DEF Noted, NotesFillTheGaps, Fills
  <2>6. \A k \in 1 .. Len(out') : Fills(out', k)
    BY <2>1, <2>2, <2>4, <2>5, FillsAppend
  <2>7. NotesFillTheGaps'
    BY <2>6 DEF NotesFillTheGaps, Fills
  <2>8. Trailing'
    BY <2>1, <2>2, <2>3 DEF Trailing
  <2>. QED
    BY <2>1, <2>7, <2>8 DEF Noted, Unlimited
<1>5. Next => FeedLine \/ Respawn \/ (rest # <<>> /\ Emit(rest)) \/ UNCHANGED <<limit, out>>
  BY DEF Next, Step, Write, Tick, Open, OpenFails, FeedHead, Break, End, Present, Absent, follower
<1>6. UNCHANGED vars => UNCHANGED <<limit, out>>
  BY DEF vars, follower
<1>. QED
  BY <1>1, <1>2, <1>3, <1>4, <1>5, <1>6

\* Every run of suppressed lines is followed by a note with its length before the
\* next line is published, and no other note exists (RateLimiter.overflow_note).
THEOREM SuppressionIsReported == Spec => []NotesFillTheGaps
<1>. DEFINE Inv == Typed /\ Noted
<1>1. Init => Inv
  BY InitTyped, InitNoted, StreamAssumption
<1>2. Inv /\ [Next]_vars => Inv'
  BY StepTyped, StepNoted, StreamAssumption
<1>3. Inv => NotesFillTheGaps
  BY DEF Noted
<1>. QED
  BY <1>1, <1>2, <1>3, PTL DEF Spec

-----------------------------------------------------------------------------
(* Lines that are cut or glued together.                                   *)

\* _emit decides on the chunk at the end of out, and adds nothing else but a note.
LEMMA EmitAdds ==
    ASSUME Typed, NEW chunk \in Seq(Piece), Emit(chunk)
    PROVE  /\ Len(out) \in Nat /\ Len(out') \in Nat
           /\ Emitted' = Emitted \cup {Len(out')}
           /\ \A k \in Len(out) + 1 .. Len(out') - 1 : out'[k].what = "note"
           /\ out'[Len(out')].what = "line" => since' \in Stamps(chunk)
           /\ out'[Len(out')].what = "dropped" => since' = since
<1>. DEFINE line == [what |-> "line", chunk |-> chunk]
            drop == [what |-> "dropped", chunk |-> chunk]
            note == [what |-> "note", count |-> limit.dropped]
<1>1. line \in Decision /\ drop \in Decision
  BY DEF Decision
<1>2. out \in Seq(Decision) /\ limit.dropped \in Nat
  BY DEF Typed, TypeOK
<1>3. note \in Decision
  BY <1>2 DEF Decision
<1>s. Allowed => since' \in Stamps(chunk)
  <2>1. SUFFICES ASSUME Allowed PROVE since' \in Stamps(chunk)
    OBVIOUS
  <2>2. PICK timed \in Timings(chunk) : since' = Stamp(chunk, timed)
    BY <2>1 DEF Emit
  <2>. QED
    BY <2>2 DEF Stamp, Stamps
<1>4. /\ \A k \in Len(out) + 1 .. Len(out') - 1 : out'[k].what = "note"
      /\ out'[Len(out')].what = "line" => since' \in Stamps(chunk)
      /\ out'[Len(out')].what = "dropped" => since' = since
  <2>1. CASE ~Allowed
    <3>1. out' = Append(out, drop) /\ since' = since
      BY <2>1 DEF Emit, resume
    <3>2. Len(out') = Len(out) + 1 /\ out'[Len(out')] = drop
      BY <3>1, <1>1, <1>2
    <3>. QED
      BY <3>1, <3>2, <1>2
  <2>2. CASE Allowed /\ Unreported = 0
    <3>1. out' = out \o <<>> \o <<line>> /\ since' \in Stamps(chunk)
      BY <1>s, <2>2 DEF Emit, Note
    <3>2. Len(out') = Len(out) + 1 /\ out'[Len(out')] = line
      BY <3>1, <1>1, <1>2
    <3>. QED
      BY <3>1, <3>2, <1>2
  <2>3. CASE Allowed /\ Unreported # 0
    <3>1. out' = out \o <<note>> \o <<line>> /\ since' \in Stamps(chunk)
      BY <1>s, <2>3 DEF Emit, Note, Unreported
    <3>2. Len(out') = Len(out) + 2 /\ out'[Len(out')] = line /\ out'[Len(out) + 1] = note
      BY <3>1, <1>1, <1>2, <1>3
    <3>3. note.what = "note" /\ line.what = "line" /\ Len(out) \in Nat
      BY <1>2
    <3>. HIDE DEF note, line
    <3>4. \A k \in Len(out) + 1 .. Len(out') - 1 : k = Len(out) + 1
      BY <3>2, <3>3
    <3>. QED
      BY <3>1, <3>2, <3>3, <3>4
  <2>. QED
    BY <2>1, <2>2, <2>3
<1>5. Len(out) \in Nat /\ out' \in Seq(Decision) /\ Len(out') \in Nat
  BY <1>2, EmitAppends
<1>6. ASSUME NEW k \in 1 .. Len(out')
      PROVE  k \in Emitted' <=> (k \in Emitted \/ k = Len(out'))
  <2>1. k \in Emitted' <=> out'[k].what \in {"line", "dropped"}
    BY DEF Emitted
  <2>2. CASE k \in 1 .. Len(out)
    <3>1. out'[k] = out[k] /\ k # Len(out')
      BY <2>2, <1>5, EmitAppends
    <3>. QED
      BY <2>1, <2>2, <3>1 DEF Emitted
  <2>3. CASE k \in Len(out) + 1 .. Len(out') - 1
    BY <1>4, <1>5, <2>1, <2>3 DEF Emitted
  <2>4. CASE k = Len(out')
    BY <2>1, <2>4, EmitAppends
  <2>. QED
    BY <1>5, <2>2, <2>3, <2>4
<1>7. Emitted \subseteq 1 .. Len(out') /\ Len(out') \in 1 .. Len(out') /\ Emitted' \subseteq 1 .. Len(out')
  <2>1. Len(out) < Len(out')
    BY EmitAppends
  <2>. QED
    BY <1>5, <2>1 DEF Emitted
<1>. QED
  BY <1>4, <1>5, <1>6, <1>7

\* LineBuffer puts a piece behind those it holds back.
LEMMA HoldsPieces ==
    /\ \A s \in Seq(Piece), p \in Piece : Append(s, p) # <<>>
    /\ \A p : Append(<<>>, p) = <<p>>
    /\ \A p, q : Append(<<p>>, q) = <<p, q>>
<1>1. ASSUME NEW s \in Seq(Piece), NEW p \in Piece
      PROVE  Append(s, p) # <<>>
  BY AppendProperties, Zenon
<1>2. \A p : Append(<<>>, p) = <<p>>
  OBVIOUS
<1>3. ASSUME NEW p, NEW q
      PROVE  Append(<<p>>, q) = <<p, q>>
  <2>. DEFINE S == {p, q}
  <2>1. <<p>> \in Seq(S) /\ <<p, q>> \in Seq(S) /\ q \in S
    OBVIOUS
  <2>2. Append(<<p>>, q) \in Seq(S) /\ Len(Append(<<p>>, q)) = 2
    BY <2>1
  <2>3. Append(<<p>>, q)[1] = p /\ Append(<<p>>, q)[2] = q
    BY <2>1
  <2>4. Len(<<p, q>>) = 2 /\ \A i \in 1 .. 2 : Append(<<p>>, q)[i] = <<p, q>>[i]
    BY <2>3
  <2>5. Len(Append(<<p>>, q)) = Len(<<p, q>>)
        /\ \A i \in 1 .. Len(Append(<<p>>, q)) : Append(<<p>>, q)[i] = <<p, q>>[i]
    BY <2>2, <2>4
  <2>. QED
    BY <2>1, <2>2, <2>5, SeqEqual, Zenon
<1>. QED
  BY <1>1, <1>2, <1>3

\* The chunks that are not one line.
Broken == {k \in Emitted : ~Whole(out[k].chunk)}

\* The buffer holds a piece of another line than the one that is being read.
Tainted == rest # <<>> /\ ~(at = "read" /\ half /\ rest = <<<<next, "head">>>>)

\* The head of the line that is being read is in the buffer.
HeadHeld == at = "read" /\ half => rest # <<>>

Cuts ==
    /\ HeadHeld
    /\ IsFiniteSet(Broken)
    /\ Cardinality(Broken) + (IF Tainted THEN 1 ELSE 0) <= faults

\* One decision breaks at most one line.
LEMMA EmitBreaks ==
    ASSUME Typed, NEW chunk \in Seq(Piece), Emit(chunk), IsFiniteSet(Broken)
    PROVE  /\ IsFiniteSet(Broken') /\ Cardinality(Broken') \in Nat /\ Cardinality(Broken) \in Nat
           /\ Cardinality(Broken') <= Cardinality(Broken) + 1
           /\ Whole(chunk) => Cardinality(Broken') = Cardinality(Broken)
<1>. DEFINE last == Len(out')
<1>1. \A k \in Emitted : out'[k] = out[k] /\ k # last
  <2>1. \A k \in 1 .. Len(out) : out'[k] = out[k] /\ k # last
    BY EmitAppends, EmitAdds
  <2>. QED
    BY <2>1 DEF Emitted
<1>2. out'[last].chunk = chunk /\ Emitted' = Emitted \cup {last}
  BY EmitAppends, EmitAdds
<1>3. \A c : Whole(c)' = Whole(c)
  BY DEF Whole
<1>4. Broken' = {k \in Emitted' : ~Whole(out'[k].chunk)}
  BY <1>3 DEF Broken
<1>. HIDE DEF last
<1>5. CASE Whole(chunk)
  <2>1. Broken' = Broken
    BY <1>1, <1>2, <1>4, <1>5 DEF Broken
  <2>. QED
    BY <2>1, <1>5, FS_CardinalityType
<1>6. CASE ~Whole(chunk)
  <2>1. Broken' = Broken \cup {last} /\ last \notin Broken
    BY <1>1, <1>2, <1>4, <1>6 DEF Broken
  <2>2. IsFiniteSet(Broken') /\ Cardinality(Broken') = Cardinality(Broken) + 1
    BY <2>1, FS_AddElement
  <2>3. Cardinality(Broken) \in Nat
    BY FS_CardinalityType
  <2>. QED
    BY <2>2, <2>3, <1>6
<1>. QED
  BY <1>5, <1>6

LEMMA InitCuts == ASSUME StreamAssumption, Init PROVE Cuts
<1>1. Broken = {} /\ rest = <<>> /\ ~half /\ faults = 0
  BY DEF Init, Broken, Emitted
<1>. QED
  BY <1>1, FS_EmptySet DEF Cuts, HeadHeld, Tainted

LEMMA StepCuts == ASSUME StreamAssumption, Typed, Cuts, [Next]_vars PROVE Cuts'
<1>1. /\ rest \in Seq(Piece) /\ next \in 1 .. MaxLines + 1 /\ out \in Seq(Decision)
      /\ faults \in Nat /\ Cardinality(Broken) \in Nat
  <2>1. IsFiniteSet(Broken)
    BY DEF Cuts
  <2>. QED
    BY <2>1, FS_CardinalityType, StreamAssumption DEF Typed, TypeOK, StreamAssumption
<1>2. ASSUME Broken' = Broken, faults' >= faults, faults' \in Nat, HeadHeld',
             Tainted' => Tainted \/ faults' > faults
      PROVE  Cuts'
  BY <1>1, <1>2 DEF Cuts
<1>3. ASSUME out' = out
      PROVE  Broken' = Broken
  BY <1>3 DEF Broken, Emitted, Whole
<1>4. CASE Write \/ Tick \/ UNCHANGED vars
  <2>1. UNCHANGED <<at, half, rest, next, out, faults>>
    BY <1>4 DEF Write, Tick, vars, follower, stream, counters
  <2>. QED
    BY <1>1, <1>2, <1>3, <2>1 DEF HeadHeld, Tainted, Cuts
<1>5. CASE Open
  <2>1. /\ at = "open" /\ ~half' /\ UNCHANGED <<rest, out, faults>>
    BY <1>5 DEF Open, counters
  <2>. QED
    BY <1>1, <1>2, <1>3, <2>1 DEF HeadHeld, Tainted
<1>6. CASE OpenFails \/ Break
  <2>1. /\ at' = "check" /\ faults' = faults + 1 /\ UNCHANGED <<rest, out>>
    BY <1>6 DEF OpenFails, Break, Fault
  <2>. QED
    BY <1>1, <1>2, <1>3, <2>1 DEF HeadHeld, Tainted
<1>7. CASE Present \/ Absent
  <2>1. /\ at = "check" /\ at' # "read" /\ UNCHANGED <<rest, out, faults>>
    BY <1>7 DEF Present, Absent, counters
  <2>. QED
    BY <1>1, <1>2, <1>3, <2>1 DEF HeadHeld, Tainted
<1>8. CASE FeedHead
  <2>1. /\ at = "read" /\ ~half /\ half' /\ rest' = Append(rest, <<next, "head">>)
        /\ UNCHANGED <<at, next, out, faults>> /\ next \in 1 .. MaxLines
    BY <1>1, <1>8 DEF FeedHead, counters, Typed, TypeOK
  <2>2. <<next, "head">> \in Piece
    BY <2>1 DEF Piece
  <2>3. rest' # <<>> /\ (rest = <<>> => rest' = <<<<next, "head">>>>)
    BY <1>1, <2>1, <2>2, HoldsPieces
  <2>. QED
    BY <1>1, <1>2, <1>3, <2>1, <2>3 DEF HeadHeld, Tainted
<1>9. CASE FeedLine
  <2>. DEFINE chunk == Append(rest, <<next, "rest">>)
  <2>1. /\ at = "read" /\ half /\ ~half' /\ rest' = <<>> /\ Emit(chunk) /\ faults' = faults
    BY <1>9 DEF FeedLine, counters
  <2>2. chunk \in Seq(Piece) /\ next \in 1 .. MaxLines
    BY <1>1, <2>1, Chunks DEF Piece
  <2>3. rest # <<>> /\ IsFiniteSet(Broken)
    BY <2>1 DEF Cuts, HeadHeld
  <2>4. ~Tainted => Whole(chunk)
    <3>1. SUFFICES ASSUME rest = <<<<next, "head">>>> PROVE Whole(chunk)
      BY <2>1, <2>3 DEF Tainted
    <3>2. chunk = <<<<next, "head">>, <<next, "rest">>>>
      BY <3>1, HoldsPieces
    <3>. QED
      BY <2>2, <3>2 DEF Whole
  <2>. HIDE DEF chunk
  <2>5. /\ IsFiniteSet(Broken') /\ Cardinality(Broken') \in Nat
        /\ Cardinality(Broken') <= Cardinality(Broken) + 1
        /\ Whole(chunk) => Cardinality(Broken') = Cardinality(Broken)
    BY <2>1, <2>2, <2>3, EmitBreaks
  <2>6. HeadHeld' /\ ~Tainted'
    BY <2>1 DEF HeadHeld, Tainted
  <2>. QED
    BY <1>1, <2>1, <2>4, <2>5, <2>6 DEF Cuts
<1>10. CASE End
  <2>1. /\ at' = "check" /\ faults' = faults + 1 /\ rest' = <<>>
    BY <1>10 DEF End, Fault, Flushed
  <2>2. HeadHeld' /\ ~Tainted'
    BY <2>1 DEF HeadHeld, Tainted
  <2>3. CASE rest # <<>> /\ Emit(rest)
    <3>1. IsFiniteSet(Broken)
      BY DEF Cuts
    <3>2. /\ IsFiniteSet(Broken') /\ Cardinality(Broken') \in Nat
          /\ Cardinality(Broken') <= Cardinality(Broken) + 1
      BY <1>1, <2>3, <3>1, EmitBreaks
    <3>. QED
      BY <1>1, <2>1, <2>2, <3>2 DEF Cuts
  <2>4. CASE out' = out
    BY <1>1, <1>2, <1>3, <2>1, <2>2, <2>4
  <2>. QED
    BY <1>10, <2>3, <2>4 DEF End
<1>11. CASE Respawn
  <2>1. /\ at' = "open" /\ rest' = <<>> /\ out' = Append(out, [what |-> "new"]) /\ faults' = faults
    BY <1>11 DEF Respawn, counters
  <2>2. [what |-> "new"] \in Decision
    BY DEF Decision
  <2>3. /\ Len(out') = Len(out) + 1 /\ out'[Len(out) + 1].what = "new"
        /\ \A k \in 1 .. Len(out) : out'[k] = out[k]
    BY <1>1, <2>1, <2>2
  <2>4. Emitted' = Emitted
    BY <1>1, <2>3 DEF Emitted
  <2>5. Broken' = Broken
    BY <2>3, <2>4 DEF Broken, Whole, Emitted
  <2>. QED
    BY <1>1, <1>2, <2>1, <2>5 DEF HeadHeld, Tainted
<1>. QED
  BY <1>4, <1>5, <1>6, <1>7, <1>8, <1>9, <1>10, <1>11 DEF Next, Step

\* A chunk that is not exactly one line was broken by a stream that broke or
\* ended, and each of those breaks one at most (LineBuffer.feed and flush).
THEOREM BreaksAreFaults == Spec => []CutsNeedAFault
<1>1. Init => Typed /\ Cuts
  BY InitTyped, InitCuts, StreamAssumption
<1>2. Typed /\ Cuts /\ [Next]_vars => Typed' /\ Cuts'
  BY StepTyped, StepCuts, StreamAssumption
<1>3. Typed /\ Cuts => CutsNeedAFault
  <2>1. Typed /\ Cuts => faults \in Nat /\ Cardinality(Broken) \in Nat
    BY FS_CardinalityType, StreamAssumption DEF Typed, TypeOK, Cuts, StreamAssumption
  <2>. QED
    BY <2>1 DEF Cuts, CutsNeedAFault, Broken
<1>. QED
  BY <1>1, <1>2, <1>3, PTL DEF Spec

-----------------------------------------------------------------------------
(* Repeated lines.                                                         *)

LineOf(k) == out[k].chunk[1][1]

\* The whole lines published, and those of them that this follower published.
Published == {k \in Emitted : out[k].what = "line" /\ Whole(out[k].chunk)}

Ours == {k \in Published : \A j \in k .. Len(out) : out[j].what # "new"}

\* Nothing the follower has published is younger than its resume point, than the
\* piece it holds back, than what an open stream has still to deliver, or than a
\* line it published later.
Forward ==
    \A k \in Ours :
        /\ LineOf(k) \in 1 .. Len(log)
        /\ log[LineOf(k)] <= since
        /\ rest # <<>> => log[LineOf(k)] <= log[rest[1][1]]
        /\ at = "read" => \A i \in next .. Len(log) : log[LineOf(k)] <= log[i]
        /\ \A m \in Ours : k <= m => log[LineOf(k)] <= log[LineOf(m)]

\* What the follower has published after _emit: what it had, and perhaps this chunk.
LEMMA EmitOurs ==
    ASSUME Typed, NEW chunk \in Seq(Piece), Emit(chunk)
    PROVE  /\ \A k \in Ours' :
                \/ k \in Ours /\ LineOf(k)' = LineOf(k) /\ k < Len(out')
                \/ /\ k = Len(out') /\ Whole(chunk)
                   /\ LineOf(k)' = chunk[1][1] /\ since' \in Stamps(chunk)
           /\ since' = since \/ since' \in Stamps(chunk)
<1>1. /\ Len(out) \in Nat /\ Len(out') \in Nat /\ Len(out) < Len(out')
      /\ Emitted' = Emitted \cup {Len(out')}
      /\ \A k \in 1 .. Len(out) : out'[k] = out[k]
      /\ out'[Len(out')].chunk = chunk
      /\ out'[Len(out')].what = "line" => since' \in Stamps(chunk)
  BY EmitAppends, EmitAdds
<1>2. since' = since \/ since' \in Stamps(chunk)
  BY EmitAppends, EmitAdds
<1>3. \A c : Whole(c)' = Whole(c)
  BY DEF Whole
<1>4. ASSUME NEW k \in Ours'
      PROVE  \/ k \in Ours /\ LineOf(k)' = LineOf(k) /\ k < Len(out')
             \/ /\ k = Len(out') /\ Whole(chunk)
                /\ LineOf(k)' = chunk[1][1] /\ since' \in Stamps(chunk)
  <2>1. /\ k \in Emitted' /\ out'[k].what = "line" /\ Whole(out'[k].chunk)
        /\ \A j \in k .. Len(out') : out'[j].what # "new"
    BY <1>3 DEF Ours, Published
  <2>2. CASE k = Len(out')
    BY <1>1, <2>1, <2>2 DEF LineOf
  <2>3. CASE k \in Emitted
    <3>1. k \in 1 .. Len(out)
      BY <2>3 DEF Emitted
    <3>2. out'[k] = out[k]
      BY <1>1, <3>1
    <3>3. ASSUME NEW j \in k .. Len(out)
          PROVE  out[j].what # "new"
      <4>1. j \in k .. Len(out') /\ j \in 1 .. Len(out)
        BY <1>1, <3>1
      <4>. QED
        BY <1>1, <2>1, <4>1
    <3>4. k \in Ours
      BY <2>1, <2>3, <3>2, <3>3 DEF Ours, Published
    <3>. QED
      BY <1>1, <3>1, <3>2, <3>4 DEF LineOf
  <2>. QED
    BY <1>1, <2>1, <2>2, <2>3
<1>. QED
  BY <1>2, <1>4

\* _emit keeps the order, when the chunk is not older than what was published.
LEMMA EmitForward ==
    ASSUME Typed, Timely, Forward, NEW chunk \in Seq(Piece), Emit(chunk), UNCHANGED log,
           chunk[1][1] \in 1 .. Len(log),
           \A k \in Ours : log[LineOf(k)] <= log[chunk[1][1]]
    PROVE  \A k \in Ours' :
              /\ LineOf(k)' \in 1 .. Len(log)
              /\ log[LineOf(k)'] <= since'
              /\ (k \in Ours /\ LineOf(k)' = LineOf(k)) \/ (Whole(chunk) /\ LineOf(k)' = chunk[1][1])
              /\ \A m \in Ours' : k <= m => log[LineOf(k)'] <= log[LineOf(m)']
<1>1. log \in Seq(1 .. MaxTime)
  BY DEF Typed, TypeOK
<1>2. \A i \in 1 .. Len(log) : log[i] \in Int
  <2>1. \A i \in 1 .. Len(log) : log[i] \in 1 .. MaxTime
    BY <1>1, ElementOfSeq, Zenon
  <2>. QED
    BY <2>1
<1>3. /\ \A k \in Ours' :
            \/ k \in Ours /\ LineOf(k)' = LineOf(k) /\ k < Len(out')
            \/ /\ k = Len(out') /\ Whole(chunk)
               /\ LineOf(k)' = chunk[1][1] /\ since' \in Stamps(chunk)
      /\ since' = since \/ since' \in Stamps(chunk)
  BY EmitOurs
<1>4. /\ \A k \in Ours : LineOf(k) \in 1 .. Len(log) /\ log[LineOf(k)] <= since
      /\ \A k, m \in Ours : k <= m => log[LineOf(k)] <= log[LineOf(m)]
  BY DEF Forward
<1>5. \A s \in Stamps(chunk) : log[chunk[1][1]] <= s
  BY <1>2 DEF Stamps, Timely
<1>9. log[chunk[1][1]] <= log[chunk[1][1]]
  BY <1>2
<1>6. Ours' \subseteq Int /\ Len(out') \in Int
  <2>1. Emitted' \subseteq Int
    BY DEF Emitted
  <2>. QED
    BY <2>1, EmitAdds DEF Ours, Published
<1>7. ASSUME NEW k \in Ours'
      PROVE  /\ LineOf(k)' \in 1 .. Len(log) /\ log[LineOf(k)'] <= since'
             /\ log[LineOf(k)'] <= log[chunk[1][1]]
             /\ (k \in Ours /\ LineOf(k)' = LineOf(k)) \/ (Whole(chunk) /\ LineOf(k)' = chunk[1][1])
  <2>1. CASE k \in Ours /\ LineOf(k)' = LineOf(k)
    <3>1. LineOf(k) \in 1 .. Len(log) /\ log[LineOf(k)] <= since
          /\ log[LineOf(k)] <= log[chunk[1][1]]
      BY <1>4, <2>1
    <3>2. log[LineOf(k)] <= since'
      <4>1. \A x, y, z \in Int : x <= y /\ y <= z => x <= z
        OBVIOUS
      <4>2. log[LineOf(k)] \in Int /\ log[chunk[1][1]] \in Int
        BY <1>2, <3>1
      <4>3. CASE since' = since
        BY <3>1, <4>3
      <4>4. CASE since' \in Stamps(chunk)
        <5>1. log[chunk[1][1]] <= since'
          BY <1>5, <4>4, Zenon
        <5>2. clock \in Int
          BY DEF Typed, TypeOK
        <5>3. since' \in Int
          BY <4>2, <4>4, <5>2 DEF Stamps
        <5>. QED
          BY <3>1, <4>1, <4>2, <5>1, <5>3
      <4>. QED
        BY <1>3, <4>3, <4>4
    <3>. QED
      BY <2>1, <3>1, <3>2, Zenon
  <2>2. CASE Whole(chunk) /\ LineOf(k)' = chunk[1][1] /\ since' \in Stamps(chunk)
    BY <1>5, <1>9, <2>2
  <2>. QED
    BY <1>3, <2>1, <2>2
<1>8. ASSUME NEW k \in Ours', NEW m \in Ours', k <= m
      PROVE  log[LineOf(k)'] <= log[LineOf(m)']
  <2>1. CASE LineOf(m)' = chunk[1][1]
    BY <1>7, <2>1
  <2>2. CASE m \in Ours /\ LineOf(m)' = LineOf(m) /\ m < Len(out')
    <3>1. k # Len(out')
      BY <1>6, <1>8, <2>2
    <3>2. k \in Ours /\ LineOf(k)' = LineOf(k)
      BY <1>3, <3>1
    <3>. QED
      BY <1>4, <1>8, <2>2, <3>2
  <2>. QED
    BY <1>3, <2>1, <2>2
<1>. QED
  BY <1>7, <1>8

LEMMA InitForward == ASSUME StreamAssumption, Init PROVE Forward
BY DEF Init, Forward, Ours, Published, Emitted

LEMMA StepForward ==
    ASSUME StreamAssumption, Typed, Timely, HeadHeld, Forward, [Next]_vars
    PROVE  Forward'
<1>1. /\ rest \in Seq(Piece) /\ next \in 1 .. MaxLines + 1 /\ out \in Seq(Decision)
      /\ log \in Seq(1 .. MaxTime) /\ Len(log) \in Nat /\ clock \in 1 .. MaxTime
      /\ since \in 0 .. MaxTime /\ half \in BOOLEAN
  BY DEF Typed, TypeOK
<1>2. /\ \A i \in 1 .. Len(log) : log[i] \in Int /\ log[i] <= clock
      /\ \A i, j \in 1 .. Len(log) : i <= j => log[i] <= log[j]
  BY <1>1 DEF Timely
<1>3. ASSUME out' = out
      PROVE  Ours' = Ours /\ \A k : LineOf(k)' = LineOf(k)
  BY <1>3 DEF Ours, Published, Emitted, Whole, LineOf
<1>4. CASE Write
  <2>1. log' = Append(log, clock) /\ UNCHANGED <<at, since, rest, next, out>>
    BY <1>4 DEF Write, follower, resume, stream
  <2>2. /\ Len(log') = Len(log) + 1 /\ log'[Len(log) + 1] = clock
        /\ \A i \in 1 .. Len(log) : log'[i] = log[i] /\ i \in 1 .. Len(log')
    BY <1>1, <2>1
  <2>3. rest # <<>> => rest[1][1] \in 1 .. Len(log)
    BY Chunks
  <2>4. ASSUME NEW k \in Ours
        PROVE  /\ LineOf(k) \in 1 .. Len(log')
               /\ log'[LineOf(k)] <= since
               /\ rest # <<>> => log'[LineOf(k)] <= log'[rest[1][1]]
               /\ at = "read" => \A i \in next .. Len(log') : log'[LineOf(k)] <= log'[i]
               /\ \A m \in Ours : k <= m => log'[LineOf(k)] <= log'[LineOf(m)]
    <3>1. LineOf(k) \in 1 .. Len(log) /\ \A m \in Ours : LineOf(m) \in 1 .. Len(log)
      BY DEF Forward
    <3>2. /\ log'[LineOf(k)] <= since
          /\ rest # <<>> => log'[LineOf(k)] <= log'[rest[1][1]]
          /\ \A m \in Ours : k <= m => log'[LineOf(k)] <= log'[LineOf(m)]
      BY <2>2, <2>3, <3>1 DEF Forward
    <3>3. ASSUME at = "read", NEW i \in next .. Len(log')
          PROVE  log'[LineOf(k)] <= log'[i]
      <4>1. CASE i = Len(log) + 1
        BY <1>2, <2>2, <3>1, <4>1
      <4>2. CASE i # Len(log) + 1
        <5>1. i \in next .. Len(log) /\ i \in 1 .. Len(log)
          BY <1>1, <2>2, <4>2, <3>3
        <5>. QED
          BY <2>2, <3>1, <3>3, <5>1 DEF Forward
      <4>. QED
        BY <4>1, <4>2
    <3>. QED
      BY <2>2, <3>1, <3>2, <3>3
  <2>5. Ours' = Ours /\ \A k : LineOf(k)' = LineOf(k)
    BY <1>3, <2>1
  <2>. QED
    BY <2>1, <2>4, <2>5 DEF Forward
<1>5. CASE UNCHANGED <<log, since, rest, next, out>> /\ (at' = "read" => at = "read")
  BY <1>3, <1>5 DEF Forward
<1>6. CASE Open
  <2>1. /\ Starts(next') /\ next' \in 1 .. Len(log) + 1
        /\ UNCHANGED <<log, since, rest, out>>
    BY <1>6 DEF Open, written, resume
  <2>2. \A i \in next' .. Len(log) : log[i] >= since /\ i \in 1 .. Len(log)
    BY <1>1, <2>1 DEF Starts, SinceStamp
  <2>3. ASSUME NEW k \in Ours, NEW i \in next' .. Len(log)
        PROVE  log[LineOf(k)] <= log[i]
    <3>1. LineOf(k) \in 1 .. Len(log) /\ log[LineOf(k)] <= since
      BY DEF Forward
    <3>2. i \in 1 .. Len(log) /\ since <= log[i]
      BY <1>1, <2>2
    <3>3. log[LineOf(k)] \in 1 .. MaxTime /\ log[i] \in 1 .. MaxTime
      BY <1>1, <3>1, <3>2, Element
    <3>. QED
      BY <1>1, <3>1, <3>2, <3>3
  <2>4. Ours' = Ours /\ \A k : LineOf(k)' = LineOf(k)
    BY <1>3, <2>1
  <2>. QED
    BY <2>1, <2>3, <2>4 DEF Forward
<1>7. CASE FeedHead
  <2>1. /\ at = "read" /\ next <= Len(log) /\ rest' = Append(rest, <<next, "head">>)
        /\ UNCHANGED <<log, at, since, next, out>>
    BY <1>7 DEF FeedHead, written, resume
  <2>2. next \in next .. Len(log) /\ <<next, "head">> \in Piece
    <3>1. next \in 1 .. MaxLines /\ next \in next .. Len(log)
      BY <1>1, <2>1 DEF Typed, TypeOK
    <3>. QED
      BY <3>1 DEF Piece
  <2>3. IF rest = <<>> THEN rest'[1] = <<next, "head">> ELSE rest'[1] = rest[1]
    BY <1>1, <2>1, <2>2
  <2>4. ASSUME NEW k \in Ours
        PROVE  log[LineOf(k)] <= log[rest'[1][1]]
    BY <2>1, <2>2, <2>3 DEF Forward
  <2>5. Ours' = Ours /\ \A k : LineOf(k)' = LineOf(k)
    BY <1>3, <2>1
  <2>. QED
    BY <2>1, <2>4, <2>5 DEF Forward
<1>8. CASE FeedLine
  <2>. DEFINE chunk == Append(rest, <<next, "rest">>)
  <2>1. /\ at = "read" /\ half /\ next' = next + 1 /\ Emit(chunk)
        /\ rest' = <<>> /\ UNCHANGED <<log, at>>
    BY <1>8 DEF FeedLine, written
  <2>2. /\ <<next, "rest">> \in Piece /\ chunk \in Seq(Piece)
        /\ chunk[1][1] \in 1 .. Len(log) /\ rest # <<>>
    BY <2>1, Chunks DEF HeadHeld
  <2>3. /\ chunk[1] = rest[1] /\ Len(chunk) = Len(rest) + 1 /\ Len(rest) \in Nat
        /\ chunk[Len(rest) + 1] = <<next, "rest">>
    BY <1>1, <2>2
  <2>4. Whole(chunk) => chunk[1][1] = next
    <3>1. SUFFICES ASSUME NEW i, chunk = <<<<i, "head">>, <<i, "rest">>>>
                   PROVE  chunk[1][1] = next
      BY DEF Whole
    <3>. HIDE DEF chunk
    <3>2. Len(chunk) = 2 /\ chunk[1] = <<i, "head">> /\ chunk[2] = <<i, "rest">>
      BY <3>1
    <3>3. chunk[2] = <<next, "rest">>
      BY <2>3, <3>2
    <3>4. i = next
      BY <3>2, <3>3
    <3>. QED
      BY <3>2, <3>4
  <2>. HIDE DEF chunk
  <2>5. \A k \in Ours : log[LineOf(k)] <= log[chunk[1][1]]
    BY <2>2, <2>3 DEF Forward
  <2>6. \A k \in Ours' :
            /\ LineOf(k)' \in 1 .. Len(log)
            /\ log[LineOf(k)'] <= since'
            /\ (k \in Ours /\ LineOf(k)' = LineOf(k)) \/ (Whole(chunk) /\ LineOf(k)' = chunk[1][1])
            /\ \A m \in Ours' : k <= m => log[LineOf(k)'] <= log[LineOf(m)']
    BY <2>1, <2>2, <2>5, EmitForward
  <2>7. ASSUME NEW k \in Ours', NEW i \in next' .. Len(log)
        PROVE  log[LineOf(k)'] <= log[i]
    <3>1. i \in next .. Len(log) /\ i \in 1 .. Len(log) /\ next \in 1 .. Len(log) /\ next <= i
      BY <1>1, <2>1
    <3>2. CASE k \in Ours /\ LineOf(k)' = LineOf(k)
      BY <2>1, <3>1, <3>2 DEF Forward
    <3>3. CASE LineOf(k)' = next
      BY <1>2, <3>1, <3>3
    <3>. QED
      BY <2>4, <2>6, <3>2, <3>3
  <2>. QED
    BY <2>1, <2>6, <2>7 DEF Forward
<1>9. CASE End
  <2>1. /\ at' = "check" /\ rest' = <<>> /\ UNCHANGED <<log, next>>
    BY <1>9 DEF End, Flushed, stream, written
  <2>2. CASE rest # <<>> /\ Emit(rest)
    <3>1. rest \in Seq(Piece) /\ rest[1][1] \in 1 .. Len(log)
      BY <2>2, Chunks
    <3>2. \A k \in Ours : log[LineOf(k)] <= log[rest[1][1]]
      BY <2>2 DEF Forward
    <3>3. \A k \in Ours' :
              /\ LineOf(k)' \in 1 .. Len(log)
              /\ log[LineOf(k)'] <= since'
              /\ \A m \in Ours' : k <= m => log[LineOf(k)'] <= log[LineOf(m)']
      BY <2>1, <2>2, <3>1, <3>2, EmitForward
    <3>. QED
      BY <2>1, <3>3 DEF Forward
  <2>3. CASE rest = <<>> /\ UNCHANGED <<since, limit, out>>
    <3>1. Ours' = Ours /\ \A k : LineOf(k)' = LineOf(k)
      BY <1>3, <2>3
    <3>. QED
      BY <2>1, <2>3, <3>1 DEF Forward
  <2>. QED
    BY <1>9, <2>2, <2>3 DEF End, resume
<1>10. CASE Respawn
  <2>1. out' = Append(out, [what |-> "new"])
    BY <1>10 DEF Respawn
  <2>2. [what |-> "new"] \in Decision
    BY DEF Decision
  <2>3. Len(out') = Len(out) + 1 /\ out'[Len(out')].what = "new" /\ Len(out) \in Nat
    BY <1>1, <2>1, <2>2
  <2>4. Ours' = {}
    <3>1. SUFFICES ASSUME NEW k \in Ours' PROVE FALSE
      OBVIOUS
    <3>2. k \in 1 .. Len(out') /\ \A j \in k .. Len(out') : out'[j].what # "new"
      BY DEF Ours, Published, Emitted
    <3>. QED
      BY <2>3, <3>2
  <2>. QED
    BY <2>4 DEF Forward
<1>11. ASSUME Tick \/ OpenFails \/ Break \/ Present \/ Absent \/ UNCHANGED vars
       PROVE  UNCHANGED <<log, since, rest, next, out>> /\ (at' = "read" => at = "read")
  BY <1>11 DEF Tick, OpenFails, Break, Present, Absent, vars, follower, resume, stream, written
<1>. QED
  BY <1>4, <1>5, <1>6, <1>7, <1>8, <1>9, <1>10, <1>11 DEF Next, Step

\* A line that is published twice is not younger than any line between the two:
\* reopening at the resume point of _emit goes back within one second only.
THEOREM RepeatsAreTheBoundary == Spec => []RepeatsAreBoundary
<1>. DEFINE Inv == Typed /\ Timely /\ Cuts /\ Forward
<1>1. Init => Inv
  BY InitTyped, InitTimely, InitCuts, InitForward, StreamAssumption
<1>2. Inv /\ [Next]_vars => Inv'
  <2>1. SUFFICES ASSUME Inv, [Next]_vars PROVE Inv'
    OBVIOUS
  <2>2. HeadHeld
    BY <2>1 DEF Cuts
  <2>. QED
    BY <2>1, <2>2, StepTyped, StepTimely, StepCuts, StepForward, StreamAssumption
<1>3. Inv => RepeatsAreBoundary
  <2>1. SUFFICES ASSUME Inv,
                        NEW k \in Published, NEW m \in Published, NEW j \in Published,
                        \A i \in k .. Len(out) : out[i].what # "new",
                        LineOf(k) = LineOf(m), k <= j, j < m
                 PROVE  log[LineOf(j)] <= log[LineOf(m)]
    BY DEF RepeatsAreBoundary, Published, LineOf
  <2>2. k \in Int /\ j \in Int /\ m \in Int
    BY DEF Published, Emitted
  <2>3. j \in Ours /\ m \in Ours
    BY <2>1, <2>2 DEF Ours
  <2>. QED
    BY <2>1, <2>2, <2>3 DEF Forward
<1>. QED
  BY <1>1, <1>2, <1>3, PTL DEF Spec

=============================================================================
