------------------------------ MODULE LogStream ------------------------------
(***************************************************************************)
(* What one container's log goes through on its way to the queue: opening  *)
(* and reopening the following stream (_follow, DockerBackend.follow_logs),*)
(* putting lines together from frames (LineBuffer), the rate limit and its *)
(* note (RateLimiter), and the resume point (_emit).  Threads, closers and *)
(* stop() are in LogFollower, the queue is in LogQueue.                    *)
(*                                                                         *)
(* A line is its number in the container's log.  The stream delivers it in *)
(* two pieces, the head (with the timestamp, if it has one) and the rest   *)
(* (with the newline); a frame is one or more pieces, one step each.  Time *)
(* is in whole seconds, the granularity of since.                          *)
(***************************************************************************)
EXTENDS Naturals, Sequences, FiniteSets

CONSTANTS
    FollowTail,  \* --follow-tail
    MaxRate,     \* --follow-max-lines-per-s; 0 is no limit
    MaxLines,    \* bound: lines the container writes
    MaxBare,     \* bound: those that the runtime gives without a timestamp
    MaxTime,     \* bound: seconds
    MaxFaults,   \* bound: streams that break or end, requests that fail
    MaxGone      \* bound: presence checks that end a follower

ASSUME StreamAssumption ==
    /\ FollowTail \in Nat /\ MaxRate \in Nat
    /\ MaxLines \in Nat /\ MaxBare \in Nat /\ MaxTime \in Nat \ {0}
    /\ MaxFaults \in Nat /\ MaxGone \in Nat

VARIABLES
    clock,   \* the second it is
    log,     \* log[i]: the second in which the container wrote line i
    bare,    \* the lines that the runtime gives without a timestamp
    at,      \* where the follower is in _follow: open, read, check, or gone (ended)
    since,   \* its resume point, 0 for None
    jump,    \* history: since, if it is a time of emission, else 0
    limit,   \* its RateLimiter
    rest,    \* LineBuffer._remainder, as pieces
    next,    \* stream: the line it delivers next
    half,    \* stream: the head of that line has been delivered
    out,     \* everything _emit has decided, in order
    opened,  \* history: the length of the log and jump, whenever a stream was opened
    faults, gone

stream == <<next, half>>
resume == <<since, jump>>
follower == <<at, resume, limit, rest>>
written == <<log, bare>>
counters == <<faults, gone>>
vars == <<clock, written, follower, stream, out, opened, counters>>

Piece == (1 .. MaxLines) \X {"head", "rest"}

\* What _emit does with a chunk, a note that it published, and (history) the
\* place where a new follower begins.
Decision == [what : {"line", "dropped"}, chunk : Seq(Piece)]
                \cup [what : {"note"}, count : Nat] \cup [what : {"new"}]

NewLimiter == [window |-> 0, count |-> 0, dropped |-> 0]

TypeOK ==
    /\ clock \in 1 .. MaxTime
    /\ log \in Seq(1 .. MaxTime) /\ Len(log) <= MaxLines
    /\ at \in {"open", "read", "check", "gone"}
    /\ bare \in SUBSET (1 .. MaxLines)
    /\ since \in 0 .. MaxTime /\ jump \in {0, since}
    /\ limit \in [window : 0 .. MaxTime, count : Nat, dropped : Nat]
    /\ rest \in Seq(Piece)
    /\ next \in 1 .. MaxLines + 1
    /\ half \in BOOLEAN
    /\ out \in Seq(Decision)
    /\ opened \in SUBSET [size : 0 .. MaxLines, from : 0 .. MaxTime]
    /\ faults \in 0 .. MaxFaults /\ gone \in 0 .. MaxGone

Init ==
    /\ clock = 1 /\ log = <<>> /\ bare = {}
    /\ at = "open" /\ since = 0 /\ jump = 0 /\ limit = NewLimiter /\ rest = <<>>
    /\ next = 1 /\ half = FALSE
    /\ out = <<>> /\ opened = {}
    /\ faults = 0 /\ gone = 0

-----------------------------------------------------------------------------
(* The environment. *)

Write ==
    /\ Len(log) < MaxLines
    /\ log' = Append(log, clock)
    /\ \/ UNCHANGED bare
       \/ Cardinality(bare) < MaxBare /\ bare' = bare \cup {Len(log) + 1}
    /\ UNCHANGED <<clock, follower, stream, out, opened, counters>>

Tick ==
    /\ clock < MaxTime
    /\ clock' = clock + 1
    /\ UNCHANGED <<written, follower, stream, out, opened, counters>>

Fault == faults < MaxFaults /\ faults' = faults + 1

-----------------------------------------------------------------------------
(* _emit: the rate limit, the note, and the resume point. *)

\* RateLimiter.allow: the count of the window that now is in.
CountNow == IF clock > limit.window THEN 1 ELSE limit.count + 1

Allowed == MaxRate = 0 \/ CountNow <= MaxRate

Counted(dropped) == [window |-> IF clock > limit.window THEN clock ELSE limit.window,
                     count |-> CountNow, dropped |-> dropped]

Whole(chunk) == \E i \in 1 .. MaxLines : chunk = <<<<i, "head">>, <<i, "rest">>>>

\* Whether parse_log_line can find a timestamp in front of a chunk: not on a bare
\* line; and a chunk that is cut or glued may have been cut inside it.
Timings(chunk) == {timed \in BOOLEAN :
                      IF timed THEN chunk[1][1] \notin bare
                               ELSE chunk[1][1] \in bare \/ ~Whole(chunk)}

\* The resume point after a line was published.
\* Faulty: the time of emission, always.
StampNow(chunk, timed) == clock
Stamp(chunk, timed) == IF timed THEN log[chunk[1][1]] ELSE clock

\* The suppressed lines that no note has reported; overflow_note clears them.
\* Faulty: a new window forgets what the last one dropped.
DroppedInWindow == IF clock > limit.window THEN 0 ELSE limit.dropped
Unreported == limit.dropped

Note == IF Unreported = 0 THEN <<>> ELSE <<[what |-> "note", count |-> Unreported]>>

Emit(chunk) ==
    \/ /\ Allowed
       /\ out' = out \o Note \o <<[what |-> "line", chunk |-> chunk]>>
       /\ \E timed \in Timings(chunk) :
             /\ since' = Stamp(chunk, timed)
             /\ jump' = IF timed THEN 0 ELSE clock
       /\ limit' = IF MaxRate = 0 THEN limit ELSE Counted(0)
    \/ /\ ~Allowed
       /\ out' = Append(out, [what |-> "dropped", chunk |-> chunk])
       /\ limit' = Counted(Unreported + 1)
       /\ UNCHANGED resume

-----------------------------------------------------------------------------
(* _follow. *)

\* The runtime starts FollowTail lines from the end; since is inclusive.
SinceTail(i) == i + FollowTail > Len(log)
\* Faulty: since is not passed on, or taken as exclusive.
SinceIgnored(i) == TRUE
SinceAfter(i) == log[i] > since
SinceStamp(i) == log[i] >= since

Starts(n) ==
    /\ \A i \in n .. Len(log) : SinceTail(i) /\ SinceStamp(i)
    /\ n > 1 => ~(SinceTail(n - 1) /\ SinceStamp(n - 1))

Open ==
    /\ at = "open"
    /\ at' = "read"
    /\ \E n \in 1 .. Len(log) + 1 : Starts(n) /\ next' = n
    /\ half' = FALSE
    /\ opened' = opened \cup {[size |-> Len(log), from |-> jump]}
    /\ UNCHANGED <<clock, written, resume, limit, rest, out, counters>>

OpenFails ==
    /\ at = "open" /\ Fault
    /\ at' = "check"
    /\ UNCHANGED <<clock, written, resume, limit, rest, stream, out, opened, gone>>

\* LineBuffer.feed on a frame that ends inside a line: the piece is held back.
FeedHead ==
    /\ at = "read" /\ next <= Len(log) /\ ~half
    /\ half' = TRUE
    /\ rest' = Append(rest, <<next, "head">>)
    /\ UNCHANGED <<clock, written, at, resume, limit, next, out, opened, counters>>

\* ... and on the newline: the line, with what was held back before it.
FeedLine ==
    /\ at = "read" /\ half
    /\ half' = FALSE /\ next' = next + 1
    /\ Emit(Append(rest, <<next, "rest">>))
    /\ rest' = <<>>
    /\ UNCHANGED <<clock, written, at, opened, counters>>

\* The read raises: what is held back stays in the buffer.
Break ==
    /\ at = "read" /\ Fault
    /\ at' = "check"
    /\ UNCHANGED <<clock, written, resume, limit, rest, stream, out, opened, gone>>

\* LineBuffer.flush empties the buffer.
\* Faulty: it keeps what it returns.
FlushKeeps == rest
Flushed == <<>>

\* The stream ends (the container stopped, or the connection was closed), and
\* flush emits what was held back.
End ==
    /\ at = "read" /\ Fault
    /\ at' = "check"
    /\ \/ rest # <<>> /\ Emit(rest)
       \/ rest = <<>> /\ UNCHANGED <<resume, limit, out>>
    /\ rest' = Flushed
    /\ UNCHANGED <<clock, written, stream, opened, gone>>

\* _still_present, and the wait before the next round.
Present ==
    /\ at = "check"
    /\ at' = "open"
    /\ UNCHANGED <<clock, written, resume, limit, rest, stream, out, opened, counters>>

\* The check fails, or the container is not there: the thread ends.
Absent ==
    /\ at = "check" /\ gone < MaxGone
    /\ gone' = gone + 1
    /\ at' = "gone"
    /\ UNCHANGED <<clock, written, resume, limit, rest, stream, out, opened, faults>>

\* A later scan finds the container and spawns a follower, with nothing of the
\* old one.
Respawn ==
    /\ at = "gone"
    /\ at' = "open" /\ since' = 0 /\ jump' = 0 /\ limit' = NewLimiter /\ rest' = <<>>
    /\ out' = Append(out, [what |-> "new"])
    /\ UNCHANGED <<clock, written, stream, opened, counters>>

Step == Open \/ FeedHead \/ FeedLine \/ Present \/ Respawn

Next == Write \/ Tick \/ Step \/ OpenFails \/ Break \/ End \/ Absent

Spec == Init /\ [][Next]_vars /\ WF_vars(Step)

-----------------------------------------------------------------------------
(* What follows is about the lines that reached _emit.                     *)

Emitted == {k \in 1 .. Len(out) : out[k].what \in {"line", "dropped"}}

\* The lines that _emit has published, or suppressed and counted.
Seen == {i \in 1 .. Len(log) :
            \E k \in Emitted : \E p \in 1 .. Len(out[k].chunk) : out[k].chunk[p] = <<i, "rest">>}

\* Line i was out of reach when some stream was opened: beyond the configured tail,
\* or before the time of emission at which a line without a timestamp had put the
\* resume point.
OutOfReach(i) == \E o \in opened : i + FollowTail <= o.size \/ log[i] < o.from

\* A line the follower has passed over was out of reach: breaks, ends, half lines
\* and suppressed lines cost no other line (the resume point of _emit).
NoGapWithinTail ==
    \A i \in 1 .. next - 1 : i \in Seen \/ OutOfReach(i)

\* Once a line is through, no line between it and an earlier one is missing: "one
\* duplicated line beats a gap" (logs_follower.py:326).
NoGap == \A i, j \in Seen : \A k \in i .. j : k \in Seen

\* A reopened stream repeats lines of the boundary second only, never older
\* ones: a whole line is published again only if no published line is younger.
RepeatsAreBoundary ==
    LET Line(k) == out[k].chunk[1][1]
        Lines == {k \in Emitted : out[k].what = "line" /\ Whole(out[k].chunk)}
        NoNew(k) == \A j \in k .. Len(out) : out[j].what # "new"
    IN  \A k, m \in Lines : /\ k < m /\ NoNew(k)
                            /\ Line(k) = Line(m)
                            => \A j \in Lines : k <= j /\ j < m => log[Line(j)] <= log[Line(m)]

\* Where lines are suppressed, one note with their number is published before
\* the next line of the same follower, and there is no other note ("a drop that
\* leaves no trace is worse than the volume").
NotesFillTheGaps ==
    \A k \in 1 .. Len(out) :
        LET Run(n) == /\ n < k
                      /\ \A j \in k - n .. k - 1 : out[j].what = "dropped"
        IN  /\ out[k].what = "line" => ~Run(1)
            /\ out[k].what = "note" => /\ out[k].count > 0
                                       /\ Run(out[k].count) /\ ~Run(out[k].count + 1)

\* Only a stream that broke or ended can cut a line or glue two together, and
\* each does so to one line at most (LineBuffer.feed and flush).
CutsNeedAFault ==
    Cardinality({k \in Emitted : ~Whole(out[k].chunk)}) <= faults

\* When the container falls silent the follower has dealt with its last line, or
\* will: it is published, or suppressed and counted, or a line without a timestamp
\* has moved the resume point past it; provided that history is replayed at all
\* (FollowTail > 0).
LastLineIsDecided ==
    <>[](log # <<>> => \/ Len(log) \in Seen
                       \/ \E o \in opened : log[Len(log)] < o.from)

=============================================================================
