------------------------------- MODULE LogRead -------------------------------
(***************************************************************************)
(* The procedure logs: handle_logs, DockerBackend.logs and the functions   *)
(* that put the two streams of a container together and cut the result     *)
(* (parse_log_stream, merge_log_lines, cap_log_lines).  The streams are    *)
(* fetched by two requests, and the container goes on writing.  The        *)
(* runtime counts the tail in the whole log, of both streams, and leaves   *)
(* out what was not asked for after that.                                  *)
(***************************************************************************)
EXTENDS Naturals, Sequences, FiniteSets, FiniteSetsExt, Functions

CONSTANTS
    Requests,       \* the requests made: tail, since (a set of at most one instant)
                    \* and the streams wanted
    DefaultTail, MaxTail, MaxLogBytes,  \* Limits
    Bytes,          \* Bytes[s]: what a line of stream s takes (its text and one)
    PerSecond,      \* instants in a second
    MaxLines,       \* bound: lines the container writes
    MaxTime,        \* bound: the last instant
    MaxUnstamped    \* bound: lines without a timestamp

Streams == {"stdout", "stderr"}

ASSUME ReadAssumption ==
    /\ \A r \in Requests : /\ r.tail \in Nat
                           /\ r.since \subseteq Nat /\ Cardinality(r.since) <= 1
                           /\ r.want \subseteq Streams
    /\ DefaultTail \in Nat \ {0} /\ MaxTail \in Nat \ {0} /\ MaxLogBytes \in Nat
    /\ Bytes \in [Streams -> Nat \ {0}] /\ PerSecond \in Nat \ {0}
    /\ MaxLines \in Nat /\ MaxTime \in Nat \ {0}

VARIABLES
    clock,
    log,        \* what the container has written, in order
    tty,        \* its streams are merged by the runtime
    request,
    at,         \* where the handler is: get, stdout, stderr, reply, answered or failed
    begun,      \* history: the length of the log when the call began
    ended,      \* history: ... and when the last stream was fetched
    fetched,    \* fetched[s]: the lines fetched of each stream
    reply       \* lines and truncated

setting == <<tty, request>>
vars == <<clock, log, setting, at, begun, ended, fetched, reply>>

\* A line: its stream, when it was written, and whether the runtime says so.  n
\* numbers the lines.
Line == [n : 1 .. MaxLines, s : Streams, t : 1 .. MaxTime, stamped : BOOLEAN]

TypeOK ==
    /\ clock \in 1 .. MaxTime
    /\ log \in Seq(Line) /\ Len(log) <= MaxLines
    /\ tty \in BOOLEAN /\ request \in Requests
    /\ at \in {"get", "stdout", "stderr", "reply", "answered", "failed"}
    /\ begun \in 0 .. MaxLines /\ ended \in 0 .. MaxLines
    /\ fetched \in [Streams -> Seq(Line)]
    /\ reply \in [lines : Seq(Line), truncated : BOOLEAN]

Init ==
    /\ clock = 1 /\ log = <<>>
    /\ tty \in BOOLEAN /\ request \in Requests
    /\ at = "get" /\ begun = 0 /\ ended = 0
    /\ fetched = [s \in Streams |-> <<>>]
    /\ reply = [lines |-> <<>>, truncated |-> FALSE]

-----------------------------------------------------------------------------
(* The container, as long as somebody reads. *)

Reading == at \in {"get", "stdout", "stderr", "reply"}

Unstamped == Cardinality({i \in 1 .. Len(log) : ~log[i].stamped})

Write(s, stamped) ==
    /\ Reading /\ Len(log) < MaxLines
    /\ stamped \/ Unstamped < MaxUnstamped
    /\ log' = Append(log, [n |-> Len(log) + 1, s |-> s, t |-> clock, stamped |-> stamped])
    /\ UNCHANGED <<clock, setting, at, begun, ended, fetched, reply>>

Tick ==
    /\ Reading /\ clock < MaxTime
    /\ clock' = clock + 1
    /\ UNCHANGED <<log, setting, at, begun, ended, fetched, reply>>

-----------------------------------------------------------------------------
(* merge_log_lines and cap_log_lines. *)

LastOf(lines, k) == IF Len(lines) <= k THEN lines ELSE SubSeq(lines, Len(lines) - k + 1, Len(lines))

\* The elements of E in the order R, a set of pairs: what sorting makes of them.
Sorted(E, R) ==
    [i \in 1 .. Cardinality(E) |->
        CHOOSE e \in E : Cardinality({d \in E : <<d, e>> \in R}) = i - 1]

\* The instant a line is sorted by: its own or the one carried over from the
\* lines before it in its stream.
\* Faulty: nothing is carried over.
NotCarried(lines) == [p \in 0 .. Len(lines) |-> IF p > 0 /\ lines[p].stamped THEN lines[p].t ELSE 0]
Carried(lines) ==
    LET C[p \in 0 .. Len(lines)] ==
            IF p = 0 THEN 0
            ELSE IF lines[p].stamped THEN lines[p].t
            ELSE C[p - 1]
    IN  C

\* A fetched line by its stream and its position there.
Places(streams) == UNION {{s} \X (1 .. Len(streams[s])) : s \in Streams}

\* The sort key, given the carried instants of each stream.
\* Faulty: of two lines of one instant that on stderr comes first.
BeforeProblems(carried, a, b) ==
    LET key(place) == carried[place[1]][place[2]]
    IN  \/ key(a) < key(b)
        \/ key(a) = key(b) /\ a[1] = "stderr" /\ b[1] = "stdout"
        \/ key(a) = key(b) /\ a[1] = b[1] /\ a[2] < b[2]
Before(carried, a, b) ==
    LET key(place) == carried[place[1]][place[2]]
    IN  \/ key(a) < key(b)
        \/ key(a) = key(b) /\ a[1] = "stdout" /\ b[1] = "stderr"
        \/ key(a) = key(b) /\ a[1] = b[1] /\ a[2] < b[2]

Merge(streams) ==
    IF streams["stderr"] = <<>> THEN streams["stdout"]
    ELSE IF streams["stdout"] = <<>> THEN streams["stderr"]
    ELSE LET places  == Places(streams)
             carried == [s \in Streams |-> Carried(streams[s])]
             order   == Sorted(places, {e \in places \X places : Before(carried, e[1], e[2])})
         IN  [i \in 1 .. Len(order) |-> streams[order[i][1]][order[i][2]]]

\* The bytes of the last k lines, as cap_log_lines adds them up.
Total(lines) ==
    LET B[k \in 0 .. Len(lines)] ==
            IF k = 0 THEN 0 ELSE B[k - 1] + Bytes[lines[Len(lines) - k + 1].s]
    IN  B

\* How many lines from the end its loop keeps before one breaks the ceiling.
Fits(lines) ==
    Max({k \in 0 .. Len(lines) : \A j \in 1 .. k : Total(lines)[j] <= MaxLogBytes})

\* Faulty: the oldest lines are kept.
CapOldest(lines, maxLines) ==
    [lines |-> SubSeq(lines, 1, IF Len(lines) <= maxLines THEN Len(lines) ELSE maxLines),
     truncated |-> Len(lines) > maxLines]
Cap(lines, maxLines) ==
    LET few == IF maxLines > 0 THEN LastOf(lines, maxLines) ELSE lines
        fit == IF MaxLogBytes = 0 THEN Len(few) ELSE Fits(few)
    IN  [lines |-> LastOf(few, fit), truncated |-> fit < Len(lines)]

-----------------------------------------------------------------------------
(* handle_logs. *)

Least(a, b) == IF a <= b THEN a ELSE b

\* tail_lines, after default and clamp.
TailLines == Least(IF request.tail = 0 THEN DefaultTail ELSE request.tail, MaxTail)

\* Only the seconds of since are passed on.
SinceSeconds(t) == t \div PerSecond

AtOrAfter(line) == \A t \in request.since : line.t >= SinceSeconds(t) * PerSecond

\* What the runtime returns: of the newest lines of the whole log those of the
\* streams in S that since does not exclude.
Fetch(S) ==
    LET found == {i \in 1 .. Len(log) : /\ i + TailLines > Len(log)
                                        /\ log[i].s \in S /\ AtOrAfter(log[i])}
        order == Sorted(found, {e \in found \X found : e[1] < e[2]})
    IN  [k \in 1 .. Len(order) |-> log[order[k]]]

Get ==
    /\ at = "get"
    /\ begun' = Len(log)
    \* docker-py refuses since = 0.
    /\ at' = IF \E t \in request.since : SinceSeconds(t) = 0 THEN "failed" ELSE "stdout"
    /\ UNCHANGED <<clock, log, setting, ended, fetched, reply>>

\* The first request: stdout, or both streams of a terminal.
FetchOut ==
    /\ at = "stdout"
    /\ at' = IF tty THEN "reply" ELSE "stderr"
    /\ fetched' = [fetched EXCEPT !["stdout"] =
                      IF tty THEN Fetch(Streams) ELSE Fetch({"stdout"} \cap request.want)]
    /\ ended' = Len(log)
    /\ UNCHANGED <<clock, log, setting, begun, reply>>

FetchErr ==
    /\ at = "stderr"
    /\ at' = "reply"
    /\ fetched' = [fetched EXCEPT !["stderr"] = Fetch({"stderr"} \cap request.want)]
    /\ ended' = IF "stderr" \in request.want THEN Len(log) ELSE ended
    /\ UNCHANGED <<clock, log, setting, begun, reply>>

\* The container is gone, or the daemon is.
Fails ==
    /\ at \in {"get", "stdout", "stderr"}
    /\ at' = "failed"
    /\ UNCHANGED <<clock, log, setting, begun, ended, fetched, reply>>

Merged == Merge(fetched)

Reply ==
    /\ at = "reply"
    /\ at' = "answered"
    /\ reply' = Cap(Merged, TailLines)
    /\ UNCHANGED <<clock, log, setting, begun, ended, fetched>>

Next ==
    \/ \E s \in Streams, stamped \in BOOLEAN : Write(s, stamped)
    \/ Tick \/ Get \/ FetchOut \/ FetchErr \/ Fails \/ Reply

Spec == Init /\ [][Next]_vars

-----------------------------------------------------------------------------
Answered == at = "answered"

Asked(line) == /\ tty \/ line.s \in request.want
               /\ \A t \in request.since : line.t >= t

\* The two fetches and the two ceilings lose nothing recent: what was in the log when
\* the call began, and is one of its newest tail_lines still when the last stream is
\* fetched, is in the answer; or the byte ceiling has cut the answer short behind it,
\* and the answer says so.
NothingRecentIsMissing ==
    Answered =>
        \A i \in 1 .. begun :
            i + TailLines > ended /\ log[i].stamped /\ Asked(log[i])
            => \/ log[i] \in Range(reply.lines)
               \/ /\ MaxLogBytes > 0 /\ Len(reply.lines) < TailLines /\ reply.truncated
                  /\ \A j \in 1 .. Len(reply.lines) :
                        reply.lines[j].stamped => log[i].t <= reply.lines[j].t

\* Put together, the two streams are one story: every fetched line is there once,
\* the lines of a stream keep their order, no line stands before one that was
\* written earlier, as far as the timestamps tell, and a line without one stays
\* next to the one it belongs to "instead of jumping to the front" (model.py:554).
OneStory ==
    at = "reply" =>
        LET merged == Merged
            Follows(a, b) == \E s \in Streams : \E p \in 1 .. Len(fetched[s]) - 1 :
                                 fetched[s][p] = a /\ fetched[s][p + 1] = b
        IN  /\ Len(merged) = Len(fetched["stdout"]) + Len(fetched["stderr"])
            /\ Range(merged) = Range(fetched["stdout"]) \cup Range(fetched["stderr"])
            /\ \A i, j \in 1 .. Len(merged) :
                  /\ i < j /\ merged[i].s = merged[j].s => merged[i].n < merged[j].n
                  /\ i < j /\ merged[i].stamped /\ merged[j].stamped => merged[i].t <= merged[j].t
                  /\ Follows(merged[i], merged[j]) /\ ~merged[j].stamped => j = i + 1

\* The answer is the longest run of the newest fetched lines that both limits
\* allow.  It is flagged when the byte ceiling has dropped lines, and never when
\* nothing was dropped.
LongestWindow ==
    Answered =>
        LET merged == Merged
            Lines(s, k) == Cardinality({i \in Len(merged) - k + 1 .. Len(merged) : merged[i].s = s})
            Size(k) == Lines("stdout", k) * Bytes["stdout"] + Lines("stderr", k) * Bytes["stderr"]
            Allowed(k) == k <= TailLines /\ (MaxLogBytes > 0 => Size(k) <= MaxLogBytes)
            n == Len(reply.lines)
        IN  /\ reply.lines = LastOf(merged, n) /\ Allowed(n)
            /\ n < Len(merged) => ~Allowed(n + 1)
            /\ n < Len(merged) /\ n < TailLines => reply.truncated
            /\ reply.truncated => n < Len(merged)

=============================================================================
