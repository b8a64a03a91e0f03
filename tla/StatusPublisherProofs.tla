------------------------- MODULE StatusPublisherProofs -------------------------
(***************************************************************************)
(* For any containers, and however often the daemon, a put or the process  *)
(* fails: after a tick that did not raise, the last sample shows what the  *)
(* tick saw; a sample shows nothing that was not so, but the name a        *)
(* container was created with where the daemon did not tell its image; and *)
(* a heartbeat with the next number shows what the subscriber has.         *)
(*                                                                         *)
(* The first rests on the digest being that of the last sample (Digest),   *)
(* which a failure must not break.  For the second, the invariant follows  *)
(* a snapshot (Faithful): the host as it is now is one of its moments, the *)
(* rows read so far were true at some moment, but for images still to ask  *)
(* for, and who was there at every moment has been read or will be.  For   *)
(* the third, Fresh says how far the present number is ahead of that of    *)
(* the last sample received.                                               *)
(***************************************************************************)
EXTENDS StatusPublisher, TLAPS

\* The stored digest is that of the last sample.
Digest ==
    \/ sent = {} /\ lastDigest = {}
    \/ \E m \in sent : sent = {m} /\ lastDigest = {m.rows}

\* A row that was so, or whose image is still to be asked for.
WasTrue(r) ==
    /\ \E was \in moments : was.host[r[1]] = r[2]
    /\ \/ \E was \in moments : Reference(was.tagged, r[1]) = r[3]
       \/ r[1] \in degraded /\ r[3] = "configured"
       \/ r[1] \in imageless

\* What a snapshot in progress has established.
Faithful ==
    ppc = "inspect" =>
        /\ Moment \in moments
        /\ \A r \in infos : WasTrue(r)
        /\ \A c \in Ids : (\A was \in moments : was.host[c] \in States)
                              => c \in pending \/ \E r \in infos : r[1] = c

\* A container has no row before it is read, and its row shows what it was created with
\* until its image is asked for.
Plain == \A r \in infos : r[1] \notin pending /\ (r[1] \in imageless => r[3] = "configured")

Inv ==
    /\ TypeOK
    /\ Digest
    /\ CurrentAfterTick
    /\ Faithful
    /\ Plain

-----------------------------------------------------------------------------

\* What the host is now is a moment; a row has its parts.
LEMMA MomentType ==
    ASSUME TypeOK
    PROVE  /\ Moment \in [host : [Ids -> States \cup {"none", "removed"}], tagged : [Ids -> BOOLEAN]]
           /\ Moment.host = host /\ Moment.tagged = tagged
BY DEF TypeOK, Moment

LEMMA RowType ==
    ASSUME NEW c \in Ids, NEW s \in States, NEW i \in References
    PROVE  /\ <<c, s, i>> \in AllRows
           /\ <<c, s, i>>[1] = c /\ <<c, s, i>>[2] = s /\ <<c, s, i>>[3] = i
BY DEF AllRows

LEMMA ReferenceType == ASSUME NEW t, NEW c PROVE Reference(t, c) \in References
BY DEF Reference, References

\* The next of a listing is one of it.
LEMMA FirstIsIn == ASSUME NEW S, S # {} PROVE First(S) \in S
BY DEF First

\* The initial states satisfy the invariant.
LEMMA InvInit == Init => Inv
<1> SUFFICES ASSUME Init PROVE Inv
  OBVIOUS
<1> USE StatusAssumption
<1>1. host \in [Ids -> States \cup {"none", "removed"}] /\ tagged \in [Ids -> BOOLEAN]
  BY DEF Init
<1>2. sequence \in 0 .. Wrap - 1 /\ age \in 0 .. HeartbeatTicks
  BY DEF Init
<1>3. stop \in BOOLEAN /\ joined \in BOOLEAN /\ sameProcess \in BOOLEAN
  BY DEF Init
<1>4. /\ pending = {} /\ imageless = {} /\ degraded = {} /\ infos = {}
      /\ /\ lastDigest = {} /\ sent = {} /\ moments = {} /\ received = {}
  BY DEF Init
<1>5. TypeOK
  BY <1>1, <1>2, <1>3, <1>4 DEF Init, TypeOK
<1> QED BY <1>4, <1>5 DEF Init, Inv, Digest, CurrentAfterTick, Faithful, Plain

\* A tick that raises.
LEMMA GiveUpKeepsInv ==
    ASSUME Inv, GiveUp, Failure \/ UNCHANGED counters
    PROVE  Inv'
<1>1. failures' \in 0 .. MaxFailures /\ UNCHANGED <<changes, losses, restarts>>
  BY StatusAssumption DEF Inv, TypeOK, Failure, counters
<1> QED BY <1>1 DEF Inv, TypeOK, GiveUp, world, subVars, Digest, CurrentAfterTick, Faithful, Plain

\* The sample that a tick sends.
LEMMA SampleType ==
    ASSUME TypeOK
    PROVE  Sample \in Samples /\ Sample.rows = infos
BY DEF TypeOK, Sample, Samples

\* A container is read.
LEMMA InspectKeepsInv ==
    ASSUME Inv, NEW c \in Ids, Inspect(c)
    PROVE  Inv'
<1> USE StatusAssumption DEF world, reading, history, subVars, counters
<1> DEFINE row == <<c, host[c], "configured">>
<1>1. /\ TypeOK /\ Digest /\ CurrentAfterTick /\ Faithful /\ Plain /\ ppc = "inspect"
      /\ host[c] \in States /\ c \in pending
  BY FirstIsIn DEF Inv, Inspect, ToRead
<1>2. row \in AllRows /\ row[1] = c /\ row[2] = host[c] /\ row[3] = "configured"
  BY <1>1, RowType DEF References
<1>3. /\ infos' = infos \cup {row} /\ pending' = pending \ {c}
      /\ imageless' = imageless \cup {c}
      /\ UNCHANGED <<host, tagged, stop, ppc, lastDigest, sequence, age, sent, moments, degraded,
                     joined, received, sameProcess, changes, failures, losses, restarts>>
  BY DEF Inspect
<1> HIDE DEF row
<1>4. TypeOK'
  BY <1>1, <1>2, <1>3 DEF TypeOK
<1>5. Moment' = Moment /\ Moment \in moments /\ Moment.host = host
  BY <1>1, <1>3, MomentType DEF Faithful, Moment
<1>6. ASSUME NEW r \in infos'
      PROVE  WasTrue(r)'
  <2>1. CASE r \in infos
    BY <1>1, <1>3, <2>1 DEF Faithful, WasTrue
  <2>2. CASE r = row
    BY <1>2, <1>3, <1>5, <2>2 DEF WasTrue
  <2> QED BY <1>3, <2>1, <2>2
<1>7. Faithful'
  BY <1>1, <1>2, <1>3, <1>5, <1>6 DEF Faithful
<1>8. Plain'
  BY <1>1, <1>2, <1>3 DEF Plain
<1> QED BY <1>1, <1>3, <1>4, <1>7, <1>8 DEF Inv, Digest, CurrentAfterTick

\* An image is read, or the daemon does not tell it.
LEMMA ReadImageKeepsInv ==
    ASSUME Inv, NEW c \in Ids, ReadImage(c)
    PROVE  Inv'
<1> USE StatusAssumption DEF world, reading, history, subVars, counters
<1> DEFINE Asked(r) == IF r[1] = c THEN <<c, r[2], Reference(tagged, c)>> ELSE r
<1>1. TypeOK /\ Digest /\ CurrentAfterTick /\ Faithful /\ Plain /\ ppc = "inspect"
  BY DEF Inv, ReadImage, AskImage
<1>2. /\ infos' = {Asked(r) : r \in infos} /\ imageless' = imageless \ {c}
      /\ UNCHANGED <<host, tagged, stop, ppc, pending, lastDigest, sequence, age, sent, moments,
                     degraded, joined, received, sameProcess, changes, failures, losses, restarts>>
  BY DEF ReadImage
<1>3. ASSUME NEW r \in infos
      PROVE  /\ Asked(r) \in AllRows /\ Asked(r)[1] = r[1] /\ Asked(r)[2] = r[2]
             /\ r[1] = c => Asked(r)[3] = Reference(tagged, c)
             /\ r[1] # c => Asked(r) = r
  <2>1. r \in AllRows /\ r[2] \in States
    BY <1>1 DEF TypeOK, AllRows
  <2> QED BY <2>1, RowType, ReferenceType
<1> HIDE DEF Asked
<1>4. TypeOK'
  <2>1. infos' \in SUBSET AllRows
    BY <1>2, <1>3
  <2> QED BY <1>1, <1>2, <2>1 DEF TypeOK
<1>5. Moment' = Moment /\ Moment \in moments /\ Moment.tagged = tagged
  BY <1>1, <1>2, MomentType DEF Faithful, Moment
<1>6. ASSUME NEW q \in infos'
      PROVE  WasTrue(q)'
  <2>1. PICK r \in infos : q = Asked(r)
    BY <1>2
  <2>2. WasTrue(r)
    BY <1>1 DEF Faithful
  <2>3. CASE r[1] = c
    <3>1. q[1] = c /\ q[2] = r[2] /\ q[3] = Reference(tagged, c)
      BY <1>3, <2>1, <2>3
    <3>2. \E was \in moments : was.host[c] = q[2]
      BY <2>2, <2>3, <3>1 DEF WasTrue
    <3>3. \E was \in moments : Reference(was.tagged, c) = q[3]
      BY <1>5, <3>1
    <3> QED BY <1>2, <3>1, <3>2, <3>3 DEF WasTrue
  <2>4. CASE r[1] # c
    <3>1. q = r
      BY <1>3, <2>1, <2>4
    <3> QED BY <1>2, <2>2, <2>4, <3>1 DEF WasTrue
  <2> QED BY <2>3, <2>4
<1>7. \A d \in Ids : (\E r \in infos : r[1] = d) => \E q \in infos' : q[1] = d
  BY <1>2, <1>3
<1>8. Faithful'
  BY <1>1, <1>2, <1>5, <1>6, <1>7 DEF Faithful
<1>9. Plain'
  BY <1>1, <1>2, <1>3 DEF Plain
<1> QED BY <1>1, <1>2, <1>4, <1>8, <1>9 DEF Inv, Digest, CurrentAfterTick

LEMMA ImageFailsKeepsInv ==
    ASSUME Inv, NEW c \in Ids, ImageFails(c)
    PROVE  Inv'
<1> USE StatusAssumption DEF world, reading, history, subVars, counters
<1>1. TypeOK /\ Digest /\ CurrentAfterTick /\ Faithful /\ ppc = "inspect" /\ Plain
  BY DEF Inv, ImageFails, AskImage
<1>2. /\ imageless' = imageless \ {c} /\ degraded' = degraded \cup {c}
      /\ failures' \in 0 .. MaxFailures
      /\ UNCHANGED <<host, tagged, stop, ppc, pending, infos, lastDigest, sequence, age, sent,
                     moments, joined, received, sameProcess, changes, losses, restarts>>
  BY <1>1 DEF ImageFails, Failure, TypeOK
<1>3. TypeOK'
  BY <1>1, <1>2 DEF TypeOK
<1>4. \A r \in infos' : WasTrue(r)'
  <2> SUFFICES ASSUME NEW r \in infos PROVE WasTrue(r)'
    BY <1>2
  <2>1. WasTrue(r) /\ (r[1] \in imageless => r[3] = "configured")
    BY <1>1 DEF Faithful, Plain
  <2>2. r[1] \in imageless => r[1] \in imageless' \/ (r[1] \in degraded' /\ r[3] = "configured")
    BY <1>2, <2>1
  <2>3. degraded \subseteq degraded'
    BY <1>2
  <2> QED BY <1>2, <2>1, <2>2, <2>3 DEF WasTrue
<1>5. Faithful'
  BY <1>1, <1>2, <1>4 DEF Faithful, Moment
<1>6. Plain'
  BY <1>1, <1>2 DEF Plain
<1> QED BY <1>1, <1>2, <1>3, <1>5, <1>6 DEF Inv, Digest, CurrentAfterTick

\* A step of the thread.
LEMMA LoopKeepsInv ==
    ASSUME Inv, Loop
    PROVE  Inv'
<1> USE StatusAssumption DEF world, reading, loopVars, history, subVars, counters
<1>1. TypeOK /\ Digest /\ CurrentAfterTick /\ Faithful /\ Plain
  BY DEF Inv
<1>2. CASE Check
  BY <1>1, <1>2 DEF Check, Inv, TypeOK, Digest, CurrentAfterTick, Faithful, Plain
<1>3. CASE ListIds
  <2>1. Moment \in [host : [Ids -> States \cup {"none", "removed"}], tagged : [Ids -> BOOLEAN]]
        /\ Moment.host = host /\ Moment' = Moment
    BY <1>1, <1>3, MomentType DEF ListIds, Moment
  <2>2. TypeOK'
    BY <1>1, <1>3, <2>1 DEF ListIds, TypeOK
  <2>3. Faithful' /\ Plain'
    BY <1>3, <2>1 DEF ListIds, Faithful, Plain
  <2> QED BY <1>1, <1>3, <2>2, <2>3 DEF ListIds, Inv, Digest, CurrentAfterTick
<1>4. CASE ListFails
  BY <1>4, GiveUpKeepsInv DEF ListFails
<1>5. ASSUME NEW c \in Ids, Inspect(c) \/ ReadImage(c) \/ ImageFails(c)
      PROVE  Inv'
  BY <1>5, InspectKeepsInv, ReadImageKeepsInv, ImageFailsKeepsInv
<1>6. ASSUME NEW c \in Ids, InspectFails(c) \/ ImageRaises(c)
      PROVE  Inv'
  BY <1>6, GiveUpKeepsInv DEF InspectFails, ImageRaises
<1>7. CASE Publish
  <2>1. Sample \in Samples /\ Sample.rows = infos
    BY <1>1, SampleType
  <2>2. sent' = {Sample} /\ lastDigest' = {infos} /\ ppc' = "wait" /\ infos' = infos /\ moments' = {}
        /\ age' = 0 /\ degraded' = {} /\ UNCHANGED <<host, tagged, stop, pending, imageless>>
    BY <1>7 DEF Publish
  <2>3. joined' \in BOOLEAN /\ received' \in SUBSET Samples /\ sameProcess' \in BOOLEAN
        /\ losses' \in 0 .. MaxLosses /\ UNCHANGED <<changes, failures, restarts>>
    <3>1. Deliver
      BY <1>7 DEF Publish
    <3>2. sameProcess' = TRUE \/ UNCHANGED sameProcess
      BY <3>1 DEF Deliver
    <3> HIDE DEF Sample
    <3>3. UNCHANGED joined /\ (received' = {Sample} \/ UNCHANGED received)
      BY <3>1 DEF Deliver
    <3>4. losses' \in 0 .. MaxLosses /\ UNCHANGED <<changes, failures, restarts>>
      BY <1>1, <3>1 DEF Deliver, TypeOK
    <3> QED BY <1>1, <2>1, <3>2, <3>3, <3>4 DEF TypeOK
  <2>4. sequence' \in 0 .. Wrap - 1
    BY <1>1, <1>7 DEF Publish, TypeOK
  <2> HIDE DEF Sample
  <2>5. TypeOK'
    BY <1>1, <2>1, <2>2, <2>3, <2>4 DEF TypeOK
  <2> QED BY <2>1, <2>2, <2>5 DEF Inv, Digest, CurrentAfterTick, Faithful, Plain
<1>8. CASE PublishRaises
  BY <1>8, GiveUpKeepsInv DEF PublishRaises
<1>9. CASE KeepQuiet
  <2>1. lastDigest = {infos}
    BY <1>9 DEF KeepQuiet, Changed
  <2>2. \E m \in sent : m.rows = infos
    BY <1>1, <2>1 DEF Digest
  <2> QED BY <1>1, <1>9, <2>2 DEF KeepQuiet, Inv, TypeOK, Digest, CurrentAfterTick, Faithful, Plain
<1>10. CASE Wait
  <2>1. age' \in 0 .. HeartbeatTicks
    BY <1>1, <1>10 DEF Wait, TypeOK
  <2> QED BY <1>1, <1>10, <2>1 DEF Wait, Inv, TypeOK, Digest, CurrentAfterTick, Faithful, Plain
<1> QED BY <1>2, <1>3, <1>4, <1>5, <1>6, <1>7, <1>8, <1>9, <1>10 DEF Loop

\* A change of the host adds a moment to the snapshot in progress.
LEMMA HostKeepsInv ==
    ASSUME Inv, HostChanges, host' \in [Ids -> States \cup {"none", "removed"}],
           tagged' \in [Ids -> BOOLEAN]
    PROVE  Inv'
<1> USE StatusAssumption DEF reading, loopVars, subVars, counters
<1>1. TypeOK /\ Digest /\ CurrentAfterTick /\ Faithful /\ Plain
  BY DEF Inv
<1>2. /\ Moment' \in [host : [Ids -> States \cup {"none", "removed"}], tagged : [Ids -> BOOLEAN]]
      /\ changes' \in 0 .. MaxChanges
      /\ moments' = IF ppc = "inspect" THEN moments \cup {Moment'} ELSE moments
      /\ UNCHANGED <<stop, ppc, pending, imageless, infos, lastDigest, sequence, age, sent, degraded,
                     joined, received, sameProcess, failures, losses, restarts>>
  BY <1>1 DEF HostChanges, Moment, TypeOK
<1>3. TypeOK'
  BY <1>1, <1>2 DEF TypeOK
<1>4. Faithful'
  <2> SUFFICES ASSUME ppc = "inspect"
               PROVE  /\ Moment' \in moments'
                      /\ \A r \in infos : WasTrue(r)'
                      /\ \A d \in Ids : (\A was \in moments' : was.host[d] \in States)
                              => d \in pending \/ \E r \in infos : r[1] = d
    BY <1>2 DEF Faithful
  <2>1. moments \subseteq moments' /\ Moment' \in moments'
    BY <1>2
  <2>2. \A r \in infos : WasTrue(r)'
    BY <1>1, <1>2, <2>1 DEF Faithful, WasTrue
  <2> QED BY <1>1, <2>1, <2>2 DEF Faithful
<1>5. Plain'
  BY <1>1, <1>2 DEF Plain
<1> QED BY <1>1, <1>2, <1>3, <1>4, <1>5 DEF Inv, Digest, CurrentAfterTick

\* Every step keeps the invariant.
LEMMA InvInductive == Inv /\ [Next]_vars => Inv'
<1> SUFFICES ASSUME Inv, [Next]_vars PROVE Inv'
  OBVIOUS
<1> USE StatusAssumption DEF world, reading, loopVars, history, subVars, counters
<1>1. CASE UNCHANGED vars \/ Stop \/ Join
  <2>1. /\ UNCHANGED <<host, tagged, ppc, pending, imageless, infos, lastDigest, sequence, age, sent,
                      moments, degraded,
                      received, sameProcess, counters>>
        /\ stop' \in BOOLEAN /\ joined' \in BOOLEAN
    BY <1>1 DEF Stop, Join, vars, Inv, TypeOK
  <2>2. TypeOK'
    BY <2>1 DEF Inv, TypeOK
  <2> QED BY <2>1, <2>2 DEF Inv, Digest, CurrentAfterTick, Faithful, WasTrue, Moment, Plain
<1>2. ASSUME NEW c \in Ids, ContainerChanges(c) \/ ContainerRemoved(c) \/ Retag(c)
      PROVE  Inv'
  <2>1. host \in [Ids -> States \cup {"none", "removed"}] /\ tagged \in [Ids -> BOOLEAN]
    BY DEF Inv, TypeOK
  <2>2. /\ HostChanges /\ host' \in [Ids -> States \cup {"none", "removed"}]
        /\ tagged' \in [Ids -> BOOLEAN]
    BY <1>2, <2>1 DEF ContainerChanges, ContainerRemoved, Becomes, Retag
  <2> QED BY <2>2, HostKeepsInv
<1>3. CASE Restart
  <2>1. sequence' \in 0 .. Wrap - 1 /\ age' \in 0 .. HeartbeatTicks
    BY <1>3 DEF Restart
  <2>2. stop' \in BOOLEAN /\ sameProcess' \in BOOLEAN /\ restarts' \in 0 .. MaxRestarts
    <3>1. stop' \in BOOLEAN /\ sameProcess' \in BOOLEAN
      BY <1>3 DEF Restart
    <3>2. restarts' \in 0 .. MaxRestarts
      BY <1>3 DEF Restart, Inv, TypeOK
    <3> QED BY <3>1, <3>2
  <2>3. sent' = {} /\ lastDigest' = {} /\ moments' = {} /\ degraded' = {} /\ pending' = {} /\ imageless' = {} /\ infos' = {}
        /\ ppc' = "check" /\ UNCHANGED <<host, tagged, joined, received, changes, failures, losses>>
    BY <1>3 DEF Restart
  <2>4. TypeOK'
    BY <2>1, <2>2, <2>3 DEF Inv, TypeOK
  <2> QED BY <2>3, <2>4 DEF Inv, Digest, CurrentAfterTick, Faithful, Plain
<1> QED BY <1>1, <1>2, <1>3, LoopKeepsInv DEF Next

-----------------------------------------------------------------------------

\* The invariant holds in every reachable state.
THEOREM InvHolds == Spec => []Inv
BY InvInit, InvInductive, PTL DEF Spec

\* The variables have their types.
THEOREM TypeCorrect == Spec => []TypeOK
<1>1. Inv => TypeOK
  BY DEF Inv
<1> QED BY <1>1, InvHolds, PTL

\* After a tick that did not raise, the last sample shows what the tick saw.
THEOREM NoChangeIsMissed == Spec => []CurrentAfterTick
<1>1. Inv => CurrentAfterTick
  BY DEF Inv
<1> QED BY <1>1, InvHolds, PTL

\* A sample claims nothing that was not so, but the name a container was created with
\* where the daemon did not tell its image, and leaves out nobody that was there all
\* the time.
THEOREM SamplesAreTrue == Spec => EveryRowWasTrue
<1> DEFINE True(m) == /\ \A r \in m.rows :
                            /\ \E was \in moments : was.host[r[1]] = r[2]
                            /\ \/ \E was \in moments : Reference(was.tagged, r[1]) = r[3]
                               \/ r[1] \in degraded /\ r[3] = "configured"
                      /\ \A c \in Ids : (\A was \in moments : was.host[c] \in States)
                                            => \E r \in m.rows : r[1] = c
<1>1. ASSUME Inv, [Next]_vars, NEW m \in sent' \ sent
      PROVE  True(m)
  <2>1. CASE Publish
    <3>1. m.rows = infos /\ ppc = "inspect" /\ pending = {} /\ imageless = {}
      BY <1>1, <2>1, SampleType DEF Publish, Snapshot, Inv
    <3> QED BY <1>1, <3>1 DEF Inv, Faithful, WasTrue
  <2>2. CASE sent' = sent \/ sent' = {}
    BY <1>1, <2>2
  <2>3. Publish \/ sent' = sent \/ sent' = {}
    BY <1>1 DEF Next, Loop, Check, ListIds, ListFails, Inspect, InspectFails, ReadImage, ImageFails,
                ImageRaises, GiveUp, PublishRaises, KeepQuiet, Wait, Stop, ContainerChanges,
                ContainerRemoved, Becomes, Retag, HostChanges, Restart, Join, vars, loopVars
  <2> QED BY <2>1, <2>2, <2>3
<1>2. Inv /\ [Next]_vars => [\A m \in sent' \ sent : True(m)]_vars
  BY <1>1
<1> QED BY <1>2, InvHolds, PTL DEF Spec, EveryRowWasTrue

-----------------------------------------------------------------------------
(* Heartbeats, as long as fewer samples are lost than the sequence number   *)
(* counts before it begins again.                                          *)

\* The number d after s.
Ahead(s, d) == IF s + d < Wrap THEN s + d ELSE s + d - Wrap

\* The present number is ahead of that of a sample received from this process by
\* one and the samples lost since; if none was lost, that sample is the last one.
Fresh ==
    sameProcess =>
        \A old \in received :
            /\ joined
            /\ \E k \in 0 .. losses : /\ sequence = Ahead(old.sequence, k + 1)
                                      /\ k = 0 => sent = {old}

LEMMA NextNumber ==
    ASSUME NEW s \in 0 .. Wrap - 1
    PROVE  (s + 1) % Wrap = Ahead(s, 1) /\ Ahead(s, 1) \in 0 .. Wrap - 1
<1>1. Wrap \in Nat \ {0}
  BY StatusAssumption
<1>2. CASE s + 1 < Wrap
  BY <1>1, <1>2 DEF Ahead
<1>3. CASE s + 1 = Wrap
  <2>1. Wrap % Wrap = 0
    BY <1>1
  <2>. QED BY <1>1, <1>3, <2>1 DEF Ahead
<1>. QED BY <1>1, <1>2, <1>3

\* Different numbers of losses give different numbers.
LEMMA NumbersDiffer ==
    ASSUME NEW s \in 0 .. Wrap - 1, NEW k \in Nat, k < Wrap, Ahead(s, k + 1) = Ahead(s, 1)
    PROVE  k = 0
BY StatusAssumption DEF Ahead

LEMMA FreshInit == Init => Fresh
BY DEF Init, Fresh

LEMMA FreshInductive ==
    ASSUME MaxLosses < Wrap, Inv, Inv', Fresh, [Next]_vars
    PROVE  Fresh'
<1>. USE StatusAssumption DEF loopVars, subVars, counters
<1>1. TypeOK /\ TypeOK' /\ Wrap \in Nat \ {0} /\ MaxLosses \in Nat
  BY DEF Inv
<1>2. CASE Publish
  <2>1. Deliver /\ sent' = {Sample} /\ sequence' = (sequence + 1) % Wrap
    BY <1>2 DEF Publish
  <2>2. sequence' = Ahead(sequence, 1) /\ sequence \in 0 .. Wrap - 1 /\ Sample.sequence = sequence
    BY <1>1, <2>1, NextNumber DEF TypeOK, Sample
  <2>. HIDE DEF Sample
  <2>3. CASE joined /\ received' = {Sample} /\ UNCHANGED <<joined, counters>>
    <3>1. 0 \in 0 .. losses' /\ 0 + 1 = 1
      BY <1>1 DEF TypeOK
    <3>. QED BY <2>1, <2>2, <2>3, <3>1 DEF Fresh
  <2>4. CASE joined /\ losses < MaxLosses /\ losses' = losses + 1 /\ UNCHANGED subVars
    <3>1. ASSUME sameProcess', NEW old \in received'
          PROVE  \E k \in 0 .. losses' : /\ sequence' = Ahead(old.sequence, k + 1)
                                         /\ k = 0 => sent' = {old}
      <4>1. PICK k \in 0 .. losses : sequence = Ahead(old.sequence, k + 1)
        BY <2>4, <3>1 DEF Fresh
      <4>2. old.sequence \in 0 .. Wrap - 1
        BY <1>1, <2>4, <3>1 DEF TypeOK, Samples
      <4>3. losses \in Nat /\ k \in Nat /\ k + 1 < Wrap
        BY <1>1, <2>4 DEF TypeOK
      <4>4. Ahead(sequence, 1) = Ahead(old.sequence, (k + 1) + 1)
        BY <1>1, <4>1, <4>2, <4>3 DEF Ahead
      <4>5. k + 1 \in 0 .. losses' /\ k + 1 # 0
        BY <2>4, <4>3
      <4>. QED BY <2>2, <4>4, <4>5
    <3>. QED BY <2>4, <3>1 DEF Fresh
  <2>5. CASE ~joined /\ UNCHANGED subVars
    BY <2>5 DEF Fresh
  <2>. QED BY <2>1, <2>3, <2>4, <2>5 DEF Deliver
<1>3. CASE Restart
  BY <1>3 DEF Restart, Fresh
<1>4. CASE Join
  <2>1. ~sameProcess \/ received = {}
    BY <1>4 DEF Join, Fresh
  <2>. QED BY <1>4, <2>1 DEF Join, Fresh
<1>5. CASE UNCHANGED <<joined, received, sameProcess, sequence, sent, losses>>
  BY <1>5 DEF Fresh
<1>6. Publish \/ Restart \/ Join \/ UNCHANGED <<joined, received, sameProcess, sequence, sent, losses>>
  BY DEF Next, Loop, Check, ListIds, ListFails, Inspect, InspectFails, ReadImage, ImageFails, ImageRaises,
         GiveUp, Failure, PublishRaises, KeepQuiet, Wait, Stop, ContainerChanges, ContainerRemoved,
         Becomes, Retag, HostChanges, vars
<1>. QED BY <1>2, <1>3, <1>4, <1>5, <1>6

\* A heartbeat whose number follows that of the last sample received from the same
\* process shows the rows that the subscriber already has, whatever was lost and failed:
\* provided that fewer samples are lost than there are numbers (2^64 in the code).
THEOREM HeartbeatsAreTrue == MaxLosses < Wrap => (Spec => HeartbeatMeansUnchanged)
<1>. SUFFICES ASSUME MaxLosses < Wrap PROVE Spec => HeartbeatMeansUnchanged
  OBVIOUS
<1>. DEFINE Step == \A old \in received, new \in received' \ received :
                       (sameProcess /\ new.trigger = "heartbeat" /\ new.sequence = (old.sequence + 1) % Wrap)
                           => new.rows = old.rows
<1>1. Inv /\ Inv' /\ Fresh /\ [Next]_vars => Fresh'
  BY FreshInductive
<1>2. ASSUME Inv, Fresh, [Next]_vars, NEW old \in received, NEW new \in received' \ received,
             sameProcess, new.trigger = "heartbeat", new.sequence = (old.sequence + 1) % Wrap
      PROVE  new.rows = old.rows
  <2>1. Publish /\ new = Sample
    BY <1>2 DEF Next, Loop, Check, ListIds, ListFails, Inspect, InspectFails, ReadImage, ImageFails,
                ImageRaises, GiveUp, PublishRaises, KeepQuiet, Wait, Stop, ContainerChanges,
                ContainerRemoved, Becomes, Retag, HostChanges, Restart, Join, Publish, Deliver, vars,
                subVars
  <2>2. lastDigest = {infos} /\ new.rows = infos /\ new.sequence = sequence
    BY <1>2, <2>1 DEF Sample, Changed
  <2>3. TypeOK /\ Digest /\ old.sequence \in 0 .. Wrap - 1
    BY <1>2 DEF Inv, TypeOK, Samples
  <2>4. PICK k \in 0 .. losses : sequence = Ahead(old.sequence, k + 1) /\ (k = 0 => sent = {old})
    BY <1>2 DEF Fresh
  <2>5. k \in Nat /\ k < Wrap
    BY <2>3, StatusAssumption DEF TypeOK
  <2>6. sequence = Ahead(old.sequence, 1)
    BY <1>2, <2>2, <2>3, NextNumber
  <2>7. sent = {old}
    BY <2>3, <2>4, <2>5, <2>6, NumbersDiffer
  <2>. QED BY <2>2, <2>3, <2>7 DEF Digest
<1>3. Inv /\ Fresh /\ [Next]_vars => [Step]_vars
  BY <1>2
<1>. QED BY <1>1, <1>3, FreshInit, InvHolds, PTL DEF Spec, HeartbeatMeansUnchanged

=============================================================================
