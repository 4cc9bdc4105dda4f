---------------------------- MODULE DeliveryProofs ----------------------------
(***************************************************************************)
(* Theorems about the outbox of the pi extension, alone (PiOutbox!Spec)    *)
(* and with a TUI that listens (DeliverySpec), for every set of events,    *)
(* size of the outbox and of the socket's buffer, and number of faults.    *)
(***************************************************************************)
EXTENDS Delivery, SequenceTheorems, TLAPS

\* Without a connection nothing is on the wire, and a socket that has no room
\* has asked for a pause.
WireOfConnection ==
    /\ link # "active" => wire = <<>> /\ ~paused
    /\ link = "active" /\ ~paused => Len(wire) < HighWater

OutboxInv == TypeOK /\ NoneHeldBack /\ WireOfConnection

\* What a step of the client may change of the extension's surroundings: a
\* line that the TUI fails to read counts as a fault.
Miss ==
    /\ faults < MaxFaults
    /\ faults' = faults + 1
    /\ UNCHANGED <<extension, wire, peer, up, known>>

-----------------------------------------------------------------------------
(* Lemmas about the extension's helpers *)

\* The outbox stays within its limit, the oldest line gives way to the new one.
LEMMA EnqueueProperties ==
    ASSUME NEW e \in Events, enqueue(e),
           outbox \in Seq(Events), Len(outbox) <= OUTBOX_MAX
    PROVE  /\ outbox' \in Seq(Events) /\ Len(outbox') <= OUTBOX_MAX
           /\ \/ outbox' = Append(outbox, e)
              \/ outbox # <<>> /\ outbox' = Append(Tail(outbox), e)
<1>1. CASE Len(outbox) < OUTBOX_MAX
  <2>1. outbox' = Append(outbox, e)
    BY <1>1 DEF enqueue
  <2> QED
    BY <1>1, <2>1, AppendProperties, LenProperties, OutboxAssumption
<1>2. CASE ~(Len(outbox) < OUTBOX_MAX)
  <2>1. outbox' = Append(Tail(outbox), e) /\ outbox # <<>>
    BY <1>2, OutboxAssumption DEF enqueue
  <2>2. Tail(outbox) \in Seq(Events) /\ Len(Tail(outbox)) = Len(outbox) - 1
    BY <2>1, HeadTailProperties
  <2>3. outbox' \in Seq(Events) /\ Len(outbox') = Len(outbox) - 1 + 1
    BY <2>1, <2>2, AppendProperties
  <2>4. Len(outbox) \in Nat
    BY LenProperties
  <2> QED
    <3>1. Len(outbox') <= OUTBOX_MAX
      BY <2>3, <2>4, OutboxAssumption
    <3> QED
      BY <2>1, <2>3, <3>1, Zenon
<1> QED
  BY <1>1, <1>2

\* Flushing moves lines from the outbox to the socket, changes none of them and
\* keeps their order; it stops when the outbox is empty or the socket is full.
LEMMA FlushProperties ==
    ASSUME NEW lines \in Seq(Events), NEW socket \in Seq(Events),
           Len(socket) <= HighWater, flushOutboxTo(lines, socket)
    PROVE  /\ wire' \in Seq(Events) /\ Len(wire') <= HighWater
           /\ outbox' \in Seq(Events) /\ Len(outbox') <= Len(lines)
           /\ wire' \o outbox' = socket \o lines
           /\ paused' \in BOOLEAN
           /\ ~paused' => outbox' = <<>> /\ Len(wire') < HighWater
<1> DEFINE room == HighWater - Len(socket)
           n == IF Len(lines) < room THEN Len(lines) ELSE room
           first == SubSeq(lines, 1, n)
           rest == SubSeq(lines, n + 1, Len(lines))
<1>1. Len(lines) \in Nat /\ Len(socket) \in Nat /\ HighWater \in Nat
  BY OutboxAssumption, LenProperties
<1>2. n \in 0 .. Len(lines) /\ n <= room /\ room \in Nat
  BY <1>1
<1>3. wire' = socket \o first /\ outbox' = rest /\ paused' = (Len(socket) + n = HighWater)
  BY DEF flushOutboxTo
<1>4. paused' = IF Len(socket) + n = HighWater THEN TRUE ELSE FALSE
  BY <1>3, Zenon
<1> HIDE DEF n, first, rest
<1>5. first \in Seq(Events) /\ Len(first) = n
  <2>1. \A i \in 1 .. n : lines[i] \in Events
    BY <1>2, ElementOfSeq
  <2> QED
    BY <1>1, <1>2, <2>1, SubSeqProperties DEF first
<1>6. rest \in Seq(Events) /\ Len(rest) = Len(lines) - n
  <2>1. \A i \in n + 1 .. Len(lines) : lines[i] \in Events
    BY <1>2, ElementOfSeq
  <2>2. n + 1 \in Int /\ Len(lines) \in Int
    BY <1>2, LenProperties
  <2> QED
    BY <1>1, <1>2, <2>1, <2>2, SubSeqProperties DEF rest
<1>7. first \o rest = lines
  <2>1. SubSeq(lines, 1, n) \o SubSeq(lines, n + 1, Len(lines)) = SubSeq(lines, 1, Len(lines))
    <3>1. 1 \in 1 .. Len(lines) + 1 /\ n \in 1 - 1 .. Len(lines) /\ Len(lines) \in n .. Len(lines)
      BY <1>1, <1>2
    <3> QED
      BY <3>1, ConcatAdjacentSubSeq
  <2> QED
    BY <2>1, SubSeqFull DEF first, rest
<1>8. wire' \o outbox' = socket \o lines
  <2>1. (socket \o first) \o rest = socket \o (first \o rest)
    <3>1. \A S : \A s, t, u \in Seq(S) : (s \o t) \o u = s \o (t \o u)
      BY ConcatAssociative
    <3>2. socket \in Seq(Events) /\ first \in Seq(Events) /\ rest \in Seq(Events)
      BY <1>5, <1>6
    <3> QED
      BY <3>1, <3>2
  <2> QED
    BY <1>3, <1>7, <2>1
<1>9. wire' \in Seq(Events) /\ Len(wire') = Len(socket) + n
  BY <1>3, <1>5, ConcatProperties
<1>10. ~paused' => n = Len(lines)
  BY <1>1, <1>4 DEF n
<1>11. ~paused' => outbox' = <<>>
  <2>1. ~paused' => Len(rest) = 0
    BY <1>1, <1>6, <1>10
  <2> QED
    BY <1>3, <1>6, <2>1, EmptySeq
<1>12. Len(wire') <= HighWater /\ (~paused' => Len(wire') < HighWater)
  BY <1>1, <1>2, <1>4, <1>9
<1>13. Len(outbox') <= Len(lines)
  BY <1>1, <1>2, <1>3, <1>6
<1>14. paused' \in BOOLEAN
  BY <1>4
<1> QED
  BY <1>3, <1>6, <1>8, <1>9, <1>11, <1>12, <1>13, <1>14

-----------------------------------------------------------------------------
(* The invariant *)

LEMMA InitOutbox == Init => OutboxInv
<1> SUFFICES ASSUME Init PROVE OutboxInv
  OBVIOUS
<1>1. /\ <<>> \in Seq(Events) /\ Len(<<>>) = 0
      /\ 0 <= OUTBOX_MAX /\ 0 <= HighWater /\ 0 \in 0 .. MaxFaults
  BY EmptySeq, OutboxAssumption
<1>2. TypeOK
  BY <1>1 DEF Init, TypeOK
<1> QED
  BY <1>2 DEF Init, OutboxInv, NoneHeldBack, WireOfConnection

\* Only a socket that is not paused is written to, which leaves the outbox empty.
LEMMA SendOutbox ==
    ASSUME OutboxInv, NEW e \in Events, send(e)
    PROVE  OutboxInv'
<1> USE DEF OutboxInv, TypeOK
<1>1. link' \in {"none", "pending", "active"} /\ UNCHANGED <<backoff, peer, up, known, faults>>
  BY DEF send, openSocket
<1>2. CASE link = "active" /\ ~paused
  <2>1. wire' = Append(wire, e) /\ paused' = (Len(wire) + 1 = HighWater) /\ UNCHANGED <<link, outbox>>
    BY <1>2 DEF send, WriteOrQueue
  <2>2. wire' \in Seq(Events) /\ Len(wire') = Len(wire) + 1
    BY <2>1, AppendProperties
  <2>3. Len(wire) < HighWater /\ outbox = <<>>
    BY <1>2 DEF WireOfConnection, NoneHeldBack
  <2>4. Len(wire) \in Nat /\ HighWater \in Nat
    BY LenProperties, OutboxAssumption
  <2>5. /\ wire' \in Seq(Events) /\ Len(wire') <= HighWater
        /\ ~paused' => Len(wire') < HighWater
        /\ paused' \in BOOLEAN
    <3>1. paused' = IF Len(wire) + 1 = HighWater THEN TRUE ELSE FALSE
      BY <2>1, Zenon
    <3>2. Len(wire') <= HighWater
      BY <2>2, <2>3, <2>4
    <3>3. Len(wire) + 1 # HighWater => Len(wire') < HighWater
      BY <2>2, <2>3, <2>4
    <3> QED
      BY <2>2, <3>1, <3>2, <3>3
  <2> QED
    BY <1>1, <1>2, <2>1, <2>3, <2>5 DEF WireOfConnection, NoneHeldBack
<1>3. CASE enqueue(e) /\ UNCHANGED <<paused, wire>>
           /\ (link = "active" => paused /\ link' = "active")
           /\ (link # "active" => link' # "active")
  BY <1>1, <1>3, EnqueueProperties DEF WireOfConnection, NoneHeldBack
<1>4. CASE UNCHANGED <<link, paused, outbox, wire>>
  BY <1>1, <1>4 DEF WireOfConnection, NoneHeldBack
<1> QED
  BY <1>2, <1>3, <1>4 DEF send, WriteOrQueue, openSocket

LEMMA FlushedOutbox ==
    ASSUME OutboxInv, NEW socket \in Seq(Events), Len(socket) <= HighWater,
           flushOutboxTo(outbox, socket),
           link' = "active", peer' \in BOOLEAN, UNCHANGED <<backoff, up, known, faults>>
    PROVE  OutboxInv'
<1>1. /\ wire' \in Seq(Events) /\ Len(wire') <= HighWater
      /\ outbox' \in Seq(Events) /\ Len(outbox') <= Len(outbox)
      /\ paused' \in BOOLEAN
      /\ ~paused' => outbox' = <<>> /\ Len(wire') < HighWater
  BY FlushProperties DEF OutboxInv, TypeOK
<1>2. Len(outbox') <= OUTBOX_MAX
  <2>1. Len(outbox) \in Nat /\ Len(outbox') \in Nat /\ OUTBOX_MAX \in Nat
    BY <1>1, LenProperties, OutboxAssumption DEF OutboxInv, TypeOK
  <2> QED
    BY <1>1, <2>1 DEF OutboxInv, TypeOK
<1>3. TypeOK'
  BY <1>1, <1>2 DEF OutboxInv, TypeOK
<1> QED
  BY <1>1, <1>3 DEF OutboxInv, NoneHeldBack, WireOfConnection

LEMMA CallbackOutbox ==
    ASSUME OutboxInv, Callback
    PROVE  OutboxInv'
<1> USE DEF OutboxInv, TypeOK, WireOfConnection, NoneHeldBack
<1>1. CASE OnConnect
  <2>1. <<>> \in Seq(Events) /\ Len(<<>>) = 0 /\ 0 <= HighWater
    BY OutboxAssumption, EmptySeq
  <2> QED
    BY <1>1, <2>1, FlushedOutbox DEF OnConnect
<1>2. CASE OnDrain
  BY <1>2, FlushedOutbox DEF OnDrain
<1>3. CASE OnClose
  <2>1. <<>> \in Seq(Events) /\ Len(<<>>) = 0 /\ 0 <= HighWater
    BY OutboxAssumption, EmptySeq
  <2> QED
    BY <1>3, <2>1 DEF OnClose
<1>4. CASE EndBackoff
  BY <1>4 DEF EndBackoff
<1> QED
  BY <1>1, <1>2, <1>3, <1>4 DEF Callback

LEMMA DaemonOutbox ==
    ASSUME OutboxInv, HandlePiEvent \/ TimeOut \/ Refuse \/ EndDaemon \/ StartDaemon \/ Miss
    PROVE  OutboxInv'
<1> USE OutboxAssumption DEF OutboxInv, TypeOK, WireOfConnection, NoneHeldBack, extension
<1>1. CASE HandlePiEvent
  <2>1. Head(wire) \in Events /\ Tail(wire) \in Seq(Events) /\ Len(Tail(wire)) = Len(wire) - 1
    BY <1>1, HeadTailProperties DEF HandlePiEvent
  <2> QED
    BY <1>1, <2>1, LenProperties DEF HandlePiEvent
<1>2. CASE TimeOut
  BY <1>2 DEF TimeOut
<1>3. CASE Refuse
  <2>1. faults' \in 0 .. MaxFaults
    BY <1>3 DEF Refuse
  <2> QED
    BY <1>3, <2>1 DEF Refuse
<1>4. CASE EndDaemon
  <2>1. faults' \in 0 .. MaxFaults
    BY <1>4 DEF EndDaemon
  <2> QED
    BY <1>4, <2>1 DEF EndDaemon
<1>5. CASE StartDaemon
  BY <1>5 DEF StartDaemon
<1>6. CASE Miss
  BY <1>6 DEF Miss
<1> QED
  BY <1>1, <1>2, <1>3, <1>4, <1>5, <1>6

LEMMA OutboxInductive == OutboxInv /\ [Next \/ Miss]_vars => OutboxInv'
<1> SUFFICES ASSUME OutboxInv, [Next \/ Miss]_vars
             PROVE  OutboxInv'
  OBVIOUS
<1>1. CASE UNCHANGED vars
  BY <1>1 DEF OutboxInv, TypeOK, NoneHeldBack, WireOfConnection, vars, extension
<1>2. CASE \E e \in Events : send(e)
  BY <1>2, SendOutbox
<1>3. CASE Callback
  BY <1>3, CallbackOutbox
<1>4. CASE HandlePiEvent \/ TimeOut \/ Refuse \/ EndDaemon \/ StartDaemon \/ Miss
  BY <1>4, DaemonOutbox
<1> QED
  BY <1>1, <1>2, <1>3, <1>4 DEF Next

\* What the TUI's side adds to the extension's and the daemon's steps.
LEMMA DeliveryStep == [DeliveryNext]_allVars => [Next \/ Miss]_vars
<1> SUFFICES ASSUME [DeliveryNext]_allVars
             PROVE  [Next \/ Miss]_vars
  OBVIOUS
<1>1. CASE UNCHANGED allVars
  BY <1>1 DEF allVars
<1>2. CASE PiWorks \/ ExtensionStep \/ ((TimeOut \/ Refuse \/ StartDaemon) /\ UNCHANGED tuiVars)
  BY <1>2 DEF PiWorks, ExtensionStep, Next
<1>3. CASE DaemonStep
  BY <1>3 DEF DaemonStep, Publish, Handshake, Subscribe, ListSessions, Next
<1>4. CASE ClientStep
  BY <1>4 DEF ClientStep, Connect, Greeted, Read, Disconnect
<1>5. CASE Expire \/ Stop \/ Discover
  BY <1>5 DEF Expire, Stop, Discover, Next, Miss
<1> QED
  BY <1>1, <1>2, <1>3, <1>4, <1>5 DEF DeliveryNext

\* The outbox stays within its limit, and the socket is not written to once it
\* has asked for a pause, however pi's events, callbacks, faults and restarts
\* of the daemon and the TUI's steps interleave.
THEOREM OutboxTyped == DeliverySpec => []TypeOK
<1>1. DeliveryInit => OutboxInv
  BY InitOutbox DEF DeliveryInit
<1>2. OutboxInv /\ [DeliveryNext]_allVars => OutboxInv'
  BY OutboxInductive, DeliveryStep
<1>3. OutboxInv => TypeOK
  BY DEF OutboxInv
<1> QED
  BY <1>1, <1>2, <1>3, PTL DEF DeliverySpec

\* While the socket takes lines, none is held back in the outbox.
THEOREM NothingHeldBack == DeliverySpec => []NoneHeldBack
<1>1. DeliveryInit => OutboxInv
  BY InitOutbox DEF DeliveryInit
<1>2. OutboxInv /\ [DeliveryNext]_allVars => OutboxInv'
  BY OutboxInductive, DeliveryStep
<1>3. OutboxInv => NoneHeldBack
  BY DEF OutboxInv
<1> QED
  BY <1>1, <1>2, <1>3, PTL DEF DeliverySpec

-----------------------------------------------------------------------------
(* The refinement: events are lost, but neither reordered nor repeated *)

LEMMA PartOfItself ==
    ASSUME NEW S, NEW s \in Seq(S)
    PROVE  Fifo!PartOf(s, s)
<1> DEFINE place == [i \in DOMAIN s |-> i]
<1>1. place \in [DOMAIN s -> DOMAIN s]
  OBVIOUS
<1>2. /\ \A i, j \in DOMAIN s : i < j => place[i] < place[j]
      /\ \A i \in DOMAIN s : s[i] = s[place[i]]
  OBVIOUS
<1> QED
  BY <1>1, <1>2 DEF Fifo!PartOf

\* The lines of a socket that is closed are lost.
LEMMA PartWithoutFront ==
    ASSUME NEW S, NEW front \in Seq(S), NEW s \in Seq(S)
    PROVE  Fifo!PartOf(s, front \o s)
<1> DEFINE place == [i \in DOMAIN s |-> i + Len(front)]
<1>1. /\ DOMAIN s = 1 .. Len(s) /\ Len(s) \in Nat /\ Len(front) \in Nat
      /\ DOMAIN (front \o s) = 1 .. Len(front) + Len(s)
  BY ConcatProperties, LenProperties
<1>2. place \in [DOMAIN s -> DOMAIN (front \o s)]
  BY <1>1
<1>3. ASSUME NEW i \in DOMAIN s
      PROVE  s[i] = (front \o s)[place[i]]
  <2>1. place[i] \in 1 .. Len(front) + Len(s) /\ ~(place[i] <= Len(front))
        /\ place[i] - Len(front) = i
    BY <1>1
  <2> QED
    BY <2>1, ConcatProperties
<1>4. \A i, j \in DOMAIN s : i < j => place[i] < place[j]
  BY <1>1
<1> QED
  BY <1>2, <1>3, <1>4 DEF Fifo!PartOf

\* The oldest line of a full outbox gives way to a new one.
LEMMA PartWithoutOldest ==
    ASSUME NEW S, NEW front \in Seq(S), NEW s \in Seq(S), s # <<>>, NEW e \in S
    PROVE  Fifo!PartOf(front \o Append(Tail(s), e), Append(front \o s, e))
<1> DEFINE part == front \o Append(Tail(s), e)
           whole == Append(front \o s, e)
           place == [i \in DOMAIN part |-> IF i <= Len(front) THEN i ELSE i + 1]
<1>1. /\ Len(s) \in Nat /\ Len(front) \in Nat /\ Len(s) # 0
      /\ Tail(s) \in Seq(S) /\ Len(Tail(s)) = Len(s) - 1
      /\ \A i \in 1 .. Len(s) - 1 : Tail(s)[i] = s[i + 1]
  BY HeadTailProperties, LenProperties, EmptySeq
<1>2. /\ Append(Tail(s), e) \in Seq(S) /\ Len(Append(Tail(s), e)) = Len(s)
      /\ \A i \in 1 .. Len(s) - 1 : Append(Tail(s), e)[i] = s[i + 1]
      /\ Append(Tail(s), e)[Len(s)] = e
  <2>1. Len(Tail(s)) + 1 = Len(s)
    BY <1>1
  <2> QED
    BY <1>1, <2>1, AppendProperties
<1>3. /\ part \in Seq(S) /\ Len(part) = Len(front) + Len(s)
      /\ \A i \in 1 .. Len(front) + Len(s) :
            part[i] = IF i <= Len(front) THEN front[i] ELSE Append(Tail(s), e)[i - Len(front)]
  BY <1>2, ConcatProperties
<1>4. /\ front \o s \in Seq(S) /\ Len(front \o s) = Len(front) + Len(s)
      /\ \A i \in 1 .. Len(front) + Len(s) :
            (front \o s)[i] = IF i <= Len(front) THEN front[i] ELSE s[i - Len(front)]
  BY ConcatProperties
<1>5. /\ whole \in Seq(S) /\ Len(whole) = Len(front) + Len(s) + 1
      /\ \A i \in 1 .. Len(front) + Len(s) : whole[i] = (front \o s)[i]
      /\ whole[Len(front) + Len(s) + 1] = e
  BY <1>4, AppendProperties
<1>6. DOMAIN part = 1 .. Len(front) + Len(s) /\ DOMAIN whole = 1 .. Len(front) + Len(s) + 1
  BY <1>3, <1>5, LenProperties
<1> HIDE DEF part, whole
<1>7. place \in [DOMAIN part -> DOMAIN whole]
  BY <1>1, <1>6
<1>8. \A i, j \in DOMAIN part : i < j => place[i] < place[j]
  BY <1>1, <1>6
<1>9. ASSUME NEW i \in DOMAIN part
      PROVE  part[i] = whole[place[i]]
  <2>1. CASE i <= Len(front)
    <3>1. place[i] = i /\ i \in 1 .. Len(front) + Len(s)
      BY <1>6, <2>1
    <3> QED
      BY <1>3, <1>4, <1>5, <2>1, <3>1
  <2>2. CASE Len(front) < i /\ i < Len(front) + Len(s)
    <3>1. /\ place[i] = i + 1 /\ i + 1 \in 1 .. Len(front) + Len(s) /\ ~(i + 1 <= Len(front))
          /\ i - Len(front) \in 1 .. Len(s) - 1 /\ (i + 1) - Len(front) = (i - Len(front)) + 1
          /\ i \in 1 .. Len(front) + Len(s) /\ ~(i <= Len(front))
      BY <1>1, <1>6, <2>2
    <3>2. part[i] = Append(Tail(s), e)[i - Len(front)]
      BY <1>3, <3>1
    <3>3. whole[place[i]] = s[(i + 1) - Len(front)]
      BY <1>4, <1>5, <3>1
    <3> QED
      BY <1>2, <3>1, <3>2, <3>3
  <2>3. CASE i = Len(front) + Len(s)
    <3>1. /\ place[i] = Len(front) + Len(s) + 1 /\ ~(i <= Len(front)) /\ i - Len(front) = Len(s)
          /\ i \in 1 .. Len(front) + Len(s)
      BY <1>1, <1>6, <2>3
    <3> QED
      BY <1>2, <1>3, <1>5, <3>1
  <2> QED
    BY <1>1, <1>6, <2>1, <2>2, <2>3
<1> QED
  BY <1>7, <1>8, <1>9 DEF Fifo!PartOf, part, whole

LEMMA FrontOfConcat ==
    ASSUME NEW S, NEW front \in Seq(S), NEW s \in Seq(S), front # <<>>
    PROVE  /\ front \o s # <<>>
           /\ Head(front \o s) = Head(front)
           /\ Tail(front \o s) = Tail(front) \o s
<1>1. /\ Head(front) \in S /\ Tail(front) \in Seq(S) /\ Len(Tail(front)) = Len(front) - 1
      /\ \A i \in 1 .. Len(front) - 1 : Tail(front)[i] = front[i + 1]
  BY HeadTailProperties
<1>2. /\ front \o s \in Seq(S) /\ Len(front \o s) = Len(front) + Len(s)
      /\ \A i \in 1 .. Len(front) + Len(s) :
            (front \o s)[i] = IF i <= Len(front) THEN front[i] ELSE s[i - Len(front)]
  BY ConcatProperties
<1>3. Len(front) \in Nat /\ Len(front) # 0 /\ Len(s) \in Nat
  BY LenProperties, EmptySeq
<1>4. front \o s # <<>>
  BY <1>2, <1>3, EmptySeq
<1>5. /\ Tail(front \o s) \in Seq(S) /\ Len(Tail(front \o s)) = Len(front) + Len(s) - 1
      /\ \A i \in 1 .. Len(front) + Len(s) - 1 : Tail(front \o s)[i] = (front \o s)[i + 1]
  BY <1>2, <1>4, HeadTailProperties
<1>6. /\ Tail(front) \o s \in Seq(S) /\ Len(Tail(front) \o s) = Len(front) - 1 + Len(s)
      /\ \A i \in 1 .. Len(front) - 1 + Len(s) :
            (Tail(front) \o s)[i] = IF i <= Len(front) - 1 THEN Tail(front)[i]
                                   ELSE s[i - (Len(front) - 1)]
  BY <1>1, ConcatProperties
<1>7. ASSUME NEW i \in 1 .. Len(front) + Len(s) - 1
      PROVE  Tail(front \o s)[i] = (Tail(front) \o s)[i]
  <2>1. /\ i + 1 \in 1 .. Len(front) + Len(s) /\ i \in 1 .. Len(front) - 1 + Len(s)
        /\ (i + 1) - Len(front) = i - (Len(front) - 1)
    BY <1>3
  <2>2. CASE i + 1 <= Len(front)
    <3>1. i <= Len(front) - 1 /\ i \in 1 .. Len(front) - 1
      BY <1>3, <2>2
    <3> QED
      BY <1>1, <1>2, <1>5, <1>6, <2>1, <2>2, <3>1
  <2>3. CASE ~(i + 1 <= Len(front))
    <3>1. ~(i <= Len(front) - 1)
      BY <1>3, <2>3
    <3> QED
      BY <1>2, <1>5, <1>6, <2>1, <2>3, <3>1
  <2> QED
    BY <2>2, <2>3
<1>8. Tail(front \o s) = Tail(front) \o s
  <2>1. Len(Tail(front \o s)) = Len(Tail(front) \o s)
        /\ Len(Tail(front \o s)) = Len(front) + Len(s) - 1
    BY <1>3, <1>5, <1>6
  <2> QED
    BY <1>5, <1>6, <1>7, <2>1, SeqEqual
<1>9. Head(front \o s) = Head(front)
  <2>1. 1 \in 1 .. Len(front) + Len(s) /\ 1 <= Len(front)
    BY <1>3
  <2> QED
    BY <1>2, <1>4, <2>1
<1> QED
  BY <1>4, <1>8, <1>9

LEMMA SendRefines ==
    ASSUME OutboxInv, NEW e \in Events, send(e)
    PROVE  [Fifo!Next]_(Fifo!vars)
<1> USE DEF OutboxInv, TypeOK
<1>1. UNCHANGED known
  BY DEF send
<1>2. wire \in Seq(Events) /\ outbox \in Seq(Events) /\ wire \o outbox \in Seq(Events)
  BY ConcatProperties
<1>3. CASE link = "active" /\ ~paused
  <2>1. wire' = Append(wire, e) /\ outbox' = outbox /\ outbox = <<>>
    BY <1>3 DEF send, WriteOrQueue, NoneHeldBack
  <2>2. wire' \in Seq(Events)
    BY <1>2, <2>1, AppendProperties
  <2>3. wire' \o outbox' = Append(wire \o outbox, e)
    BY <1>2, <2>1, <2>2, ConcatEmptySeq
  <2>4. Fifo!PartOf((wire \o outbox)', Append(wire \o outbox, e))
    BY <1>2, <2>3, AppendProperties, PartOfItself
  <2> QED
    BY <1>1, <2>4 DEF Fifo!Next, Fifo!Happen
<1>4. CASE enqueue(e) /\ UNCHANGED wire
  <2>1. CASE outbox' = Append(outbox, e)
    <3>1. wire \o Append(outbox, e) = Append(wire \o outbox, e)
      <4>1. /\ Append(outbox, e) = outbox \o <<e>> /\ <<e>> \in Seq(Events)
            /\ Append(wire \o outbox, e) = (wire \o outbox) \o <<e>>
        BY <1>2, AppendIsConcat
      <4> QED
        BY <1>2, <4>1, ConcatAssociative
    <3>2. Fifo!PartOf((wire \o outbox)', Append(wire \o outbox, e))
      BY <1>2, <1>4, <2>1, <3>1, AppendProperties, PartOfItself
    <3> QED
      BY <1>1, <3>2 DEF Fifo!Next, Fifo!Happen
  <2>2. CASE outbox # <<>> /\ outbox' = Append(Tail(outbox), e)
    <3>1. Fifo!PartOf((wire \o outbox)', Append(wire \o outbox, e))
      BY <1>2, <1>4, <2>2, PartWithoutOldest
    <3> QED
      BY <1>1, <3>1 DEF Fifo!Next, Fifo!Happen
  <2> QED
    BY <1>4, <2>1, <2>2, EnqueueProperties
<1>5. CASE UNCHANGED <<outbox, wire>>
  BY <1>1, <1>5 DEF Fifo!vars
<1> QED
  BY <1>3, <1>4, <1>5 DEF send, WriteOrQueue

LEMMA CallbackRefines ==
    ASSUME OutboxInv, Callback
    PROVE  [Fifo!Next]_(Fifo!vars)
<1> USE DEF OutboxInv, TypeOK
<1>1. CASE OnConnect
  <2>1. <<>> \in Seq(Events) /\ Len(<<>>) = 0 /\ 0 <= HighWater
    BY OutboxAssumption, EmptySeq
  <2>2. wire' \o outbox' = <<>> \o outbox
    BY <1>1, <2>1, FlushProperties DEF OnConnect
  <2>3. wire = <<>>
    BY <1>1 DEF OnConnect, WireOfConnection
  <2> QED
    BY <1>1, <2>2, <2>3 DEF OnConnect, Fifo!vars
<1>2. CASE OnDrain
  <2>1. wire' \o outbox' = wire \o outbox
    BY <1>2, FlushProperties DEF OnDrain
  <2> QED
    BY <1>2, <2>1 DEF OnDrain, Fifo!vars
<1>3. CASE OnClose
  <2>1. (wire \o outbox)' = outbox
    BY <1>3, ConcatEmptySeq DEF OnClose
  <2>2. Fifo!PartOf((wire \o outbox)', wire \o outbox)
    BY <2>1, PartWithoutFront
  <2> QED
    BY <1>3, <2>2 DEF OnClose, Fifo!Next, Fifo!Lose
<1>4. CASE EndBackoff
  BY <1>4 DEF EndBackoff, Fifo!vars
<1> QED
  BY <1>1, <1>2, <1>3, <1>4 DEF Callback

LEMMA DaemonRefines ==
    ASSUME OutboxInv, HandlePiEvent \/ TimeOut \/ Refuse \/ EndDaemon \/ StartDaemon \/ Miss
    PROVE  [Fifo!Next]_(Fifo!vars)
<1> USE DEF OutboxInv, TypeOK, extension
<1>1. CASE HandlePiEvent
  <2>1. /\ wire # <<>> /\ known' = Head(wire) /\ wire' = Tail(wire) /\ outbox' = outbox
    BY <1>1 DEF HandlePiEvent
  <2>2. /\ wire \o outbox # <<>>
        /\ Head(wire \o outbox) = Head(wire)
        /\ Tail(wire \o outbox) = Tail(wire) \o outbox
    BY <2>1, FrontOfConcat
  <2> QED
    BY <2>1, <2>2 DEF Fifo!Next, Fifo!Hear
<1>2. CASE EndDaemon
  BY <1>2 DEF EndDaemon, Fifo!Next, Fifo!Forget
<1>3. CASE TimeOut \/ Refuse \/ StartDaemon \/ Miss
  BY <1>3 DEF TimeOut, Refuse, StartDaemon, Miss, Fifo!vars
<1> QED
  BY <1>1, <1>2, <1>3

\* The daemon hears the events of a pi process in their order and none twice:
\* every step of the extension, the socket and the daemon is a step of the lossy
\* queue, or none.
THEOREM EventsInOrder == DeliverySpec => InOrder
<1>1. DeliveryInit => OutboxInv /\ Fifo!Init
  BY InitOutbox, EmptySeq, ConcatEmptySeq DEF DeliveryInit, Init, Fifo!Init
<1>2. OutboxInv /\ [DeliveryNext]_allVars => OutboxInv'
  BY OutboxInductive, DeliveryStep
<1>3. OutboxInv /\ [DeliveryNext]_allVars => [Fifo!Next]_(Fifo!vars)
  <2> SUFFICES ASSUME OutboxInv, [Next \/ Miss]_vars
               PROVE  [Fifo!Next]_(Fifo!vars)
    BY DeliveryStep
  <2>1. CASE UNCHANGED vars
    BY <2>1 DEF vars, extension, Fifo!vars
  <2> QED
    BY <2>1, SendRefines, CallbackRefines, DaemonRefines DEF Next
<1> QED
  BY <1>1, <1>2, <1>3, PTL DEF DeliverySpec, InOrder, Fifo!Spec

=============================================================================
