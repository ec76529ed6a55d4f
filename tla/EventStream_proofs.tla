------------------------- MODULE EventStream_proofs -------------------------
(* Safety of EventStream for any number of writers, connections and events.   *)
EXTENDS EventStream, SequenceTheorems, TLAPS

------------------------------------------------------------------------------
(* Sequences of events as sets.                                               *)

LEMMA AppendElements ==
  ASSUME NEW s \in Seq(Events), NEW n \in Events
  PROVE  Append(s, n) \in Seq(Events) /\ Elements(Append(s, n)) = Elements(s) \cup {n}
<1>1. /\ Append(s, n) \in Seq(Events) /\ DOMAIN s = 1..Len(s) /\ Len(s) \in Nat
      /\ DOMAIN Append(s, n) = 1..(Len(s) + 1)
      /\ \A i \in 1..Len(s) : Append(s, n)[i] = s[i]
      /\ Append(s, n)[Len(s) + 1] = n
  BY AppendProperties
<1>2. DOMAIN Append(s, n) = DOMAIN s \cup {Len(s) + 1}
  BY <1>1
<1> QED
  BY <1>1, <1>2 DEF Elements

LEMMA TailElements ==
  ASSUME NEW s \in Seq(Events), s # <<>>
  PROVE  /\ Head(s) \in Events /\ Head(s) \in Elements(s)
         /\ Tail(s) \in Seq(Events) /\ Elements(Tail(s)) \subseteq Elements(s)
<1>1. /\ Tail(s) \in Seq(Events) /\ Head(s) \in Events /\ Head(s) = s[1]
      /\ Len(s) \in Nat \ {0} /\ DOMAIN s = 1..Len(s)
      /\ DOMAIN Tail(s) = 1..(Len(s) - 1)
      /\ \A i \in 1..(Len(s) - 1) : Tail(s)[i] = s[i + 1]
  BY HeadTailProperties
<1> QED
  BY <1>1 DEF Elements

LEMMA RestElements ==
  ASSUME NEW s \in Seq(Events), NEW i \in DOMAIN s
  PROVE  /\ s[i] \in Events /\ s[i] \in Elements(s)
         /\ SubSeq(s, i + 1, Len(s)) \in Seq(Events)
         /\ Elements(SubSeq(s, i + 1, Len(s))) \subseteq Elements(s)
<1>1. DOMAIN s = 1..Len(s) /\ Len(s) \in Nat /\ \A l \in 1..Len(s) : s[l] \in Events
  BY LenProperties, ElementOfSeq
<1> DEFINE r == SubSeq(s, i + 1, Len(s))
<1>2. /\ r \in Seq(Events) /\ DOMAIN r = 1..(Len(s) - i)
      /\ \A l \in 1..(Len(s) - i) : r[l] = s[i + l]
  BY <1>1, SubSeqProperties
<1>3. \A l \in 1..(Len(s) - i) : i + l \in DOMAIN s
  BY <1>1
<1> HIDE DEF r
<1>4. Elements(r) \subseteq Elements(s)
  BY <1>2, <1>3 DEF Elements
<1> QED
  BY <1>1, <1>2, <1>4 DEF Elements, r

(* The lines with a newline are all but the last one, when that has none.     *)
LEMMA EndedElements ==
  ASSUME TypeOK
  PROVE  /\ Ended \in Seq(Events) /\ Elements(Ended) \subseteq Elements(file)
         /\ Elements(file) \subseteq Elements(Ended) \cup {cut}
         /\ cut = 0 => Ended = file
<1>1. CASE ~(cut # 0 /\ file # <<>> /\ file[Len(file)] = cut)
  BY <1>1 DEF Ended, TypeOK
<1>2. CASE cut # 0 /\ file # <<>> /\ file[Len(file)] = cut
  <2>1. /\ file \in Seq(Events) /\ DOMAIN file = 1..Len(file) /\ Len(file) \in Nat \ {0}
        /\ \A l \in 1..Len(file) : file[l] \in Events
    BY <1>2, LenProperties, ElementOfSeq, EmptySeq DEF TypeOK
  <2> DEFINE r == SubSeq(file, 1, Len(file) - 1)
  <2>2. /\ r \in Seq(Events) /\ DOMAIN r = 1..(Len(file) - 1)
        /\ \A l \in 1..(Len(file) - 1) : r[l] = file[l]
    BY <2>1, SubSeqProperties
  <2>3. Ended = r
    BY <1>2 DEF Ended
  <2> HIDE DEF r
  <2>4. \A l \in DOMAIN file : l \in DOMAIN r \/ l = Len(file)
    BY <2>1, <2>2
  <2>5. Elements(r) \subseteq Elements(file)
    BY <2>1, <2>2 DEF Elements
  <2>6. Elements(file) \subseteq Elements(r) \cup {cut}
    BY <1>2, <2>1, <2>2, <2>4 DEF Elements
  <2> QED
    BY <1>2, <2>2, <2>3, <2>5, <2>6
<1> QED
  BY <1>1, <1>2

LEMMA NothingInEmpty == <<>> \in Seq(Events) /\ Elements(<<>>) = {}
BY EmptySeq DEF Elements

------------------------------------------------------------------------------
(* Every step keeps the inductive invariant.                                  *)

(* The state of a handler, and what replacing one of its fields gives.        *)
Handlers == [at : {"none", "accepted", "replay", "stream", "closed"},
             replay : Seq(Events), after : Nat]

LEMMA HandlerFields ==
  ASSUME NEW h \in Handlers
  PROVE  /\ \A r \in Seq(Events) : /\ [h EXCEPT !.replay = r] \in Handlers
                                   /\ [h EXCEPT !.replay = r].replay = r
         /\ /\ [h EXCEPT !.at = "accepted"] \in Handlers
            /\ [h EXCEPT !.at = "accepted"].replay = h.replay
BY DEF Handlers

LEMMA InactiveHandlers ==
  /\ Inactive("none") \in Handlers /\ Inactive("none").replay = <<>>
  /\ Inactive("stream") \in Handlers /\ Inactive("stream").replay = <<>>
  /\ Inactive("closed") \in Handlers /\ Inactive("closed").replay = <<>>
BY NothingInEmpty DEF Inactive, Handlers

LEMMA InitIsSound == Init => StreamInv
<1> SUFFICES ASSUME Init PROVE StreamInv
  OBVIOUS
<1>1. TypeOK
  <2>1. Absent \in Handlers
    BY InactiveHandlers DEF Absent
  <2>2. 0 \in 0..MaxEvents /\ 0 \in 0..Attempts
    BY AttemptsAssumption, EventsAssumption
  <2> QED
    BY <2>1, <2>2, NothingInEmpty DEF Init, Resting, TypeOK, Handlers
<1>2. Written = {}
  BY NothingInEmpty DEF Init, Written, Glued
<1>3. WrittenFirst /\ SeenIsReplayable /\ CutOnce
  BY <1>2, NothingInEmpty
     DEF Init, Absent, Inactive, Resting, WrittenFirst, SeenIsReplayable, CutOnce, Glued
<1> QED
  BY <1>1, <1>3 DEF StreamInv

(* A step that writes nothing and gives no goroutine another event.           *)
LEMMA NothingPut ==
  ASSUME StreamInv, UNCHANGED <<lines, made>>, Elements(seen') \subseteq Written,
         \A v \in Writers :
           /\ writer'[v].at # "idle" => /\ writer[v].at # "idle"
                                        /\ writer'[v].event = writer[v].event
           /\ writer'[v].at = "write" => writer[v].at = "write"
  PROVE  Written' = Written /\ CutOnce' /\ SeenIsReplayable'
<1>1. Written' = Written /\ Glued' = Glued
  BY DEF lines, Written, Glued
<1>2. CutOnce'
  BY <1>1 DEF StreamInv, CutOnce, lines
<1>3. SeenIsReplayable'
  BY <1>1 DEF StreamInv, SeenIsReplayable, lines
<1> QED
  BY <1>1, <1>2, <1>3

LEMMA AppendBeginKeeps ==
  ASSUME StreamInv, NEW w \in Writers, AppendBegin(w)
  PROVE  StreamInv'
<1> USE DEF StreamInv, AppendBegin, NewEvent, reader, lines
<1>1. /\ made + 1 \in Events /\ made + 1 \in 0..MaxEvents /\ made \in Nat
      /\ 1..made \subseteq 1..(made + 1) /\ made + 1 \in 1..(made + 1) /\ made + 1 \notin 1..made
  BY EventsAssumption DEF TypeOK, Events
<1>2. /\ \A v \in Writers \ {w} : writer'[v] = writer[v]
      /\ writer'[w] = [at |-> "write", event |-> made + 1, to |-> subscribers]
      /\ InHand \subseteq Events
  BY DEF TypeOK, InHand, WrittenFirst
<1>3. TypeOK'
  BY <1>1, <1>2 DEF TypeOK
<1>4. Written' = Written /\ Glued' = Glued
  BY DEF Written, Glued
<1>5. WrittenFirst'
  BY <1>1, <1>2, <1>4 DEF TypeOK, WrittenFirst
<1>6. CutOnce'
  <2>1. Written' \subseteq 1..made' /\ made + 1 \notin Written
    BY <1>1, <1>4 DEF CutOnce
  <2>2. \A v \in Writers : writer'[v].at # "idle" => writer'[v].event \in 1..made'
    BY <1>1, <1>2 DEF CutOnce
  <2>3. \A v \in Writers : writer'[v].at = "write" => writer'[v].event \notin Written'
    BY <1>2, <1>4, <2>1 DEF CutOnce
  <2>4. \A u, v \in Writers : u # v /\ writer'[u].at # "idle" /\ writer'[v].at # "idle" =>
          writer'[u].event # writer'[v].event
    BY <1>1, <1>2 DEF CutOnce
  <2> QED
    BY <1>4, <2>1, <2>2, <2>3, <2>4 DEF CutOnce
<1>7. SeenIsReplayable'
  BY <1>4 DEF SeenIsReplayable
<1> QED
  BY <1>3, <1>5, <1>6, <1>7

(* What is left of a fanout, or of none.                                      *)
LEMMA FanOutType ==
  ASSUME TypeOK, NEW w \in Writers, NEW to \in SUBSET Connections
  PROVE  /\ FanOut(w, to) \in [at : {"idle", "write", "send"}, event : 0..MaxEvents,
                               to : SUBSET Connections]
         /\ FanOut(w, to).at # "idle" => FanOut(w, to).event = writer[w].event
         /\ FanOut(w, to).at # "write"
BY EventsAssumption DEF FanOut, Resting, TypeOK

(* What is put into the file is written, and nothing that was is not.         *)
LEMMA WritesKeep ==
  ASSUME TypeOK, CutOnce, NEW n \in Events,
         \/ /\ file' = IF cut = 0 THEN Append(file, n) ELSE Ended
            /\ glued' = [glued EXCEPT ![n] = cut] /\ cut' = 0 /\ UNCHANGED cuts
         \/ PutPart(n)
         \/ UNCHANGED lines
  PROVE  /\ file' \in Seq(Events) /\ cut' \in 0..MaxEvents /\ cuts' \subseteq Events
         /\ glued' \in [Events -> 0..MaxEvents]
         /\ Written \subseteq Written' /\ Written' \subseteq Written \cup {n}
         /\ n \in Written' \/ UNCHANGED lines
<1>1. /\ Append(file, n) \in Seq(Events) /\ Elements(Append(file, n)) = Elements(file) \cup {n}
      /\ Ended \in Seq(Events) /\ Elements(Ended) \subseteq Elements(file)
      /\ Elements(file) \subseteq Elements(Ended) \cup {cut} /\ (cut = 0 => Ended = file)
      /\ Events \subseteq 0..MaxEvents /\ 0 \in 0..MaxEvents
      /\ glued \in [Events -> 0..MaxEvents] /\ cut \in 0..MaxEvents
  <2>1. /\ file \in Seq(Events) /\ glued \in [Events -> 0..MaxEvents] /\ cut \in 0..MaxEvents
        /\ Events \subseteq 0..MaxEvents /\ 0 \in 0..MaxEvents
    BY EventsAssumption DEF TypeOK, Events
  <2>2. Append(file, n) \in Seq(Events) /\ Elements(Append(file, n)) = Elements(file) \cup {n}
    BY <2>1, AppendElements
  <2> QED
    BY <2>1, <2>2, EndedElements
<1>2. cut # 0 => cut \in cuts
  BY DEF CutOnce
<1>3. CASE UNCHANGED lines
  BY <1>3 DEF lines, Written, Glued, TypeOK
<1>4. CASE PutPart(n)
  <2>1. cut' = n /\ cuts' = cuts \cup {n} /\ glued' = glued /\ Glued' = Glued
    BY <1>4 DEF PutPart, Glued
  <2>2. /\ file' \in Seq(Events) /\ Elements(file') \subseteq Elements(file) \cup {n}
        /\ Elements(file) \subseteq Elements(file') \cup cuts
    BY <1>1, <1>2, <1>4 DEF PutPart
  <2>3. cuts \subseteq Events /\ n \in 0..MaxEvents
    BY <1>1 DEF TypeOK
  <2> QED
    BY <1>1, <2>1, <2>2, <2>3 DEF Written
<1>5. CASE /\ file' = IF cut = 0 THEN Append(file, n) ELSE Ended
           /\ glued' = [glued EXCEPT ![n] = cut] /\ cut' = 0 /\ UNCHANGED cuts
  <2>1. CASE cut = 0
    <3>1. glued' \in [Events -> 0..MaxEvents] /\ Glued' = Glued \ {n}
      BY <1>1, <1>5, <2>1 DEF Glued
    <3> QED
      BY <1>1, <1>5, <2>1, <3>1 DEF Written, TypeOK
  <2>2. CASE cut # 0
    <3>1. glued' \in [Events -> 0..MaxEvents] /\ Glued' = Glued \cup {n}
      BY <1>1, <1>5, <2>2 DEF Glued
    <3> QED
      BY <1>1, <1>2, <1>5, <2>2, <3>1 DEF Written, TypeOK
  <2> QED
    BY <2>1, <2>2
<1> QED
  BY <1>3, <1>4, <1>5

(* Each cut line has cost one event at most, and costs no more once closed.   *)
LEMMA CutsKeep ==
  ASSUME StreamInv, NEW w \in Writers, AppendWrite(w) \/ AppendFails(w)
  PROVE  StreamInv'
<1> DEFINE n == writer[w].event
<1> USE DEF StreamInv
<1>1. /\ n \in Events /\ n \in 1..made /\ n \notin Written /\ writer[w].to \in SUBSET Connections
      /\ writer[w].at = "write"
  BY DEF WrittenFirst, CutOnce, TypeOK, AppendWrite, AppendFails
<1>2. /\ UNCHANGED <<up, panicked, nextID, made, idOf, during, subscribers, chan, handler, reader>>
      /\ \/ /\ file' = IF cut = 0 THEN Append(file, n) ELSE Ended
            /\ glued' = [glued EXCEPT ![n] = cut] /\ cut' = 0 /\ UNCHANGED cuts
            /\ writer' = [writer EXCEPT ![w] = FanOut(w, writer[w].to)]
         \/ PutPart(n) /\ writer' = [writer EXCEPT ![w] = Resting]
         \/ UNCHANGED lines /\ writer' = [writer EXCEPT ![w] = Resting]
  BY DEF AppendWrite, AppendFails, PutNothing
<1>3. /\ file' \in Seq(Events) /\ cut' \in 0..MaxEvents /\ cuts' \subseteq Events
      /\ glued' \in [Events -> 0..MaxEvents]
      /\ Written \subseteq Written' /\ Written' \subseteq Written \cup {n}
      /\ n \in Written' \/ UNCHANGED lines
  BY <1>1, <1>2, WritesKeep
<1>4. /\ \A v \in Writers \ {w} : writer'[v] = writer[v]
      /\ writer'[w].at # "write" /\ (writer'[w].at # "idle" => writer'[w].event = n /\ n \in Written')
      /\ writer' \in [Writers -> [at : {"idle", "write", "send"}, event : 0..MaxEvents,
                                  to : SUBSET Connections]]
  <2>1. Resting \in [at : {"idle", "write", "send"}, event : 0..MaxEvents, to : SUBSET Connections]
    BY EventsAssumption DEF Resting
  <2>2. writer \in [Writers -> [at : {"idle", "write", "send"}, event : 0..MaxEvents,
                               to : SUBSET Connections]]
    BY DEF TypeOK
  <2>3. UNCHANGED lines => n \notin Written'
    BY <1>1 DEF lines, Written, Glued
  <2>4. CASE writer' = [writer EXCEPT ![w] = Resting]
    BY <2>1, <2>2, <2>4 DEF Resting
  <2>5. CASE /\ file' = IF cut = 0 THEN Append(file, n) ELSE Ended
             /\ glued' = [glued EXCEPT ![n] = cut] /\ cut' = 0 /\ UNCHANGED cuts
             /\ writer' = [writer EXCEPT ![w] = FanOut(w, writer[w].to)]
    <3>1. /\ FanOut(w, writer[w].to) \in [at : {"idle", "write", "send"}, event : 0..MaxEvents,
                                          to : SUBSET Connections]
          /\ FanOut(w, writer[w].to).at # "idle" => FanOut(w, writer[w].to).event = n
          /\ FanOut(w, writer[w].to).at # "write"
      BY <1>1, FanOutType
    <3>2. n \in Written'
      <4>1. CASE cut = 0
        BY <1>1, <2>5, <4>1, AppendElements DEF Written, TypeOK
      <4>2. CASE cut # 0
        BY <1>1, <2>5, <4>2 DEF Written, Glued, TypeOK
      <4> QED
        BY <4>1, <4>2
    <3> DEFINE f == FanOut(w, writer[w].to)
    <3>3. writer' = [writer EXCEPT ![w] = f]
      BY <2>5
    <3> HIDE DEF n, f
    <3>4. writer'[w] = f /\ \A v \in Writers \ {w} : writer'[v] = writer[v]
      BY <2>2, <3>3
    <3>5. /\ f \in [at : {"idle", "write", "send"}, event : 0..MaxEvents, to : SUBSET Connections]
          /\ f.at # "idle" => f.event = n
          /\ f.at # "write"
      BY <3>1 DEF f
    <3>6. writer' \in [Writers -> [at : {"idle", "write", "send"}, event : 0..MaxEvents,
                                  to : SUBSET Connections]]
      BY <2>2, <3>3, <3>5
    <3>7. writer'[w].at # "write" /\ (writer'[w].at # "idle" => writer'[w].event = n /\ n \in Written')
      BY <3>2, <3>4, <3>5
    <3> QED
      BY <3>4, <3>6, <3>7
  <2> QED
    BY <1>2, <2>4, <2>5
<1> HIDE DEF n
<1>5. TypeOK'
  BY <1>2, <1>3, <1>4 DEF TypeOK, reader
<1>6. WrittenFirst'
  BY <1>1, <1>2, <1>3, <1>4 DEF WrittenFirst, TypeOK, reader
<1>7. \A v \in Writers : writer'[v].at # "idle" => /\ writer[v].at # "idle"
                                                   /\ writer'[v].event = writer[v].event
  BY <1>1, <1>4 DEF n
<1>8. \A v \in Writers : writer'[v].at = "write" => /\ writer[v].at = "write" /\ v # w
                                                    /\ writer[v].event # n
  BY <1>1, <1>4 DEF n, CutOnce
<1>9. /\ \A m \in Glued' : /\ glued'[m] \in cuts'
                            /\ \A l \in Glued' : glued'[l] = glued'[m] => l = m
      /\ cut' # 0 => cut' \in cuts' /\ \A m \in Glued' : glued'[m] # cut'
  <2>1. CASE UNCHANGED lines
    BY <2>1 DEF lines, Glued, CutOnce, SeenIsReplayable
  <2>2. CASE PutPart(n)
    BY <1>1, <2>2 DEF PutPart, Glued, CutOnce, SeenIsReplayable, Written
  <2>3. CASE /\ glued' = [glued EXCEPT ![n] = cut] /\ cut' = 0 /\ UNCHANGED cuts
    <3>1. /\ glued'[n] = cut /\ \A m \in Events \ {n} : glued'[m] = glued[m]
          /\ Glued' \subseteq Events /\ Glued' \ {n} \subseteq Glued
      BY <1>1, <2>3 DEF Glued, TypeOK
    <3>2. n \in Glued' => cut # 0
      BY <3>1 DEF Glued
    <3> QED
      BY <2>3, <3>1, <3>2 DEF CutOnce, SeenIsReplayable
  <2> QED
    BY <1>2, <2>1, <2>2, <2>3
<1>10. CutOnce'
  BY <1>1, <1>2, <1>3, <1>7, <1>8, <1>9 DEF CutOnce
<1>11. SeenIsReplayable'
  BY <1>2, <1>3, <1>9 DEF SeenIsReplayable, reader
<1> QED
  BY <1>5, <1>6, <1>10, <1>11

LEMMA SendKeeps ==
  ASSUME StreamInv, NEW w \in Writers, NEW k \in Connections, Send(w, k)
  PROVE  StreamInv'
<1> USE DEF StreamInv, Send, log, lines, reader
<1> DEFINE n == writer[w].event
<1>1. n \in Events /\ n \in Written /\ writer[w].to \ {k} \in SUBSET Connections
  BY DEF WrittenFirst, TypeOK
<1>2. chan' \in [Connections -> Seq(Events)]
  BY <1>1, AppendElements DEF TypeOK
<1>3. \A l \in Connections : Elements(chan'[l]) \subseteq Written
  BY <1>1, AppendElements DEF TypeOK, WrittenFirst
<1>4. TypeOK'
  BY <1>1, <1>2, FanOutType DEF TypeOK
<1>5. WrittenFirst' /\ SeenIsReplayable' /\ CutOnce'
  <2>1. Written' = Written /\ CutOnce' /\ SeenIsReplayable'
    <3>1. UNCHANGED <<file, cut, cuts, glued, made, seen>>
      OBVIOUS
    <3>2. \A v \in Writers :
            /\ writer'[v].at # "idle" => writer[v].at # "idle" /\ writer'[v].event = writer[v].event
            /\ writer'[v].at = "write" => writer[v].at = "write"
      BY <1>1, FanOutType DEF TypeOK
    <3> QED
      BY <3>1, <3>2, NothingPut DEF SeenIsReplayable
  <2> QED
    BY <2>1, <1>1, <1>3, FanOutType DEF TypeOK, WrittenFirst, SeenIsReplayable
<1> QED
  BY <1>4, <1>5

LEMMA GoneKeeps ==
  ASSUME StreamInv, Gone, panicked' \in BOOLEAN
  PROVE  StreamInv'
<1> USE DEF StreamInv, Gone, log, lines
<1>1. TypeOK'
  <2>1. handler' \in [Connections -> Handlers]
    BY InactiveHandlers DEF Absent
  <2>2. writer' \in [Writers -> [at : {"idle", "write", "send"}, event : 0..MaxEvents,
                                to : SUBSET Connections]]
    BY EventsAssumption DEF Resting
  <2>3. chan' \in [Connections -> Seq(Events)] /\ subscribers' \subseteq Connections
    BY NothingInEmpty
  <2> QED
    BY <2>1, <2>2, <2>3 DEF TypeOK, Handlers
<1>2. WrittenFirst' /\ SeenIsReplayable' /\ CutOnce'
  <2>1. Written' = Written /\ CutOnce' /\ SeenIsReplayable'
    BY NothingInEmpty, NothingPut DEF WrittenFirst, SeenIsReplayable, Resting, Absent, Inactive
  <2> QED
    BY <2>1, NothingInEmpty DEF WrittenFirst, SeenIsReplayable, Resting, Absent, Inactive
<1> QED
  BY <1>1, <1>2

(* An event that comes out of the file may be delivered.                      *)
LEMMA DeliverKeeps ==
  ASSUME TypeOK, SeenIsReplayable, NEW k, NEW n \in Events, n \in Written, Deliver(k, n)
  PROVE  /\ client' = client /\ attempt' = attempt
         /\ last' \in Nat /\ since' \in Nat /\ seen' \in Seq(Events) /\ Elements(seen') \subseteq Written
<1>1. CASE client = "reading" /\ k = attempt
  <2>1. Append(seen, n) \in Seq(Events) /\ Elements(Append(seen, n)) = Elements(seen) \cup {n}
    BY AppendElements DEF TypeOK
  <2>2. seen' = Append(seen, n) /\ last' = idOf[n] /\ since' = since /\ client' = client /\ attempt' = attempt
    BY <1>1 DEF Deliver
  <2>3. idOf[n] \in Nat /\ since \in Nat
    BY DEF TypeOK
  <2> QED
    BY <2>1, <2>2, <2>3 DEF SeenIsReplayable
<1>2. CASE ~(client = "reading" /\ k = attempt)
  BY <1>2 DEF Deliver, TypeOK, SeenIsReplayable, reader
<1> QED
  BY <1>1, <1>2

LEMMA ReplayEventsKeeps ==
  ASSUME StreamInv, NEW k \in Connections, ReplayEvents(k)
  PROVE  StreamInv'
<1> USE DEF StreamInv, ReplayEvents, log, lines, reader
<1>1. \A afterID \in IF Resumes THEN {0, last} ELSE {0} : Replay(afterID) \in Nat
  BY ResumesAssumption DEF Replay, TypeOK
<1>2. TypeOK'
  BY <1>1 DEF TypeOK
<1>3. WrittenFirst' /\ SeenIsReplayable' /\ CutOnce'
  <2>1. Written' = Written /\ CutOnce' /\ SeenIsReplayable'
    <3>1. UNCHANGED <<file, cut, cuts, glued, made, seen, writer>>
      OBVIOUS
    <3> QED
      BY <3>1, NothingPut DEF SeenIsReplayable
  <2>2. /\ UNCHANGED <<writer, chan>>
        /\ \A l \in Connections : handler'[l].replay \in {handler[l].replay, file}
    BY DEF TypeOK
  <2>3. Elements(file) \subseteq Written
    BY DEF Written
  <2> QED
    BY <2>1, <2>2, <2>3 DEF WrittenFirst
<1> QED
  BY <1>2, <1>3

LEMMA WriteReplayedKeeps ==
  ASSUME StreamInv, NEW k \in Connections, WriteReplayed(k)
  PROVE  StreamInv'
<1> USE DEF StreamInv, log, lines
<1> DEFINE s == handler[k].replay
<1>1. PICK i \in DOMAIN s :
         /\ Deliver(k, s[i])
         /\ handler' = [handler EXCEPT ![k].replay = SubSeq(@, i + 1, Len(@))]
  BY DEF WriteReplayed, Unsent
<1>2. UNCHANGED <<up, panicked, log, subscribers, chan, writer>>
  BY DEF WriteReplayed
<1>3. s \in Seq(Events) /\ Elements(s) \subseteq Written
  BY DEF TypeOK, WrittenFirst
<1>4. /\ s[i] \in Events /\ s[i] \in Written
      /\ SubSeq(s, i + 1, Len(s)) \in Seq(Events)
      /\ Elements(SubSeq(s, i + 1, Len(s))) \subseteq Written
  BY <1>3, RestElements
<1>5. /\ client' = client /\ attempt' = attempt
      /\ last' \in Nat /\ since' \in Nat /\ seen' \in Seq(Events) /\ Elements(seen') \subseteq Written
  BY <1>1, <1>4, DeliverKeeps
<1> DEFINE h == [handler[k] EXCEPT !.replay = SubSeq(s, i + 1, Len(s))]
<1>6. handler \in [Connections -> Handlers] /\ handler' = [handler EXCEPT ![k] = h]
  BY <1>1 DEF TypeOK, Handlers
<1>a. h \in Handlers /\ h.replay = SubSeq(s, i + 1, Len(s))
  BY <1>4, <1>6, HandlerFields
<1> HIDE DEF h
<1>7. handler' \in [Connections -> Handlers] /\ handler'[k].replay = SubSeq(s, i + 1, Len(s))
  BY <1>a, <1>6
<1>8. TypeOK'
  BY <1>2, <1>5, <1>7 DEF TypeOK, Handlers
<1>9. WrittenFirst' /\ SeenIsReplayable' /\ CutOnce'
  <2>1. Written' = Written /\ CutOnce' /\ SeenIsReplayable'
    BY <1>2, <1>4, <1>5, <1>6, <1>7, NothingPut DEF TypeOK, WrittenFirst, SeenIsReplayable
  <2> QED
    BY <2>1, <1>2, <1>4, <1>5, <1>6, <1>7 DEF TypeOK, WrittenFirst, SeenIsReplayable
<1> QED
  BY <1>8, <1>9

LEMMA SubscribeKeeps ==
  ASSUME StreamInv, NEW k \in Connections, Subscribe(k)
  PROVE  StreamInv'
<1> USE DEF StreamInv, Subscribe, Inactive, log, lines, reader
<1>1. TypeOK'
  BY NothingInEmpty DEF TypeOK
<1>2. WrittenFirst' /\ SeenIsReplayable' /\ CutOnce'
  <2>1. Written' = Written /\ CutOnce' /\ SeenIsReplayable'
    BY NothingInEmpty, NothingPut DEF TypeOK, WrittenFirst, SeenIsReplayable
  <2> QED
    BY <2>1, NothingInEmpty DEF TypeOK, WrittenFirst, SeenIsReplayable
<1> QED
  BY <1>1, <1>2

LEMMA WriteLiveKeeps ==
  ASSUME StreamInv, NEW k \in Connections, WriteLive(k)
  PROVE  StreamInv'
<1> USE DEF StreamInv, WriteLive, log, lines
<1> DEFINE n == Head(chan[k])
<1>1. chan[k] \in Seq(Events) /\ chan[k] # <<>> /\ Elements(chan[k]) \subseteq Written
  BY DEF TypeOK, WrittenFirst
<1>2. /\ n \in Events /\ n \in Written
      /\ Tail(chan[k]) \in Seq(Events) /\ Elements(Tail(chan[k])) \subseteq Written
  BY <1>1, TailElements
<1>3. /\ client' = client /\ attempt' = attempt
      /\ last' \in Nat /\ since' \in Nat /\ seen' \in Seq(Events) /\ Elements(seen') \subseteq Written
  BY <1>2, DeliverKeeps
<1>4. TypeOK'
  BY <1>2, <1>3 DEF TypeOK
<1>5. WrittenFirst' /\ SeenIsReplayable' /\ CutOnce'
  <2>1. Written' = Written /\ CutOnce' /\ SeenIsReplayable'
    BY <1>2, <1>3, NothingPut DEF TypeOK, WrittenFirst, SeenIsReplayable
  <2> QED
    BY <2>1, <1>2, <1>3 DEF TypeOK, WrittenFirst, SeenIsReplayable
<1> QED
  BY <1>4, <1>5

LEMMA UnsubscribeKeeps ==
  ASSUME StreamInv, NEW k \in Connections, Unsubscribe(k)
  PROVE  StreamInv'
<1> USE DEF StreamInv, Unsubscribe, log, lines, reader
<1>1. TypeOK'
  BY NothingInEmpty DEF TypeOK
<1>2. WrittenFirst' /\ SeenIsReplayable' /\ CutOnce'
  <2>1. Written' = Written /\ CutOnce' /\ SeenIsReplayable'
    BY NothingInEmpty, NothingPut DEF TypeOK, WrittenFirst, SeenIsReplayable
  <2> QED
    BY <2>1, NothingInEmpty DEF TypeOK, WrittenFirst, SeenIsReplayable
<1> QED
  BY <1>1, <1>2

LEMMA ClientKeeps ==
  ASSUME StreamInv, Connect \/ Disconnect
  PROVE  StreamInv'
<1> USE DEF StreamInv, Connect, Disconnect, log, lines
<1>1. CASE Connect
  <2>1. attempt + 1 \in Connections /\ attempt + 1 \in 0..Attempts /\ Len(seen) \in Nat
    BY <1>1, AttemptsAssumption, LenProperties DEF TypeOK, Connections
  <2>2. /\ handler' \in [Connections -> Handlers]
        /\ \A k \in Connections : handler'[k].replay = handler[k].replay
    <3>1. handler \in [Connections -> Handlers]
      BY DEF TypeOK, Handlers
    <3>2. CASE up
      <4>1. handler' = [handler EXCEPT ![attempt + 1] = [handler[attempt + 1] EXCEPT !.at = "accepted"]]
        BY <1>1, <3>2
      <4> QED
        BY <2>1, <3>1, <4>1, HandlerFields
    <3>3. CASE ~up
      BY <1>1, <3>1, <3>3
    <3> QED
      BY <3>2, <3>3
  <2>3. TypeOK'
    BY <1>1, <2>1, <2>2 DEF TypeOK, Handlers
  <2>4. WrittenFirst' /\ SeenIsReplayable' /\ CutOnce'
    <3>1. Written' = Written /\ CutOnce' /\ SeenIsReplayable'
      BY <1>1, <2>2, NothingPut DEF WrittenFirst, SeenIsReplayable
    <3> QED
      BY <3>1, <1>1, <2>2 DEF WrittenFirst, SeenIsReplayable
  <2> QED
    BY <2>3, <2>4
<1>2. CASE Disconnect
  <2>1. Written' = Written /\ CutOnce' /\ SeenIsReplayable'
    BY <1>2, NothingPut DEF SeenIsReplayable
  <2> QED
    BY <1>2, <2>1 DEF TypeOK, WrittenFirst
<1> QED
  BY <1>1, <1>2

LEMMA RestartKeeps ==
  ASSUME StreamInv, Restart
  PROVE  StreamInv'
<1> USE DEF StreamInv, Restart, reader, lines
<1>1. file # <<>> => file[Len(file)] \in Events
  BY EmptySeq, LenProperties, ElementOfSeq DEF TypeOK
<1>2. nextID' \in Nat
  BY <1>1 DEF TypeOK
<1>3. TypeOK'
  BY <1>2 DEF TypeOK
<1>4. WrittenFirst' /\ SeenIsReplayable' /\ CutOnce'
  <2>1. Written' = Written /\ CutOnce' /\ SeenIsReplayable'
    BY NothingPut DEF WrittenFirst, SeenIsReplayable
  <2> QED
    BY <2>1 DEF WrittenFirst, SeenIsReplayable
<1> QED
  BY <1>3, <1>4

LEMMA StreamKeeps == StreamInv /\ [Next]_vars => StreamInv'
<1> SUFFICES ASSUME StreamInv, [Next]_vars PROVE StreamInv'
  OBVIOUS
<1>1. ASSUME NEW w \in Writers, AppendBegin(w) \/ AppendStep(w)  PROVE StreamInv'
  <2>1. ASSUME NEW k \in Connections, SendOnClosed(w, k)  PROVE StreamInv'
    BY <2>1, GoneKeeps DEF SendOnClosed
  <2> QED
    BY <1>1, <2>1, AppendBeginKeeps, CutsKeep, SendKeeps DEF AppendStep
<1>2. ASSUME NEW k \in Connections, HandlerStep(k)  PROVE StreamInv'
  BY <1>2, ReplayEventsKeeps, WriteReplayedKeeps, SubscribeKeeps, WriteLiveKeeps, UnsubscribeKeeps
     DEF HandlerStep
<1>3. CASE Crash
  BY <1>3, GoneKeeps DEF Crash, StreamInv, TypeOK
<1>4. CASE UNCHANGED vars
  <2>1. Written' = Written /\ CutOnce' /\ SeenIsReplayable'
    BY <1>4, NothingPut DEF vars, log, reader, StreamInv, SeenIsReplayable
  <2> QED
    BY <1>4, <2>1 DEF vars, log, lines, reader, StreamInv, TypeOK, WrittenFirst
<1> QED
  BY <1>1, <1>2, <1>3, <1>4, ClientKeeps, RestartKeeps DEF Next

------------------------------------------------------------------------------
(* An event is written before it is on any way to a client, for any number of *)
(* writers, connections, crashes and writes that fail whole or half-way.      *)
THEOREM StreamInvariance == Spec => []StreamInv
BY InitIsSound, StreamKeeps, PTL DEF Spec

(* Every variable keeps its type.                                             *)
THEOREM StreamTypeCorrect == Spec => []TypeOK
<1>1. StreamInv => TypeOK
  BY DEF StreamInv
<1> QED
  BY <1>1, StreamInvariance, PTL

(* Whatever a client was shown, live or not, a later replay has it, unless a  *)
(* write failed half-way: that costs its own event and at most the one written*)
(* behind it.                                                                 *)
THEOREM ShownIsKept == Spec => []SeenIsReplayable
<1>1. StreamInv => SeenIsReplayable
  BY DEF StreamInv
<1> QED
  BY <1>1, StreamInvariance, PTL
------------------------------------------------------------------------------
(* A connection gets an event once.  That what it streams was not replayed is *)
(* inductive only with where an event can be: in the hands of one goroutine,  *)
(* which owes it to connections whose channel does not have it yet.           *)

Owes(w, k) == writer[w].at # "idle" /\ k \in writer[w].to

(* Only a streaming handler has something in its channel, and one that is to  *)
(* be given an event has subscribed.                                          *)
Channels ==
  \A k \in Connections :
    /\ k > attempt => handler[k] = Absent
    /\ k \in subscribers => handler[k].at = "stream"
    /\ chan[k] # <<>> => handler[k].at = "stream"
    /\ \A w \in Writers : Owes(w, k) => handler[k].at \in {"stream", "closed"}

Distinct(s) == \A i, l \in DOMAIN s : s[i] = s[l] => i = l

SentOnce ==
  \A k \in Connections :
    /\ Distinct(chan[k])
    /\ \A w \in Writers : Owes(w, k) => writer[w].event \notin Elements(chan[k])

Streaming(k) == k = attempt /\ client = "reading" /\ handler[k].at = "stream"

Unseen ==
  \A k \in Connections : Streaming(k) =>
    /\ Elements(chan[k]) \cap Elements(seen) = {}
    /\ \A w \in Writers : Owes(w, k) => writer[w].event \notin Elements(seen)

OnceInv == StreamInv /\ Channels /\ SentOnce /\ Unseen

LEMMA DistinctAppend ==
  ASSUME NEW s \in Seq(Events), Distinct(s), NEW n \in Events, n \notin Elements(s)
  PROVE  Distinct(Append(s, n))
<1>1. /\ DOMAIN s = 1..Len(s) /\ Len(s) \in Nat
      /\ DOMAIN Append(s, n) = 1..(Len(s) + 1)
      /\ \A i \in 1..Len(s) : Append(s, n)[i] = s[i]
      /\ Append(s, n)[Len(s) + 1] = n
  BY AppendProperties
<1>2. \A i \in 1..Len(s) : s[i] # n
  BY <1>1 DEF Elements
<1>3. \A i \in DOMAIN Append(s, n) : i \in 1..Len(s) \/ i = Len(s) + 1
  BY <1>1
<1>4. \A i, l \in 1..Len(s) : s[i] = s[l] => i = l
  BY <1>1 DEF Distinct
<1> QED
  BY <1>1, <1>2, <1>3, <1>4 DEF Distinct

LEMMA DistinctTail ==
  ASSUME NEW s \in Seq(Events), s # <<>>, Distinct(s)
  PROVE  Distinct(Tail(s)) /\ Head(s) \notin Elements(Tail(s))
<1>1. /\ Head(s) = s[1] /\ Len(s) \in Nat \ {0} /\ DOMAIN s = 1..Len(s)
      /\ DOMAIN Tail(s) = 1..(Len(s) - 1)
      /\ \A i \in 1..(Len(s) - 1) : Tail(s)[i] = s[i + 1]
  BY HeadTailProperties
<1>2. \A i \in 1..(Len(s) - 1) : i + 1 \in 1..Len(s) /\ i + 1 # 1 /\ 1 \in 1..Len(s)
  BY <1>1
<1>3. \A i, l \in 1..(Len(s) - 1) : i + 1 = l + 1 => i = l
  BY <1>1
<1> QED
  BY <1>1, <1>2, <1>3 DEF Distinct, Elements

LEMMA DistinctEmpty == Distinct(<<>>)
BY EmptySeq DEF Distinct

LEMMA InitOnce == Init => OnceInv
<1> SUFFICES ASSUME Init PROVE OnceInv
  OBVIOUS
<1>1. StreamInv
  BY InitIsSound
<1>2. Channels /\ SentOnce /\ Unseen
  BY NothingInEmpty, DistinctEmpty
     DEF Init, Channels, SentOnce, Unseen, Streaming, Owes, Resting
<1> QED
  BY <1>1, <1>2 DEF OnceInv

LEMMA AppendBeginOnce ==
  ASSUME OnceInv, NEW w \in Writers, AppendBegin(w)
  PROVE  OnceInv'
<1> USE DEF OnceInv, AppendBegin, reader
<1>1. StreamInv'
  BY AppendBeginKeeps
<1>2. made \in Nat /\ made + 1 \notin 1..made /\ made + 1 \in 1..(made + 1)
      /\ 1..made \subseteq 1..(made + 1)
  BY EventsAssumption DEF StreamInv, TypeOK
<1>3. \A v \in Writers : writer'[v] = IF v = w
         THEN [at |-> "write", event |-> made + 1, to |-> subscribers] ELSE writer[v]
  BY DEF StreamInv, TypeOK
<1>5. Channels'
  BY <1>3 DEF Channels, Owes
<1>6. /\ \A k \in Connections : made + 1 \notin Elements(chan[k])
      /\ made + 1 \notin Elements(seen)
  BY <1>2 DEF StreamInv, WrittenFirst, SeenIsReplayable, CutOnce
<1>7. SentOnce'
  BY <1>3, <1>6 DEF SentOnce, Owes
<1>8. Unseen'
  BY <1>3, <1>6 DEF Unseen, Owes, Streaming
<1> QED
  BY <1>1, <1>5, <1>7, <1>8

(* What w owes after it has written, sent, or failed it owed before.          *)
LEMMA LessOwed ==
  ASSUME OnceInv, NEW w \in Writers, NEW to \in SUBSET writer[w].to, writer[w].at # "idle",
         \/ writer' = [writer EXCEPT ![w] = FanOut(w, to)]
         \/ writer' = [writer EXCEPT ![w] = Resting]
  PROVE  \A v \in Writers :
           /\ writer'[v].at # "idle" => /\ writer[v].at # "idle"
                                        /\ writer'[v].event = writer[v].event
           /\ \A k \in Connections : Owes(v, k)' => Owes(v, k)
           /\ \A k \in Connections : Owes(w, k)' => k \in to
<1> DEFINE r == writer'[w]
<1>1. /\ r.at # "idle" => r.event = writer[w].event /\ r.to = to
      /\ \A v \in Writers \ {w} : writer'[v] = writer[v]
  BY DEF OnceInv, StreamInv, TypeOK, FanOut, Resting
<1>2. \A k \in Connections : Owes(w, k)' => k \in to /\ Owes(w, k)
  BY <1>1 DEF Owes
<1>3. \A v \in Writers \ {w} : \A k \in Connections : Owes(v, k)' => Owes(v, k)
  BY <1>1 DEF Owes
<1> QED
  BY <1>1, <1>2, <1>3

(* A step of a writer that neither a channel nor a reader sees.               *)
LEMMA WriterOnce ==
  ASSUME OnceInv, StreamInv',
         \A v \in Writers :
           /\ writer'[v].at # "idle" => /\ writer[v].at # "idle"
                                        /\ writer'[v].event = writer[v].event
           /\ \A k \in Connections : Owes(v, k)' => Owes(v, k),
         UNCHANGED <<made, attempt, handler, subscribers, chan, client, seen>>
  PROVE  OnceInv'
<1>2. Channels'
  BY DEF OnceInv, Channels, Owes
<1>3. SentOnce'
  BY DEF OnceInv, SentOnce, Owes
<1>4. Unseen'
  BY DEF OnceInv, Unseen, Owes, Streaming
<1> QED
  BY <1>2, <1>3, <1>4 DEF OnceInv

LEMMA AppendWriteOnce ==
  ASSUME OnceInv, NEW w \in Writers, AppendWrite(w)
  PROVE  OnceInv'
<1>1. StreamInv'
  BY CutsKeep DEF OnceInv
<1> QED
  BY <1>1, LessOwed, WriterOnce DEF AppendWrite, reader, OnceInv, StreamInv, TypeOK

LEMMA AppendFailsOnce ==
  ASSUME OnceInv, NEW w \in Writers, AppendFails(w)
  PROVE  OnceInv'
<1>1. StreamInv'
  BY CutsKeep DEF OnceInv
<1> QED
  BY <1>1, LessOwed, WriterOnce DEF AppendFails, reader, OnceInv, StreamInv, TypeOK

LEMMA SendOnce ==
  ASSUME OnceInv, NEW w \in Writers, NEW k \in Connections, Send(w, k)
  PROVE  OnceInv'
<1> USE DEF log, reader
<1> DEFINE n == writer[w].event
<1>1. StreamInv'
  BY SendKeeps DEF OnceInv
<1>2. Owes(w, k) /\ n \in Events /\ n \notin Elements(chan[k]) /\ n \notin Elements(<<>>)
  BY NothingInEmpty DEF OnceInv, StreamInv, TypeOK, WrittenFirst, SentOnce, Owes, Send
<1>3. handler[k].at = "stream" /\ UNCHANGED <<handler, subscribers, attempt, client, seen, made>>
  BY <1>2 DEF OnceInv, Channels, Send
<1>4. \A v \in Writers :
        /\ writer'[v].at # "idle" => /\ writer[v].at # "idle" /\ writer'[v].event = writer[v].event
        /\ \A l \in Connections : Owes(v, l)' => Owes(v, l)
        /\ \A l \in Connections : Owes(w, l)' => l \in writer[w].to \ {k}
  <2>1. writer[w].to \ {k} \in SUBSET writer[w].to /\ writer[w].at # "idle"
        /\ writer' = [writer EXCEPT ![w] = FanOut(w, writer[w].to \ {k})]
    BY DEF Send, OnceInv, StreamInv, TypeOK
  <2> QED
    BY <2>1, LessOwed
<1>5. /\ \A l \in Connections \ {k} : chan'[l] = chan[l]
      /\ chan'[k] = chan[k] \/ chan'[k] = Append(chan[k], n)
  BY DEF Send, OnceInv, StreamInv, TypeOK
<1>6. /\ Elements(chan'[k]) \subseteq Elements(chan[k]) \cup {n}
      /\ Distinct(chan'[k])
  <2>1. chan[k] \in Seq(Events) /\ Distinct(chan[k])
    BY DEF OnceInv, StreamInv, TypeOK, SentOnce
  <2>2. Elements(Append(chan[k], n)) = Elements(chan[k]) \cup {n} /\ Distinct(Append(chan[k], n))
    BY <1>2, <2>1, AppendElements, DistinctAppend
  <2> HIDE DEF n
  <2> QED
    BY <1>5, <2>1, <2>2
<1>7. \A v \in Writers : v # w /\ Owes(v, k)' => writer'[v].event # n
  BY <1>2, <1>4 DEF OnceInv, Owes, StreamInv, CutOnce
<1>8. ~Owes(w, k)'
  BY <1>4
<1>10. Channels'
  BY <1>3, <1>4, <1>5 DEF OnceInv, Channels
<1>11. SentOnce'
  <2>1. \A l \in Connections : Distinct(chan'[l])
    BY <1>5, <1>6 DEF OnceInv, SentOnce
  <2>2. ASSUME NEW l \in Connections, NEW v \in Writers, Owes(v, l)'
        PROVE  writer'[v].event \notin Elements(chan'[l])
    <3>1. Owes(v, l) /\ writer'[v].event = writer[v].event /\ writer[v].event \notin Elements(chan[l])
      BY <1>4, <2>2 DEF OnceInv, SentOnce, Owes
    <3>2. l = k => v # w
      BY <1>8, <2>2
    <3> QED
      BY <1>5, <1>6, <1>7, <2>2, <3>1, <3>2
  <2> QED
    BY <2>1, <2>2 DEF SentOnce
<1>12. Unseen'
  <2> SUFFICES ASSUME NEW l \in Connections, Streaming(l)'
               PROVE  /\ Elements(chan'[l]) \cap Elements(seen) = {}
                      /\ \A v \in Writers : Owes(v, l)' => writer'[v].event \notin Elements(seen)
    BY <1>3 DEF Unseen
  <2>1. Streaming(l)
    BY <1>3 DEF Streaming
  <2>2. /\ Elements(chan[l]) \cap Elements(seen) = {}
        /\ \A v \in Writers : Owes(v, l) => writer[v].event \notin Elements(seen)
    BY <2>1 DEF OnceInv, Unseen
  <2>3. Elements(chan'[l]) \cap Elements(seen) = {}
    BY <1>2, <1>5, <1>6, <2>2
  <2> QED
    BY <1>4, <2>2, <2>3 DEF Owes
<1> QED
  BY <1>1, <1>10, <1>11, <1>12 DEF OnceInv

LEMMA GoneOnce ==
  ASSUME OnceInv, Gone, panicked' \in BOOLEAN
  PROVE  OnceInv'
<1> USE DEF OnceInv, Gone, log
<1>1. StreamInv'
  BY GoneKeeps
<1>2. \A w \in Writers : writer'[w].at = "idle"
  BY DEF Resting
<1>4. Channels'
  BY <1>2 DEF Channels, Owes
<1>5. SentOnce'
  BY <1>2, DistinctEmpty DEF SentOnce, Owes
<1>6. Unseen'
  BY DEF Unseen, Streaming, Absent, Inactive
<1> QED
  BY <1>1, <1>4, <1>5, <1>6

(* A step of a connection that does not stream.                               *)
LEMMA HandlerOnce ==
  ASSUME OnceInv, StreamInv', NEW k \in Connections, k \leq attempt,
         handler[k].at \notin {"stream", "closed"},
         handler'[k].at \in {"accepted", "replay", "stream"},
         \A l \in Connections \ {k} : handler'[l] = handler[l],
         k \in subscribers' => handler'[k].at = "stream",
         subscribers' \ {k} \subseteq subscribers,
         UNCHANGED <<writer, chan, attempt, client>>,
         seen' # seen => k = attempt /\ handler'[k].at # "stream"
  PROVE  OnceInv'
<1>1. chan[k] = <<>> /\ k \notin subscribers /\ \A w \in Writers : ~Owes(w, k)
  BY DEF OnceInv, Channels
<1>3. attempt \in Nat /\ k \in Nat
  BY AttemptsAssumption DEF OnceInv, StreamInv, TypeOK, Connections
<1>4. ASSUME NEW l \in Connections
      PROVE  /\ l > attempt => handler'[l] = Absent
             /\ l \in subscribers' => handler'[l].at = "stream"
             /\ chan[l] # <<>> => handler'[l].at = "stream"
             /\ \A w \in Writers : Owes(w, l) => handler'[l].at \in {"stream", "closed"}
  <2>1. CASE l = k
    BY <1>1, <1>3, <2>1
  <2>2. CASE l # k
    BY <2>2 DEF OnceInv, Channels
  <2> QED
    BY <2>1, <2>2
<1>5. SentOnce'
  BY DEF OnceInv, SentOnce, Owes
<1>6. Unseen'
  <2> SUFFICES ASSUME NEW l \in Connections, Streaming(l)'
               PROVE  /\ Elements(chan[l]) \cap Elements(seen') = {}
                      /\ \A w \in Writers : Owes(w, l) => writer[w].event \notin Elements(seen')
    BY DEF Unseen, Owes
  <2>1. CASE l = k
    BY <1>1, <2>1, NothingInEmpty
  <2>2. CASE l # k
    BY <2>2 DEF OnceInv, Unseen, Streaming
  <2> QED
    BY <2>1, <2>2
<1>7. Channels'
  BY <1>4 DEF Channels, Owes
<1> QED
  BY <1>5, <1>6, <1>7 DEF OnceInv

(* A handler that runs is of a connection that was made.                      *)
LEMMA Accepted ==
  ASSUME OnceInv, NEW k \in Connections, handler[k].at # "none"
  PROVE  k \leq attempt
BY AttemptsAssumption DEF OnceInv, StreamInv, TypeOK, Channels, Absent, Inactive, Connections

LEMMA ReplayEventsOnce ==
  ASSUME OnceInv, NEW k \in Connections, ReplayEvents(k)
  PROVE  OnceInv'
<1>1. StreamInv' /\ k \leq attempt
  BY ReplayEventsKeeps, Accepted DEF OnceInv, ReplayEvents
<1>2. handler'[k].at = "replay" /\ \A l \in Connections \ {k} : handler'[l] = handler[l]
  BY DEF ReplayEvents, OnceInv, StreamInv, TypeOK
<1>3. k \notin subscribers
  BY DEF OnceInv, Channels, ReplayEvents
<1> QED
  BY <1>1, <1>2, <1>3, HandlerOnce DEF ReplayEvents, log, reader

LEMMA WriteReplayedOnce ==
  ASSUME OnceInv, NEW k \in Connections, WriteReplayed(k)
  PROVE  OnceInv'
<1>1. StreamInv' /\ k \leq attempt
  BY WriteReplayedKeeps, Accepted DEF OnceInv, WriteReplayed
<1>2. PICK i \in Unsent(k) :
        /\ Deliver(k, handler[k].replay[i])
        /\ handler' = [handler EXCEPT ![k].replay = SubSeq(@, i + 1, Len(@))]
  BY DEF WriteReplayed
<1>3. handler'[k].at = "replay" /\ \A l \in Connections \ {k} : handler'[l] = handler[l]
  BY <1>2 DEF WriteReplayed, OnceInv, StreamInv, TypeOK
<1>4. client' = client /\ attempt' = attempt /\ (seen' # seen => k = attempt)
  BY <1>2 DEF Deliver, reader
<1>5. k \notin subscribers
  BY DEF OnceInv, Channels, WriteReplayed
<1> QED
  BY <1>1, <1>3, <1>4, <1>5, HandlerOnce DEF WriteReplayed, log

LEMMA SubscribeOnce ==
  ASSUME OnceInv, NEW k \in Connections, Subscribe(k)
  PROVE  OnceInv'
<1>1. StreamInv' /\ k \leq attempt
  BY SubscribeKeeps, Accepted DEF OnceInv, Subscribe
<1>2. handler'[k].at = "stream" /\ \A l \in Connections \ {k} : handler'[l] = handler[l]
  BY DEF Subscribe, Inactive, OnceInv, StreamInv, TypeOK
<1> QED
  BY <1>1, <1>2, HandlerOnce DEF Subscribe, log, reader

LEMMA WriteLiveOnce ==
  ASSUME OnceInv, NEW k \in Connections, WriteLive(k)
  PROVE  OnceInv'
<1> USE DEF log
<1> DEFINE n == Head(chan[k])
<1>1. StreamInv'
  BY WriteLiveKeeps DEF OnceInv
<1>2. /\ chan[k] \in Seq(Events) /\ chan[k] # <<>> /\ Distinct(chan[k])
      /\ UNCHANGED <<writer, handler, subscribers>> /\ Deliver(k, n)
      /\ handler[k].at = "stream"
  BY DEF OnceInv, StreamInv, TypeOK, SentOnce, WriteLive
<1>3. /\ n \in Events /\ n \in Elements(chan[k]) /\ n \notin Elements(Tail(chan[k]))
      /\ Elements(Tail(chan[k])) \subseteq Elements(chan[k]) /\ Distinct(Tail(chan[k]))
  BY <1>2, TailElements, DistinctTail
<1>4. chan'[k] = Tail(chan[k]) /\ \A l \in Connections \ {k} : chan'[l] = chan[l]
  BY DEF WriteLive, OnceInv, StreamInv, TypeOK
<1>5. /\ client' = client /\ attempt' = attempt
      /\ seen' # seen => k = attempt /\ Elements(seen') = Elements(seen) \cup {n}
  BY <1>2, <1>3, AppendElements DEF Deliver, reader, OnceInv, StreamInv, TypeOK
<1>7. Channels'
  BY <1>2, <1>4, <1>5 DEF OnceInv, Channels, Owes
<1>8. SentOnce'
  BY <1>2, <1>3, <1>4 DEF OnceInv, SentOnce, Owes
<1>9. Unseen'
  <2> SUFFICES ASSUME NEW l \in Connections, Streaming(l)'
               PROVE  /\ Elements(chan'[l]) \cap Elements(seen') = {}
                      /\ \A w \in Writers : Owes(w, l) => writer[w].event \notin Elements(seen')
    BY <1>2 DEF Unseen, Owes
  <2>1. Streaming(l) /\ l = attempt
    BY <1>2, <1>5 DEF Streaming
  <2>2. /\ Elements(chan[l]) \cap Elements(seen) = {}
        /\ \A w \in Writers : Owes(w, l) => /\ writer[w].event \notin Elements(seen)
                                            /\ writer[w].event \notin Elements(chan[l])
    BY <2>1 DEF OnceInv, Unseen, SentOnce
  <2>3. CASE seen' = seen
    BY <1>3, <1>4, <2>2, <2>3
  <2>4. CASE seen' # seen
    BY <1>3, <1>4, <1>5, <2>1, <2>2, <2>4
  <2> QED
    BY <2>3, <2>4
<1> QED
  BY <1>1, <1>7, <1>8, <1>9 DEF OnceInv

LEMMA UnsubscribeOnce ==
  ASSUME OnceInv, NEW k \in Connections, Unsubscribe(k)
  PROVE  OnceInv'
<1> USE DEF log, reader
<1>1. StreamInv'
  BY UnsubscribeKeeps DEF OnceInv
<1>2. /\ handler'[k].at = "closed" /\ chan'[k] = <<>>
      /\ handler[k].at # "none"
      /\ \A l \in Connections \ {k} : chan'[l] = chan[l] /\ handler'[l] = handler[l]
      /\ UNCHANGED <<writer, attempt, client, seen>>
  BY DEF Unsubscribe, OnceInv, StreamInv, TypeOK
<1>3. k \leq attempt /\ k \in Nat /\ attempt \in Nat
  <2>1. k \leq attempt
    BY <1>2, Accepted
  <2> QED
    BY <2>1, AttemptsAssumption DEF OnceInv, StreamInv, TypeOK, Connections
<1>5. Channels'
  BY <1>2, <1>3 DEF OnceInv, Channels, Owes, Unsubscribe
<1>6. SentOnce'
  BY <1>2, NothingInEmpty, DistinctEmpty DEF OnceInv, SentOnce, Owes
<1>7. Unseen'
  BY <1>2 DEF OnceInv, Unseen, Owes, Streaming
<1> QED
  BY <1>1, <1>5, <1>6, <1>7 DEF OnceInv

LEMMA ClientOnce ==
  ASSUME OnceInv, Connect \/ Disconnect
  PROVE  OnceInv'
<1> USE DEF log
<1>1. StreamInv'
  BY ClientKeeps DEF OnceInv
<1>2. UNCHANGED <<writer, chan, subscribers, seen>>
  BY DEF Connect, Disconnect
<1>3. SentOnce'
  BY <1>2 DEF OnceInv, SentOnce, Owes
<1>4. CASE Connect
  <2>1. /\ attempt \in Nat /\ attempt + 1 \in Connections
        /\ \A k \in Connections : k \in Nat
    BY <1>4, AttemptsAssumption DEF OnceInv, StreamInv, TypeOK, Connections, Connect
  <2>2. /\ \A k \in Connections : k # attempt + 1 => handler'[k] = handler[k]
        /\ handler[attempt + 1] = Absent
        /\ handler'[attempt + 1].at \in {"none", "accepted"}
    BY <1>4, <2>1 DEF Connect, OnceInv, StreamInv, TypeOK, Channels, Absent, Inactive
  <2>3. attempt' = attempt + 1
    BY <1>4 DEF Connect
  <2>4. handler[attempt + 1].at = "none"
    BY <2>2 DEF Absent, Inactive
  <2>5. Channels'
    <3>1. ASSUME NEW k \in Connections
          PROVE  /\ k > attempt' => handler'[k] = Absent
                 /\ k \in subscribers => handler'[k].at = "stream"
                 /\ chan[k] # <<>> => handler'[k].at = "stream"
                 /\ \A w \in Writers : Owes(w, k) => handler'[k].at \in {"stream", "closed"}
      <4>1. CASE k = attempt + 1
        BY <2>1, <2>3, <2>4, <4>1 DEF OnceInv, Channels
      <4>2. CASE k # attempt + 1
        BY <2>1, <2>2, <2>3, <4>2 DEF OnceInv, Channels
      <4> QED
        BY <4>1, <4>2
    <3> QED
      BY <1>2, <3>1 DEF Channels, Owes
  <2>6. Unseen'
    BY <2>2, <2>3 DEF Unseen, Streaming
  <2> QED
    BY <1>1, <1>3, <2>5, <2>6 DEF OnceInv
<1>5. CASE Disconnect
  <2>1. Channels'
    BY <1>2, <1>5 DEF OnceInv, Channels, Owes, Disconnect
  <2>2. Unseen'
    BY <1>5 DEF Unseen, Streaming, Disconnect
  <2> QED
    BY <1>1, <1>3, <2>1, <2>2 DEF OnceInv
<1> QED
  BY <1>4, <1>5

LEMMA OnceKeeps == OnceInv /\ [Next]_vars => OnceInv'
<1> SUFFICES ASSUME OnceInv, [Next]_vars PROVE OnceInv'
  OBVIOUS
<1>1. ASSUME NEW w \in Writers, AppendBegin(w) \/ AppendStep(w)  PROVE OnceInv'
  <2>1. ASSUME NEW k \in Connections, SendOnClosed(w, k)  PROVE OnceInv'
    BY <2>1, GoneOnce DEF SendOnClosed
  <2> QED
    BY <1>1, <2>1, AppendBeginOnce, AppendWriteOnce, AppendFailsOnce, SendOnce DEF AppendStep
<1>2. ASSUME NEW k \in Connections, HandlerStep(k)  PROVE OnceInv'
  BY <1>2, ReplayEventsOnce, WriteReplayedOnce, SubscribeOnce, WriteLiveOnce, UnsubscribeOnce
     DEF HandlerStep
<1>3. CASE Crash
  BY <1>3, GoneOnce DEF Crash, OnceInv, StreamInv, TypeOK
<1>4. CASE Restart
  <2>1. StreamInv'
    BY <1>4, RestartKeeps DEF OnceInv
  <2> QED
    BY <1>4, <2>1 DEF Restart, reader, OnceInv, Channels, SentOnce, Unseen, Streaming, Owes
<1>5. CASE UNCHANGED vars
  <2>1. StreamInv'
    BY <1>5, StreamKeeps DEF OnceInv
  <2> QED
    BY <1>5, <2>1 DEF vars, log, reader, OnceInv, Channels, SentOnce, Unseen, Streaming, Owes
<1> QED
  BY <1>1, <1>2, <1>3, <1>4, <1>5, ClientOnce DEF Next

(* An event is never twice on its way to one connection, and what it reads    *)
(* live was not replayed to it before.                                        *)
THEOREM OnceInvariance == Spec => []OnceInv
BY InitOnce, OnceKeeps, PTL DEF Spec

(* One connection never gets an event twice, whatever the writers, the crashes*)
(* and the connections before it do between its replay and its subscription.  *)
THEOREM ReplayedOrLiveHolds == Spec => []ReplayedOrLive
<1>1. OnceInv => ReplayedOrLive
  BY DEF OnceInv, SentOnce, Distinct, Unseen, Streaming, ReplayedOrLive
<1> QED
  BY <1>1, OnceInvariance, PTL

------------------------------------------------------------------------------
(* The order in which one connection reads.  An event in hand has begun before*)
(* nothing that ended, so it may follow every event there is; and what a      *)
(* connection is still to give may follow what it has given.                  *)

Orderly(s) == \A i, l \in DOMAIN s : i < l => ~Before(s[l], s[i])
Follows(ms, ns) == \A m \in ms, n \in ns : ~Before(m, n)

(* What the client has read on its connection.                                *)
Read == {seen[i] : i \in {l \in DOMAIN seen : since < l}}

Paths ==
  /\ Orderly(file)
  /\ \A k \in Connections : Orderly(chan[k]) /\ Orderly(handler[k].replay)

Ahead ==
  client = "reading" => \A k \in Connections : k = attempt =>
    /\ handler[k].at = "accepted" => Read = {}
    /\ handler[k].at = "replay" => Follows(Elements(handler[k].replay), Read)
    /\ handler[k].at = "stream" => Follows(Elements(chan[k]), Read)

Unended == \A w \in Writers : writer[w].at # "idle" => Follows({writer[w].event}, 1..made)

OrderInv == Paths /\ Ahead /\ Unended /\ ReadInOrder

LEMMA OrderlyAppend ==
  ASSUME NEW s \in Seq(Events), Orderly(s), NEW n \in Events, Follows({n}, Elements(s))
  PROVE  Orderly(Append(s, n))
<1>1. /\ DOMAIN s = 1..Len(s) /\ Len(s) \in Nat
      /\ DOMAIN Append(s, n) = 1..(Len(s) + 1)
      /\ \A i \in 1..Len(s) : Append(s, n)[i] = s[i]
      /\ Append(s, n)[Len(s) + 1] = n
  BY AppendProperties
<1>2. \A i \in 1..Len(s) : ~Before(n, s[i])
  BY <1>1 DEF Follows, Elements
<1>3. \A i, l \in DOMAIN Append(s, n) : i < l => i \in 1..Len(s) /\ (l \in 1..Len(s) \/ l = Len(s) + 1)
  BY <1>1
<1>4. \A i, l \in 1..Len(s) : i < l => ~Before(s[l], s[i])
  BY <1>1 DEF Orderly
<1> QED
  BY <1>1, <1>2, <1>3, <1>4 DEF Orderly

LEMMA OrderlyTail ==
  ASSUME NEW s \in Seq(Events), s # <<>>, Orderly(s)
  PROVE  Orderly(Tail(s)) /\ Follows(Elements(Tail(s)), {Head(s)})
<1>1. /\ Head(s) = s[1] /\ Len(s) \in Nat \ {0} /\ DOMAIN s = 1..Len(s)
      /\ DOMAIN Tail(s) = 1..(Len(s) - 1)
      /\ \A i \in 1..(Len(s) - 1) : Tail(s)[i] = s[i + 1]
  BY HeadTailProperties
<1>2. \A i \in 1..(Len(s) - 1) : i + 1 \in 1..Len(s) /\ 1 < i + 1 /\ 1 \in 1..Len(s)
  BY <1>1
<1>3. \A i, l \in 1..(Len(s) - 1) : i < l => i + 1 < l + 1
  BY <1>1
<1>4. Orderly(Tail(s))
  BY <1>1, <1>2, <1>3 DEF Orderly
<1>5. \A i \in 1..(Len(s) - 1) : ~Before(s[i + 1], s[1])
  BY <1>1, <1>2 DEF Orderly
<1> QED
  BY <1>1, <1>4, <1>5 DEF Follows, Elements

LEMMA OrderlyRest ==
  ASSUME NEW s \in Seq(Events), NEW i \in DOMAIN s, Orderly(s)
  PROVE  /\ Orderly(SubSeq(s, i + 1, Len(s)))
         /\ Follows(Elements(SubSeq(s, i + 1, Len(s))), {s[i]})
<1>1. DOMAIN s = 1..Len(s) /\ Len(s) \in Nat
  BY LenProperties
<1> DEFINE r == SubSeq(s, i + 1, Len(s))
<1>2. /\ DOMAIN r = 1..(Len(s) - i)
      /\ \A l \in 1..(Len(s) - i) : r[l] = s[i + l]
  BY <1>1, SubSeqProperties, ElementOfSeq
<1>3. \A l \in 1..(Len(s) - i) : i + l \in DOMAIN s /\ i < i + l
  BY <1>1
<1>4. \A l, m \in 1..(Len(s) - i) : l < m => i + l < i + m
  BY <1>1
<1> HIDE DEF r
<1>5. Orderly(r)
  BY <1>2, <1>3, <1>4 DEF Orderly
<1>6. \A l \in 1..(Len(s) - i) : ~Before(r[l], s[i])
  BY <1>2, <1>3 DEF Orderly
<1> QED
  BY <1>2, <1>5, <1>6 DEF r, Follows, Elements

LEMMA OrderlyEnded ==
  ASSUME TypeOK, Orderly(file)
  PROVE  Orderly(Ended)
<1>1. CASE ~(cut # 0 /\ file # <<>> /\ file[Len(file)] = cut)
  BY <1>1 DEF Ended
<1>2. CASE cut # 0 /\ file # <<>> /\ file[Len(file)] = cut
  <2>1. /\ file \in Seq(Events) /\ DOMAIN file = 1..Len(file) /\ Len(file) \in Nat \ {0}
        /\ \A l \in 1..Len(file) : file[l] \in Events
    BY <1>2, LenProperties, ElementOfSeq, EmptySeq DEF TypeOK
  <2> DEFINE r == SubSeq(file, 1, Len(file) - 1)
  <2>2. /\ DOMAIN r = 1..(Len(file) - 1)
        /\ \A l \in 1..(Len(file) - 1) : r[l] = file[l]
    BY <2>1, SubSeqProperties
  <2>3. Ended = r
    BY <1>2 DEF Ended
  <2> HIDE DEF r
  <2> QED
    BY <2>1, <2>2, <2>3 DEF Orderly
<1> QED
  BY <1>1, <1>2

LEMMA EmptyOrderly == Orderly(<<>>) /\ \A ns : Follows({}, ns) /\ Follows(ns, {})
BY NothingInEmpty, EmptySeq DEF Orderly, Follows

(* Everything on a way to a client, and everything read, has begun.           *)
LEMMA AllBegun ==
  ASSUME OnceInv
  PROVE  /\ Elements(file) \subseteq 1..made /\ Elements(seen) \subseteq 1..made
         /\ Read \subseteq Elements(seen)
         /\ \A k \in Connections : /\ Elements(chan[k]) \subseteq 1..made
                                   /\ Elements(handler[k].replay) \subseteq 1..made
<1>1. Written \subseteq 1..made
  BY DEF OnceInv, StreamInv, CutOnce
<1>2. Elements(file) \subseteq Written /\ Read \subseteq Elements(seen)
  BY DEF Written, Read, Elements
<1> QED
  BY <1>1, <1>2 DEF OnceInv, StreamInv, WrittenFirst, SeenIsReplayable

LEMMA InitOrder == Init => OrderInv
BY EmptyOrderly, EmptySeq
   DEF Init, Absent, Inactive, Resting, OrderInv, Paths, Ahead, Unended, ReadInOrder

(* What was in hand when an event began is not before it.                     *)
LEMMA AppendBeginOrder ==
  ASSUME OnceInv, OrderInv, NEW w \in Writers, AppendBegin(w)
  PROVE  OrderInv'
<1> USE DEF reader, lines
<1>1. /\ made \in Nat /\ made + 1 \in Events /\ made' = made + 1 /\ 1..made \subseteq Events
      /\ during' = [during EXCEPT ![made + 1] = InHand]
      /\ during \in [Events -> SUBSET Events]
      /\ UNCHANGED <<file, chan, handler, client, attempt, seen, since>>
  BY EventsAssumption DEF OnceInv, StreamInv, TypeOK, AppendBegin, NewEvent, Events
<1>2. \A m : \A n \in 1..made : Before(m, n)' <=> Before(m, n)
  BY <1>1 DEF Before
<1>3. Read' = Read /\ Read \subseteq 1..made
  BY <1>1, AllBegun DEF Read
<1>4. \A t : Elements(t) \subseteq 1..made /\ Orderly(t) =>
             \A i, l \in DOMAIN t : i < l => ~Before(t[l], t[i])'
  BY <1>2 DEF Orderly, Elements
<1>5. Paths'
  BY <1>1, <1>4, AllBegun DEF OrderInv, Paths, Orderly
<1>6. Ahead'
  BY <1>1, <1>2, <1>3 DEF OrderInv, Ahead, Follows
<1>7. ReadInOrder'
  BY <1>1, <1>2, AllBegun DEF OrderInv, ReadInOrder, Elements
<1>8. Unended'
  <2> SUFFICES ASSUME NEW v \in Writers, writer'[v].at # "idle", NEW n \in 1..(made + 1)
               PROVE  ~Before(writer[v].event, n)'
    BY <1>1 DEF Unended, Follows
  <2>1. CASE v = w
    BY <1>1, <2>1 DEF AppendBegin, OnceInv, StreamInv, TypeOK, Before
  <2>2. CASE v # w
    <3>1. writer'[v] = writer[v] /\ writer[v].at # "idle"
      BY <2>2 DEF AppendBegin, OnceInv, StreamInv, TypeOK
    <3>2. CASE n \in 1..made
      BY <1>2, <3>1, <3>2 DEF OrderInv, Unended, Follows
    <3>3. CASE n = made + 1
      BY <1>1, <3>1, <3>3 DEF Before, InHand
    <3> QED
      BY <1>1, <3>2, <3>3
  <2> QED
    BY <2>1, <2>2
<1> QED
  BY <1>5, <1>6, <1>7, <1>8 DEF OrderInv

(* An event in hand may follow everything.                                    *)
LEMMA WriteOrder ==
  ASSUME OnceInv, OrderInv, NEW w \in Writers, AppendWrite(w) \/ AppendFails(w)
  PROVE  OrderInv'
<1> DEFINE n == writer[w].event
<1>1. /\ n \in Events /\ file \in Seq(Events) /\ Follows({n}, Elements(file))
      /\ Orderly(file) /\ TypeOK
  BY AllBegun DEF OnceInv, StreamInv, TypeOK, WrittenFirst, AppendWrite, AppendFails,
                  OrderInv, Paths, Unended, Follows
<1>2. file' \in {file, Append(file, n), Ended}
  BY DEF AppendWrite, AppendFails, PutNothing, PutPart, lines
<1>3. Orderly(file')
  <2> HIDE DEF n
  <2> QED
    BY <1>1, <1>2, OrderlyAppend, OrderlyEnded
<1>4. UNCHANGED <<made, during, chan, handler, client, attempt, seen, since>>
  BY DEF AppendWrite, AppendFails, reader
<1>5. Read' = Read
  BY <1>4 DEF Read
<1>6. /\ \A v \in Writers \ {w} : writer'[v] = writer[v]
      /\ writer'[w].at # "idle" => writer[w].at # "idle" /\ writer'[w].event = n
  BY DEF AppendWrite, AppendFails, FanOut, Resting, OnceInv, StreamInv, TypeOK
<1>7. Paths' /\ Ahead' /\ ReadInOrder'
  BY <1>3, <1>4, <1>5 DEF OrderInv, Paths, Ahead, ReadInOrder, Orderly, Follows, Before
<1>8. Unended'
  BY <1>4, <1>6 DEF OrderInv, Unended, Follows, Before
<1> QED
  BY <1>7, <1>8 DEF OrderInv

LEMMA SendOrder ==
  ASSUME OnceInv, OrderInv, NEW w \in Writers, NEW k \in Connections, Send(w, k)
  PROVE  OrderInv'
<1> DEFINE n == writer[w].event
<1>1. /\ n \in Events /\ chan[k] \in Seq(Events) /\ Orderly(chan[k])
      /\ Follows({n}, 1..made) /\ Follows({n}, Elements(chan[k])) /\ Follows({n}, Read)
  BY AllBegun DEF OnceInv, StreamInv, TypeOK, WrittenFirst, Send, OrderInv, Paths, Unended, Follows
<1>2. UNCHANGED <<made, during, file, handler, client, attempt, seen, since>>
  BY DEF Send, log, lines, reader
<1>3. /\ \A v \in Writers \ {w} : writer'[v] = writer[v]
      /\ writer'[w].at # "idle" => writer'[w].event = n /\ writer[w].at # "idle"
  BY DEF Send, FanOut, Resting, OnceInv, StreamInv, TypeOK
<1>4. /\ \A l \in Connections \ {k} : chan'[l] = chan[l]
      /\ chan'[k] = chan[k] \/ chan'[k] = Append(chan[k], n)
  BY DEF Send, OnceInv, StreamInv, TypeOK
<1> HIDE DEF n
<1>5. Orderly(chan'[k]) /\ Elements(chan'[k]) \subseteq Elements(chan[k]) \cup {n}
  BY <1>1, <1>4, OrderlyAppend, AppendElements
<1>6. Read' = Read
  BY <1>2 DEF Read
<1>7. Paths'
  BY <1>2, <1>4, <1>5 DEF OrderInv, Paths, Orderly, Before
<1>8. Ahead'
  BY <1>1, <1>2, <1>4, <1>5, <1>6 DEF OrderInv, Ahead, Follows, Before
<1>9. Unended' /\ ReadInOrder'
  BY <1>2, <1>3 DEF OrderInv, Unended, ReadInOrder, Follows, Before, n
<1> QED
  BY <1>7, <1>8, <1>9 DEF OrderInv

LEMMA GoneOrder ==
  ASSUME OnceInv, OrderInv, Gone
  PROVE  OrderInv'
<1>1. /\ UNCHANGED <<made, during, file, seen, since>> /\ client' # "reading"
      /\ \A w \in Writers : writer'[w].at = "idle"
      /\ \A k \in Connections : chan'[k] = <<>> /\ handler'[k].replay = <<>>
  BY DEF Gone, log, lines, Resting, Absent, Inactive, OnceInv, StreamInv, TypeOK
<1>2. Paths'
  BY <1>1, EmptyOrderly DEF OrderInv, Paths, Orderly, Before
<1> QED
  BY <1>1, <1>2 DEF OrderInv, Ahead, Unended, ReadInOrder, Before

(* An event that may follow what was read is read in order.                   *)
LEMMA DeliverOrder ==
  ASSUME OnceInv, OrderInv, NEW k, NEW n \in Events, Deliver(k, n), UNCHANGED during,
         client = "reading" /\ k = attempt => Follows({n}, Read)
  PROVE  /\ ReadInOrder' /\ client' = client /\ attempt' = attempt
         /\ Read' \subseteq Read \cup {n}
         /\ ~(client = "reading" /\ k = attempt) => Read' = Read
<1>1. CASE client = "reading" /\ k = attempt
  <2>1. /\ seen \in Seq(Events) /\ seen' = Append(seen, n) /\ since' = since /\ since \in Nat
        /\ client' = client /\ attempt' = attempt
    BY <1>1 DEF Deliver, OnceInv, StreamInv, TypeOK
  <2>2. /\ DOMAIN seen = 1..Len(seen) /\ Len(seen) \in Nat
        /\ DOMAIN seen' = 1..(Len(seen) + 1)
        /\ \A i \in 1..Len(seen) : seen'[i] = seen[i]
        /\ seen'[Len(seen) + 1] = n
    BY <2>1, AppendProperties
  <2>3. Read' \subseteq Read \cup {n}
    <3>1. \A i \in DOMAIN seen' : i \in DOMAIN seen \/ i = Len(seen) + 1
      BY <2>2
    <3> QED
      BY <2>1, <2>2, <3>1 DEF Read
  <2>4. ReadInOrder'
    <3> SUFFICES ASSUME NEW i \in DOMAIN seen', NEW l \in DOMAIN seen', since < i, i < l
                 PROVE  ~Before(seen'[l], seen'[i])
      BY <2>1 DEF ReadInOrder, Before
    <3>1. i \in DOMAIN seen /\ seen'[i] = seen[i] /\ seen[i] \in Read
      BY <2>1, <2>2 DEF Read
    <3>2. CASE l \in DOMAIN seen
      BY <2>2, <3>1, <3>2 DEF OrderInv, ReadInOrder
    <3>3. CASE l = Len(seen) + 1
      BY <1>1, <2>2, <3>1, <3>3 DEF Follows
    <3> QED
      BY <2>2, <3>2, <3>3
  <2> QED
    BY <1>1, <2>1, <2>3, <2>4
<1>2. CASE ~(client = "reading" /\ k = attempt)
  BY <1>2 DEF Deliver, reader, OrderInv, ReadInOrder, Before, Read
<1> QED
  BY <1>1, <1>2

LEMMA ReplayEventsOrder ==
  ASSUME OnceInv, OrderInv, NEW k \in Connections, ReplayEvents(k)
  PROVE  OrderInv'
<1>1. /\ UNCHANGED <<made, during, file, chan, writer, client, attempt, seen, since>>
      /\ handler'[k].at = "replay" /\ handler'[k].replay = file /\ handler[k].at = "accepted"
      /\ \A l \in Connections \ {k} : handler'[l] = handler[l]
  BY DEF ReplayEvents, log, lines, reader, OnceInv, StreamInv, TypeOK
<1>2. Read' = Read
  BY <1>1 DEF Read
<1>3. Paths' /\ Unended' /\ ReadInOrder'
  BY <1>1 DEF OrderInv, Paths, Unended, ReadInOrder, Orderly, Follows, Before
<1>4. Ahead'
  <2> SUFFICES ASSUME client = "reading", NEW l \in Connections, l = attempt
               PROVE  /\ handler'[l].at = "accepted" => Read = {}
                      /\ handler'[l].at = "replay" => Follows(Elements(handler'[l].replay), Read)
                      /\ handler'[l].at = "stream" => Follows(Elements(chan[l]), Read)
    BY <1>1, <1>2 DEF Ahead, Follows, Before
  <2>1. CASE l = k
    BY <1>1, <2>1, EmptyOrderly DEF OrderInv, Ahead
  <2>2. CASE l # k
    BY <1>1, <2>2 DEF OrderInv, Ahead
  <2> QED
    BY <2>1, <2>2
<1> QED
  BY <1>3, <1>4 DEF OrderInv

(* What is left to replay may follow what was sent of it.                     *)
LEMMA WriteReplayedOrder ==
  ASSUME OnceInv, OrderInv, NEW k \in Connections, WriteReplayed(k)
  PROVE  OrderInv'
<1> DEFINE s == handler[k].replay
           r == handler'[k].replay
<1>1. PICK i \in Unsent(k) :
        /\ Deliver(k, s[i])
        /\ handler' = [handler EXCEPT ![k].replay = SubSeq(@, i + 1, Len(@))]
  BY DEF WriteReplayed
<1>2. /\ handler[k].at = "replay" /\ s \in Seq(Events) /\ Orderly(s) /\ i \in DOMAIN s
      /\ UNCHANGED <<made, during, file, chan, writer>>
  BY DEF WriteReplayed, Unsent, log, lines, OnceInv, StreamInv, TypeOK, OrderInv, Paths
<1>3. /\ r = SubSeq(s, i + 1, Len(s)) /\ handler'[k].at = "replay"
      /\ \A l \in Connections \ {k} : handler'[l] = handler[l]
  BY <1>1, <1>2 DEF OnceInv, StreamInv, TypeOK
<1>4. /\ Orderly(r) /\ Follows(Elements(r), {s[i]}) /\ Elements(r) \subseteq Elements(s)
      /\ s[i] \in Events /\ s[i] \in Elements(s)
  BY <1>2, <1>3, OrderlyRest, RestElements
<1>5. client = "reading" /\ k = attempt => Follows(Elements(s), Read)
  BY <1>2 DEF OrderInv, Ahead
<1>6. /\ ReadInOrder' /\ client' = client /\ attempt' = attempt
      /\ Read' \subseteq Read \cup {s[i]}
      /\ ~(client = "reading" /\ k = attempt) => Read' = Read
  BY <1>1, <1>2, <1>4, <1>5, DeliverOrder DEF Follows
<1> HIDE DEF s, r
<1>7. Paths'
  BY <1>2, <1>3, <1>4 DEF OrderInv, Paths, Orderly, Before, r
<1>8. Ahead'
  <2> SUFFICES ASSUME client = "reading", NEW l \in Connections, l = attempt
               PROVE  /\ handler'[l].at = "accepted" => Read' = {}
                      /\ handler'[l].at = "replay" => Follows(Elements(handler'[l].replay), Read')
                      /\ handler'[l].at = "stream" => Follows(Elements(chan[l]), Read')
    BY <1>2, <1>6 DEF Ahead, Follows, Before
  <2>1. CASE l = k
    BY <1>3, <1>4, <1>5, <1>6, <2>1 DEF Follows, r
  <2>2. CASE l # k
    BY <1>3, <1>6, <2>2 DEF OrderInv, Ahead
  <2> QED
    BY <2>1, <2>2
<1>9. Unended'
  BY <1>2 DEF OrderInv, Unended, Follows, Before
<1> QED
  BY <1>6, <1>7, <1>8, <1>9 DEF OrderInv

LEMMA SubscribeOrder ==
  ASSUME OnceInv, OrderInv, NEW k \in Connections, Subscribe(k)
  PROVE  OrderInv'
<1>1. /\ UNCHANGED <<made, during, file, chan, writer, client, attempt, seen, since>>
      /\ handler'[k] = Inactive("stream") /\ handler[k].at = "replay"
      /\ \A l \in Connections \ {k} : handler'[l] = handler[l]
  BY DEF Subscribe, log, lines, reader, OnceInv, StreamInv, TypeOK
<1>2. chan[k] = <<>> /\ Elements(chan[k]) = {} /\ handler'[k].at = "stream" /\ handler'[k].replay = <<>>
  BY <1>1, NothingInEmpty DEF OnceInv, Channels, Inactive
<1>3. Read' = Read
  BY <1>1 DEF Read
<1>4. Paths' /\ Unended' /\ ReadInOrder'
  BY <1>1, <1>2, EmptyOrderly DEF OrderInv, Paths, Unended, ReadInOrder, Orderly, Follows, Before
<1>5. Ahead'
  <2> SUFFICES ASSUME client = "reading", NEW l \in Connections, l = attempt
               PROVE  /\ handler'[l].at = "accepted" => Read = {}
                      /\ handler'[l].at = "replay" => Follows(Elements(handler'[l].replay), Read)
                      /\ handler'[l].at = "stream" => Follows(Elements(chan[l]), Read)
    BY <1>1, <1>3 DEF Ahead, Follows, Before
  <2>1. CASE l = k
    BY <1>2, <2>1, EmptyOrderly
  <2>2. CASE l # k
    BY <1>1, <2>2 DEF OrderInv, Ahead
  <2> QED
    BY <2>1, <2>2
<1> QED
  BY <1>4, <1>5 DEF OrderInv

LEMMA WriteLiveOrder ==
  ASSUME OnceInv, OrderInv, NEW k \in Connections, WriteLive(k)
  PROVE  OrderInv'
<1> DEFINE n == Head(chan[k])
<1>1. /\ chan[k] \in Seq(Events) /\ chan[k] # <<>> /\ Orderly(chan[k]) /\ Deliver(k, n)
      /\ handler[k].at = "stream" /\ UNCHANGED <<made, during, file, writer, handler>>
  BY DEF WriteLive, log, lines, OnceInv, StreamInv, TypeOK, OrderInv, Paths
<1>2. chan'[k] = Tail(chan[k]) /\ \A l \in Connections \ {k} : chan'[l] = chan[l]
  BY DEF WriteLive, OnceInv, StreamInv, TypeOK
<1>3. /\ n \in Events /\ n \in Elements(chan[k]) /\ Elements(chan'[k]) \subseteq Elements(chan[k])
      /\ Orderly(chan'[k]) /\ Follows(Elements(chan'[k]), {n})
  BY <1>1, <1>2, TailElements, OrderlyTail
<1> HIDE DEF n
<1>4. client = "reading" /\ k = attempt => Follows(Elements(chan[k]), Read)
  BY <1>1 DEF OrderInv, Ahead
<1>5. /\ ReadInOrder' /\ client' = client /\ attempt' = attempt
      /\ Read' \subseteq Read \cup {n}
      /\ ~(client = "reading" /\ k = attempt) => Read' = Read
  BY <1>1, <1>3, <1>4, DeliverOrder DEF Follows
<1>6. Paths'
  BY <1>1, <1>2, <1>3 DEF OrderInv, Paths, Orderly, Before
<1>7. Ahead'
  <2> SUFFICES ASSUME client = "reading", NEW l \in Connections, l = attempt
               PROVE  /\ handler[l].at = "accepted" => Read' = {}
                      /\ handler[l].at = "replay" => Follows(Elements(handler[l].replay), Read')
                      /\ handler[l].at = "stream" => Follows(Elements(chan'[l]), Read')
    BY <1>1, <1>5 DEF Ahead, Follows, Before
  <2>1. CASE l = k
    BY <1>1, <1>3, <1>4, <1>5, <2>1 DEF Follows
  <2>2. CASE l # k
    BY <1>2, <1>5, <2>2 DEF OrderInv, Ahead
  <2> QED
    BY <2>1, <2>2
<1>8. Unended'
  BY <1>1 DEF OrderInv, Unended, Follows, Before
<1> QED
  BY <1>5, <1>6, <1>7, <1>8 DEF OrderInv

LEMMA UnsubscribeOrder ==
  ASSUME OnceInv, OrderInv, NEW k \in Connections, Unsubscribe(k)
  PROVE  OrderInv'
<1>1. /\ UNCHANGED <<made, during, file, writer, client, attempt, seen, since>>
      /\ handler'[k].at = "closed" /\ handler'[k].replay = handler[k].replay /\ chan'[k] = <<>>
      /\ \A l \in Connections \ {k} : handler'[l] = handler[l] /\ chan'[l] = chan[l]
  BY DEF Unsubscribe, log, lines, reader, OnceInv, StreamInv, TypeOK
<1>2. Read' = Read
  BY <1>1 DEF Read
<1>3. Paths' /\ Unended' /\ ReadInOrder'
  BY <1>1, EmptyOrderly DEF OrderInv, Paths, Unended, ReadInOrder, Orderly, Follows, Before
<1>4. Ahead'
  BY <1>1, <1>2 DEF OrderInv, Ahead, Follows, Before
<1> QED
  BY <1>3, <1>4 DEF OrderInv

(* A new connection has read nothing.                                         *)
LEMMA ClientOrder ==
  ASSUME OnceInv, OrderInv, Connect \/ Disconnect
  PROVE  OrderInv'
<1>1. /\ UNCHANGED <<made, during, file, writer, chan, seen>>
      /\ seen \in Seq(Events) /\ since \in Nat
  BY DEF Connect, Disconnect, log, lines, OnceInv, StreamInv, TypeOK
<1>2. \A k \in Connections : handler'[k].replay = handler[k].replay
  <2>1. handler \in [Connections -> Handlers]
    BY DEF OnceInv, StreamInv, TypeOK, Handlers
  <2>2. CASE Connect /\ up
    <3>1. attempt + 1 \in Connections
      BY <2>2, AttemptsAssumption DEF Connect, Connections, OnceInv, StreamInv, TypeOK
    <3>2. handler' = [handler EXCEPT ![attempt + 1] = [handler[attempt + 1] EXCEPT !.at = "accepted"]]
      BY <2>2 DEF Connect
    <3> QED
      BY <2>1, <3>1, <3>2, HandlerFields
  <2>3. CASE ~(Connect /\ up)
    BY <2>3 DEF Connect, Disconnect
  <2> QED
    BY <2>2, <2>3
<1>3. Paths' /\ Unended'
  BY <1>1, <1>2 DEF OrderInv, Paths, Unended, Orderly, Follows, Before
<1>4. CASE Connect
  <2>1. /\ since' = Len(seen) /\ DOMAIN seen = 1..Len(seen) /\ Len(seen) \in Nat
    BY <1>1, <1>4, LenProperties DEF Connect
  <2>2. \A i \in DOMAIN seen : ~(since' < i)
    BY <2>1
  <2>3. Read' = {} /\ ReadInOrder'
    BY <1>1, <2>2 DEF Read, ReadInOrder
  <2>4. Ahead'
    BY <2>3, EmptyOrderly DEF Ahead, Follows
  <2> QED
    BY <1>3, <2>3, <2>4 DEF OrderInv
<1>5. CASE Disconnect
  BY <1>1, <1>3, <1>5 DEF Disconnect, OrderInv, Ahead, ReadInOrder, Before
<1> QED
  BY <1>4, <1>5

LEMMA OrderKeeps == OnceInv /\ OrderInv /\ [Next]_vars => OrderInv'
<1> SUFFICES ASSUME OnceInv, OrderInv, [Next]_vars PROVE OrderInv'
  OBVIOUS
<1>1. ASSUME NEW w \in Writers, AppendBegin(w) \/ AppendStep(w)  PROVE OrderInv'
  <2>1. ASSUME NEW k \in Connections, SendOnClosed(w, k)  PROVE OrderInv'
    BY <2>1, GoneOrder DEF SendOnClosed
  <2> QED
    BY <1>1, <2>1, AppendBeginOrder, WriteOrder, SendOrder DEF AppendStep
<1>2. ASSUME NEW k \in Connections, HandlerStep(k)  PROVE OrderInv'
  BY <1>2, ReplayEventsOrder, WriteReplayedOrder, SubscribeOrder, WriteLiveOrder, UnsubscribeOrder
     DEF HandlerStep
<1>3. CASE Crash
  BY <1>3, GoneOrder DEF Crash
<1>4. CASE Restart \/ UNCHANGED vars
  BY <1>4 DEF Restart, vars, log, lines, reader, OrderInv, Paths, Ahead, Unended, ReadInOrder,
              Orderly, Follows, Before, Read
<1> QED
  BY <1>1, <1>2, <1>3, <1>4, ClientOrder DEF Next

(* Whatever number of goroutines append side by side and wherever a connection*)
(* turns from its replay to its channel: it never gives an event after one    *)
(* whose Append began when the first one's had ended.                         *)
THEOREM ReadInOrderHolds == Spec => []ReadInOrder
<1>1. OrderInv => ReadInOrder
  BY DEF OrderInv
<1> QED
  BY <1>1, InitOrder, OrderKeeps, OnceInvariance, PTL DEF Spec
==============================================================================
