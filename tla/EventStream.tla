---------------------------- MODULE EventStream ----------------------------
(* The events of one job: internal/events/events.go keeps them in a file and *)
(* fans them out, internal/daemon/sse.go replays and streams them to a       *)
(* connection, desktop/main/client/daemonClient.ts reads the connection and  *)
(* opens it again when it breaks.                                            *)
(*                                                                           *)
(* An event is the number of its Append; idOf is the id it was given.  The   *)
(* replay buffer in memory is not modelled: nothing reads it.                *)
EXTENDS Naturals, Sequences, FiniteSets

CONSTANTS Writers,    \* goroutines that append: the runner, handlers, schedule
          Attempts,   \* how often the client connects; 4 in streamJobEvents
          Capacity,   \* of the channel of a subscriber; 32 in streamEvents
          Resumes,    \* whether a client may send Last-Event-ID when it reconnects
          MaxEvents,  \* bound: how many events are appended
          Faults      \* which of "crash" and "disk" may happen

ASSUME AttemptsAssumption == Attempts \in Nat
ASSUME CapacityAssumption == Capacity \in Nat \ {0}
ASSUME EventsAssumption == MaxEvents \in Nat
ASSUME ResumesAssumption == Resumes \in BOOLEAN
ASSUME StreamFaultsAssumption == Faults \subseteq {"crash", "disk"}

Events == 1..MaxEvents
Connections == 1..Attempts

VARIABLES
  up,          \* the daemon lives
  panicked,    \* a goroutine of the daemon has panicked
  nextID,      \* s.nextID
  made,        \* the number of events given an id
  idOf,        \* their ids
  during,      \* per event, those whose Append was running when its own began
  file,        \* the events of the lines of events.jsonl that can be read
  cut,         \* the event of its last line when that has no newline, or 0
  cuts,        \* history: the events of which a failed write left something
  glued,       \* history: the cut event to whose line an event was written, or 0
  subscribers, \* s.subscribers: connections, each has a channel of its own
  chan,        \* what is in the channel of each connection
  writer,      \* per goroutine in Append: where it is, its event, its subscribers
  handler,     \* handleEvents of each connection: where it is, what is left to replay
  client,      \* "waiting" to connect, "reading", "ended"
  attempt,     \* the last connection the client opened
  last,        \* the id of the last event it read, 0 for none
  seen,        \* the events it read, in this order
  since        \* how many of them it had read before this connection

lines == <<file, cut, cuts, glued>>
log == <<nextID, made, idOf, during, lines>>
reader == <<client, attempt, last, seen, since>>
vars == <<up, panicked, log, subscribers, chan, writer, handler, reader>>

Resting == [at |-> "idle", event |-> 0, to |-> {}]
Inactive(point) == [at |-> point, replay |-> <<>>, after |-> 0]
Absent == Inactive("none")

Init ==
  /\ up = TRUE /\ panicked = FALSE
  /\ nextID = 1 /\ made = 0
  /\ idOf = [n \in Events |-> 0] /\ during = [n \in Events |-> {}]
  /\ file = <<>> /\ cut = 0 /\ cuts = {} /\ glued = [n \in Events |-> 0]
  /\ subscribers = {}
  /\ chan = [k \in Connections |-> <<>>]
  /\ writer = [w \in Writers |-> Resting]
  /\ handler = [k \in Connections |-> Absent]
  /\ client = "waiting" /\ attempt = 0 /\ last = 0 /\ seen = <<>> /\ since = 0

Elements(s) == {s[i] : i \in DOMAIN s}

------------------------------------------------------------------------------
(* Append: id and subscribers under the lock, file and fanout outside of it.  *)

(* The goroutine fans out to the subscribers left, or is done with it.        *)
FanOut(w, to) == IF to = {} THEN Resting
                 ELSE [at |-> "send", event |-> writer[w].event, to |-> to]

(* The events of the appends that are running.                                *)
InHand == {writer[w].event : w \in {v \in Writers : writer[v].at # "idle"}}

NewEvent ==
  /\ made < MaxEvents
  /\ made' = made + 1
  /\ idOf' = [idOf EXCEPT ![made + 1] = nextID]
  /\ during' = [during EXCEPT ![made + 1] = InHand]
  /\ nextID' = nextID + 1

(* Faulty: the event is fanned out before it is in the file.                  *)
AppendBeginLive(w) ==
  /\ up /\ writer[w].at = "idle"
  /\ NewEvent
  /\ chan' = [k \in Connections |-> IF k \in subscribers THEN Append(chan[k], made + 1) ELSE chan[k]]
  /\ writer' = [writer EXCEPT ![w] = [at |-> "write", event |-> made + 1, to |-> {}]]
  /\ UNCHANGED <<up, panicked, lines, subscribers, handler, reader>>

AppendBegin(w) ==
  /\ up /\ writer[w].at = "idle"
  /\ NewEvent
  /\ writer' = [writer EXCEPT ![w] = [at |-> "write", event |-> made + 1, to |-> subscribers]]
  /\ UNCHANGED <<up, panicked, lines, subscribers, chan, handler, reader>>

(* The lines that end with a newline.  A last line without one can be read    *)
(* when only the newline is missing, until something is written behind it.    *)
Ended == IF cut # 0 /\ file # <<>> /\ file[Len(file)] = cut
         THEN SubSeq(file, 1, Len(file) - 1) ELSE file

(* What is written behind a cut line is one line with it, which no replay can *)
(* parse and each skips.                                                      *)
AppendWrite(w) ==
  /\ writer[w].at = "write"
  /\ file' = IF cut = 0 THEN Append(file, writer[w].event) ELSE Ended
  /\ glued' = [glued EXCEPT ![writer[w].event] = cut]
  /\ cut' = 0
  /\ writer' = [writer EXCEPT ![w] = FanOut(w, writer[w].to)]
  /\ UNCHANGED <<up, panicked, nextID, made, idOf, during, cuts, subscribers, chan, handler, reader>>

(* A write that fails has put nothing into the file, a part of the line, or   *)
(* all but its newline.                                                       *)
PutNothing == UNCHANGED lines

PutPart(n) ==
  /\ \/ file' = Ended
     \/ cut = 0 /\ file' = Append(file, n)
  /\ cut' = n
  /\ cuts' = cuts \cup {n}
  /\ UNCHANGED glued

(* An event that cannot be written is not fanned out either; its id is used.  *)
AppendFails(w) ==
  /\ "disk" \in Faults
  /\ writer[w].at = "write"
  /\ PutNothing \/ PutPart(writer[w].event)
  /\ writer' = [writer EXCEPT ![w] = Resting]
  /\ UNCHANGED <<up, panicked, nextID, made, idOf, during, subscribers, chan, handler, reader>>

(* Faulty: the send waits for room in the channel.                            *)
SendBlocking(w, k) ==
  /\ writer[w].at = "send" /\ k \in writer[w].to
  /\ handler[k].at # "closed"
  /\ Len(chan[k]) < Capacity
  /\ chan' = [chan EXCEPT ![k] = Append(@, writer[w].event)]
  /\ writer' = [writer EXCEPT ![w] = FanOut(w, @.to \ {k})]
  /\ UNCHANGED <<up, panicked, log, subscribers, handler, reader>>

(* The send does not block: a full channel loses the event.                   *)
Send(w, k) ==
  /\ writer[w].at = "send" /\ k \in writer[w].to
  /\ handler[k].at # "closed"
  /\ chan' = IF Len(chan[k]) < Capacity
             THEN [chan EXCEPT ![k] = Append(@, writer[w].event)] ELSE chan
  /\ writer' = [writer EXCEPT ![w] = FanOut(w, @.to \ {k})]
  /\ UNCHANGED <<up, panicked, log, subscribers, handler, reader>>

(* The process is gone, and with it every connection.                         *)
Gone == /\ up' = FALSE
        /\ subscribers' = {}
        /\ chan' = [k \in Connections |-> <<>>]
        /\ writer' = [w \in Writers |-> Resting]
        /\ handler' = [k \in Connections |-> IF handler[k] = Absent THEN Absent
                                             ELSE Inactive("closed")]
        /\ client' = IF client = "reading" THEN "waiting" ELSE client
        /\ UNCHANGED <<log, attempt, last, seen, since>>

(* unsubscribe has closed the channel since Append took its subscribers: the  *)
(* send panics, in a goroutine of the manager this ends the process.          *)
SendOnClosed(w, k) ==
  /\ writer[w].at = "send" /\ k \in writer[w].to
  /\ handler[k].at = "closed"
  /\ panicked' = TRUE
  /\ Gone

------------------------------------------------------------------------------
(* handleEvents of a connection: replay the file, then subscribe, then stream.*)

(* Replay gives the events of the file with an id above this one.  When the   *)
(* next id is missing at its start that is all of it, told with events_lost.  *)
Replay(afterID) ==
  IF afterID = 0 \/ file = <<>> \/ idOf[file[1]] > afterID + 1 THEN 0 ELSE afterID

(* It reads the file without the lock.                                        *)
ReplayEvents(k) ==
  /\ handler[k].at = "accepted"
  /\ \E afterID \in IF Resumes THEN {0, last} ELSE {0} :
       handler' = [handler EXCEPT ![k] =
                     [at |-> "replay", replay |-> file, after |-> Replay(afterID)]]
  /\ UNCHANGED <<up, panicked, log, subscribers, chan, writer, reader>>

(* Where in what it read there are events to be sent still.                   *)
Unsent(k) == {i \in DOMAIN handler[k].replay : idOf[handler[k].replay[i]] > handler[k].after}

(* writeSSE of event n.  Nobody reads a connection that the client has left.  *)
Deliver(k, n) ==
  IF client = "reading" /\ k = attempt
  THEN /\ seen' = Append(seen, n)
       /\ last' = idOf[n]
       /\ UNCHANGED <<client, attempt, since>>
  ELSE UNCHANGED reader

WriteReplayed(k) ==
  /\ handler[k].at = "replay"
  /\ \E i \in Unsent(k) :
       /\ \A l \in Unsent(k) : i <= l
       /\ Deliver(k, handler[k].replay[i])
       /\ handler' = [handler EXCEPT ![k].replay = SubSeq(@, i + 1, Len(@))]
  /\ UNCHANGED <<up, panicked, log, subscribers, chan, writer>>

Subscribe(k) ==
  /\ handler[k].at = "replay" /\ Unsent(k) = {}
  /\ subscribers' = subscribers \cup {k}
  /\ handler' = [handler EXCEPT ![k] = Inactive("stream")]
  /\ UNCHANGED <<up, panicked, log, chan, writer, reader>>

WriteLive(k) ==
  /\ handler[k].at = "stream" /\ chan[k] # <<>>
  /\ Deliver(k, Head(chan[k]))
  /\ chan' = [chan EXCEPT ![k] = Tail(@)]
  /\ UNCHANGED <<up, panicked, log, subscribers, writer, handler>>

(* Faulty: the handler returns without its unsubscribe.                       *)
ReturnSubscribed(k) ==
  /\ handler[k].at = "stream"
  /\ client # "reading" \/ k # attempt
  /\ handler' = [handler EXCEPT ![k].at = "closed"]
  /\ UNCHANGED <<up, panicked, log, subscribers, chan, writer, reader>>

(* The context of the request is done; the deferred unsubscribe runs.         *)
Unsubscribe(k) ==
  /\ handler[k].at = "stream"
  /\ client # "reading" \/ k # attempt
  /\ subscribers' = subscribers \ {k}
  /\ handler' = [handler EXCEPT ![k].at = "closed"]
  /\ chan' = [chan EXCEPT ![k] = <<>>]
  /\ UNCHANGED <<up, panicked, log, writer, reader>>

------------------------------------------------------------------------------
(* The client, and the process.                                               *)

(* Faulty: a subscription before the replay.                                  *)
ConnectSubscribed ==
  /\ client = "waiting" /\ attempt < Attempts
  /\ attempt' = attempt + 1 /\ since' = Len(seen)
  /\ IF up THEN /\ client' = "reading"
                /\ handler' = [handler EXCEPT ![attempt + 1].at = "accepted"]
                /\ subscribers' = subscribers \cup {attempt + 1}
           ELSE UNCHANGED <<client, handler, subscribers>>
  /\ UNCHANGED <<up, panicked, log, chan, writer, last, seen>>

Connect ==
  /\ client = "waiting" /\ attempt < Attempts
  /\ attempt' = attempt + 1 /\ since' = Len(seen)
  /\ IF up THEN /\ client' = "reading"
                /\ handler' = [handler EXCEPT ![attempt + 1].at = "accepted"]
           ELSE UNCHANGED <<client, handler>>
  /\ UNCHANGED <<up, panicked, log, subscribers, chan, writer, last, seen>>

(* The connection breaks, or the user closes the view.                        *)
Disconnect ==
  /\ client = "reading"
  /\ client' \in {"waiting", "ended"}
  /\ UNCHANGED <<up, panicked, log, subscribers, chan, writer, handler, attempt, last, seen, since>>

Crash == /\ "crash" \in Faults /\ up
         /\ Gone
         /\ UNCHANGED panicked

(* NewStore numbers on from the last line that it can read: the ids of events *)
(* that cannot be read are given again.                                       *)
Restart ==
  /\ ~up
  /\ up' = TRUE
  /\ nextID' = IF file = <<>> THEN 1 ELSE idOf[file[Len(file)]] + 1
  /\ UNCHANGED <<panicked, made, idOf, during, lines, subscribers, chan, writer, handler, reader>>

------------------------------------------------------------------------------
AppendStep(w) == \/ AppendWrite(w) \/ AppendFails(w)
                 \/ \E k \in Connections : Send(w, k) \/ SendOnClosed(w, k)

HandlerStep(k) == \/ ReplayEvents(k) \/ WriteReplayed(k) \/ Subscribe(k)
                  \/ WriteLive(k) \/ Unsubscribe(k)

Next == \/ \E w \in Writers : AppendBegin(w) \/ AppendStep(w)
        \/ \E k \in Connections : HandlerStep(k)
        \/ Connect \/ Disconnect \/ Crash \/ Restart

Spec == Init /\ [][Next]_vars

(* Goroutines of the daemon run; a handler whose client has left learns it.   *)
(* A client that stays need not read, so nothing is assumed of WriteLive.     *)
Fairness ==
  /\ \A w \in Writers : WF_vars(AppendStep(w))
  /\ \A k \in Connections : /\ WF_vars(ReplayEvents(k) \/ Subscribe(k))
                            /\ WF_vars((client # "reading" \/ k # attempt) /\ WriteReplayed(k))
                            /\ WF_vars(Unsubscribe(k))

FairSpec == Spec /\ Fairness

------------------------------------------------------------------------------
(* Types.                                                                     *)
TypeOK ==
  /\ up \in BOOLEAN /\ panicked \in BOOLEAN
  /\ nextID \in Nat /\ made \in 0..MaxEvents
  /\ idOf \in [Events -> Nat] /\ during \in [Events -> SUBSET Events]
  /\ file \in Seq(Events)
  /\ cut \in 0..MaxEvents /\ cuts \subseteq Events /\ glued \in [Events -> 0..MaxEvents]
  /\ subscribers \subseteq Connections
  /\ chan \in [Connections -> Seq(Events)]
  /\ writer \in [Writers -> [at : {"idle", "write", "send"}, event : 0..MaxEvents,
                             to : SUBSET Connections]]
  /\ handler \in [Connections -> [at : {"none", "accepted", "replay", "stream", "closed"},
                                  replay : Seq(Events), after : Nat]]
  /\ client \in {"waiting", "reading", "ended"}
  /\ attempt \in 0..Attempts
  /\ last \in Nat /\ seen \in Seq(Events) /\ since \in Nat

Glued == {n \in Events : glued[n] # 0}

(* Events that were put into the file, whether they can still be read or not. *)
Written == Elements(file) \cup cuts \cup Glued

(* events.jsonl is the source of every replay: what a client was ever shown,  *)
(* live or not, is there, and still after a crash; but a write that failed    *)
(* half-way takes with it its own event and at most one other, the one written*)
(* next.                                                                      *)
SeenIsReplayable ==
  /\ Elements(seen) \subseteq Written
  /\ \A n \in Glued : /\ glued[n] \in cuts
                       /\ \A m \in Glued : glued[m] = glued[n] => m = n

(* The inductive invariant behind it: an event is in the file before it is on *)
(* any of the ways to a client.                                               *)
WrittenFirst ==
  /\ \A w \in Writers :
       /\ writer[w].at # "idle" => writer[w].event \in Events
       /\ writer[w].at = "send" => writer[w].event \in Written
  /\ \A k \in Connections : /\ Elements(chan[k]) \subseteq Written
                            /\ Elements(handler[k].replay) \subseteq Written

(* And that an event is written by one goroutine, once: its own write was not *)
(* cut yet, and nothing was glued to the line that is cut now.                *)
CutOnce ==
  /\ Written \subseteq 1..made
  /\ \A w \in Writers : writer[w].at # "idle" => writer[w].event \in 1..made
  /\ \A w \in Writers : writer[w].at = "write" => writer[w].event \notin Written
  /\ \A v, w \in Writers : v # w /\ writer[v].at # "idle" /\ writer[w].at # "idle" =>
       writer[v].event # writer[w].event
  /\ cut # 0 => cut \in cuts /\ \A n \in Glued : glued[n] # cut

StreamInv == TypeOK /\ WrittenFirst /\ CutOnce /\ SeenIsReplayable

(* The doc's promise to a client that reconnects: it never reads an id twice  *)
(* or out of order, over all its connections and all lives of the daemon.     *)
SeenInOrder == \A i, k \in DOMAIN seen : i < k => idOf[seen[i]] < idOf[seen[k]]

(* The Append of event m had ended when that of n began.                      *)
Before(m, n) == m < n /\ m \notin during[n]

(* Whatever goroutines append side by side, whether or not the client resumes:*)
(* on one connection an event is never read after one that was appended later.*)
ReadInOrder ==
  \A i, k \in DOMAIN seen : since < i /\ i < k => ~Before(seen[k], seen[i])

(* One connection never gets an event twice: what it replays was written      *)
(* before it subscribed, what it streams was not.                             *)
ReplayedOrLive ==
  \A k \in Connections :
    /\ \A i, l \in DOMAIN chan[k] : chan[k][i] = chan[k][l] => i = l
    /\ k = attempt /\ client = "reading" /\ handler[k].at = "stream" =>
         Elements(chan[k]) \cap Elements(seen) = {}

(* No append waits for a client, however slow it reads or whenever it leaves. *)
AppendsEnd == \A w \in Writers : writer[w].at # "idle" ~> writer[w].at = "idle"

(* The subscription of a client that has left does not stay.                  *)
Left(k) == k < attempt \/ client = "ended"
NoSubscriberLeaks == \A k \in Connections : k \in subscribers /\ Left(k) ~> k \notin subscribers

(* A client that leaves never brings the daemon down.                         *)
NeverPanics == ~panicked

(* A client does not read past an event it was not given: such a gap has to be*)
(* told with events_lost.                                                     *)
NoSilentGap ==
  \A n \in Elements(file) : last > idOf[n] => n \in Elements(seen)
============================================================================
