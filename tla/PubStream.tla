------------------------------ MODULE PubStream ------------------------------
(***************************************************************************)
(* The stream of radio packets from the middleware to its subscribers.     *)
(* For each packet input_read_loop publishes the ID and then the body, two *)
(* messages on one PUB socket; the event viewer and the browser sessions   *)
(* of the frontend API pair them again, each in a loop of its own.         *)
(*                                                                         *)
(* Three things disturb a stream, MaxFaults times in all: a packet has no  *)
(* body (it does not parse, or its type is unknown), the queue of a        *)
(* subscriber overflows, and the reader is held up between ID and body.    *)
(* Packet numbers stand for IDs and bodies alike: an ID belongs to the     *)
(* body of its own number only.                                            *)
(***************************************************************************)
EXTENDS Naturals, Sequences

CONSTANTS
  Viewer, Session, \* event viewers; sessions of the frontend API
  Numbers,         \* bound: packets are numbered modulo this
  HighWater,       \* high-water mark of a subscription
  MaxFaults,       \* bound: disturbances
  None

Subscriber == Viewer \cup Session
Packet  == 0..Numbers - 1
Id(n)   == [kind |-> "id", number |-> n]
Body(n) == [kind |-> "body", number |-> n]
Message == [kind : {"id", "body"}, number : Packet]

ASSUME ConstantsAssumption ==
  /\ Numbers \in Nat \ {0} /\ HighWater \in Nat \ {0} /\ MaxFaults \in Nat
  /\ Viewer \cap Session = {}
  /\ None \notin Message \cup (Packet \X Packet)

VARIABLES
  ppc, packet,    \* input_read_loop, and the number of its packet
  queue,          \* per subscriber: messages not yet received
  spc,            \* its loop: out, before the stop check, awaiting ID or body
  held,           \* the message it took for the ID
  shown,          \* ID and body it paired last
  lost,           \* history: its queue has overflowed
  skipped,        \* history: packets a viewer missed between two it showed, capped
  faults,         \* disturbances so far
  stopping        \* the signal to stop has come

reader == <<ppc, packet>>
vars == <<reader, queue, spc, held, shown, lost, skipped, faults, stopping>>

SkipCap == 2 * MaxFaults + 1

TypeOK ==
  /\ ppc \in {"read", "body"} /\ packet \in Packet
  /\ queue \in [Subscriber -> Seq(Message)]
  /\ \A s \in Subscriber : Len(queue[s]) <= HighWater
  /\ spc \in [Subscriber -> {"out", "top", "id", "body"}]
  /\ held \in [Subscriber -> Message \cup {None}]
  /\ shown \in [Subscriber -> (Packet \X Packet) \cup {None}]
  /\ lost \in [Subscriber -> BOOLEAN]
  /\ skipped \in [Viewer -> 0..SkipCap]
  /\ faults \in 0..MaxFaults
  /\ stopping \in BOOLEAN

Init ==
  /\ ppc = "read" /\ packet = 0
  /\ queue = [s \in Subscriber |-> <<>>]
  /\ spc = [s \in Subscriber |-> "out"]
  /\ held = [s \in Subscriber |-> None]
  /\ shown = [s \in Subscriber |-> None]
  /\ lost = [s \in Subscriber |-> FALSE]
  /\ skipped = [v \in Viewer |-> 0]
  /\ faults = 0
  /\ stopping = FALSE

-----------------------------------------------------------------------------
(* The reader thread of the middleware.                                    *)

Fault == faults < MaxFaults /\ faults' = faults + 1

Joined(s) == spc[s] # "out"

Full(s) == Joined(s) /\ Len(queue[s]) = HighWater

\* pub_socket.send: a subscriber whose queue is full misses the message.
Publish(m) ==
  /\ queue' = [s \in Subscriber |->
                 IF Joined(s) /\ ~Full(s) THEN Append(queue[s], m) ELSE queue[s]]
  /\ lost' = [s \in Subscriber |-> lost[s] \/ Full(s)]
  /\ IF \E s \in Subscriber : Full(s) THEN Fault ELSE UNCHANGED faults
  /\ UNCHANGED <<spc, held, shown, skipped, stopping>>

NextPacket == packet' = (packet + 1) % Numbers

ReadPacket ==
  /\ ppc = "read" /\ ppc' = "body"
  /\ Publish(Id(packet))
  /\ UNCHANGED packet

PublishBody ==
  /\ ppc = "body" /\ ppc' = "read"
  /\ Publish(Body(packet))
  /\ NextPacket

\* Wrong size, an exception in the parser, or an unknown ID.
NoBody ==
  /\ ppc = "body" /\ ppc' = "read"
  /\ Fault
  /\ NextPacket
  /\ UNCHANGED <<queue, spc, held, shown, lost, skipped, stopping>>

Finish == PublishBody \/ NoBody

-----------------------------------------------------------------------------
(* The subscribers.                                                        *)

feed == <<reader, lost, stopping>>

\* Subscribing, at any point of the stream: the viewer starts, a browser connects.
Join(s) ==
  /\ spc[s] = "out" /\ ~stopping
  /\ spc' = [spc EXCEPT ![s] = "top"]
  /\ UNCHANGED <<feed, queue, held, shown, skipped, faults>>

\* The head of the loop, where the signal to stop is looked at.
Loop(s) ==
  /\ spc[s] = "top" /\ ~stopping
  /\ spc' = [spc EXCEPT ![s] = "id"]
  /\ UNCHANGED <<feed, queue, held, shown, skipped, faults>>

\* On the signal; a session also when a send finds that the browser has gone.
Leave(s) ==
  /\ spc[s] = "top"
  /\ stopping \/ s \in Session
  /\ spc' = [spc EXCEPT ![s] = "out"]
  /\ queue' = [queue EXCEPT ![s] = <<>>]
  /\ shown' = [shown EXCEPT ![s] = None]
  /\ lost' = [lost EXCEPT ![s] = FALSE]
  /\ UNCHANGED <<reader, held, skipped, faults, stopping>>

\* The poll for the ID times out.
PollTimeout(s) ==
  /\ spc[s] = "id" /\ queue[s] = <<>>
  /\ spc' = [spc EXCEPT ![s] = "top"]
  /\ UNCHANGED <<feed, queue, held, shown, skipped, faults>>

Arrived(s, kind) == queue[s] # <<>> /\ Head(queue[s]).kind = kind
Take(s) == queue' = [queue EXCEPT ![s] = Tail(@)]

\* The viewer looks at the length of the first message: it cannot be a body.
SkipBody(s) ==
  /\ spc[s] = "id" /\ s \in Viewer
  /\ Arrived(s, "body")
  /\ Take(s)
  /\ spc' = [spc EXCEPT ![s] = "top"]
  /\ UNCHANGED <<feed, held, shown, skipped, faults>>

\* MUTANT: the viewer takes any message for the ID, as a session does.
TakeIdUnseen(s) ==
  /\ spc[s] = "id" /\ queue[s] # <<>>
  /\ Take(s)
  /\ held' = [held EXCEPT ![s] = Head(queue[s])]
  /\ spc' = [spc EXCEPT ![s] = "body"]
  /\ UNCHANGED <<feed, shown, skipped, faults>>

\* A session takes any message for the ID.
TakeId(s) ==
  /\ spc[s] = "id" /\ queue[s] # <<>>
  /\ s \in Viewer => Arrived(s, "id")
  /\ Take(s)
  /\ held' = [held EXCEPT ![s] = Head(queue[s])]
  /\ spc' = [spc EXCEPT ![s] = "body"]
  /\ UNCHANGED <<feed, shown, skipped, faults>>

\* Back to the head of the loop, whatever came of the ID.
Done(s) ==
  /\ spc' = [spc EXCEPT ![s] = "top"]
  /\ held' = [held EXCEPT ![s] = None]

\* MUTANT: the viewer polls for the ID only.
ForgetNever(s) == FALSE /\ spc[s] = "body"

\* The viewer does not wait for the body for ever; a session does.  While the
\* body is still to come it takes a reader held up for longer than the timeout.
Forget(s) ==
  /\ spc[s] = "body" /\ s \in Viewer /\ queue[s] = <<>>
  /\ IF ppc = "body" THEN Fault ELSE UNCHANGED faults
  /\ Done(s)
  /\ UNCHANGED <<feed, queue, shown, skipped>>

\* MUTANT: the ID found in place of the body is dropped, the first one kept.
MismatchKeepsFirst(s) ==
  /\ spc[s] = "body" /\ Arrived(s, "id")
  /\ Take(s)
  /\ UNCHANGED <<feed, spc, held, shown, skipped, faults>>

\* An ID in place of the body: both are dropped.
Mismatch(s) ==
  /\ spc[s] = "body" /\ Arrived(s, "id")
  /\ Take(s) /\ Done(s)
  /\ UNCHANGED <<feed, shown, skipped, faults>>

\* What was taken for the ID is none of the known ones.
Unexpected(s) ==
  /\ spc[s] = "body" /\ Arrived(s, "body") /\ held[s].kind = "body"
  /\ Take(s) /\ Done(s)
  /\ UNCHANGED <<feed, shown, skipped, faults>>

\* Packets between the last one shown and n, up to a multiple of Numbers.
Gap(s, n) == (n + 2 * Numbers - shown[s][2] - 1) % Numbers

Show(s) ==
  /\ spc[s] = "body" /\ Arrived(s, "body") /\ held[s].kind = "id"
  /\ Take(s) /\ Done(s)
  /\ LET n == Head(queue[s]).number
     IN /\ shown' = [shown EXCEPT ![s] = <<held[s].number, n>>]
        /\ skipped' = IF s \in Viewer /\ shown[s] # None
                        THEN [skipped EXCEPT ![s] = IF @ + Gap(s, n) < SkipCap
                                                      THEN @ + Gap(s, n) ELSE SkipCap]
                        ELSE skipped
  /\ UNCHANGED <<feed, faults>>

Subscription(s) ==
  \/ Loop(s) \/ PollTimeout(s)
  \/ SkipBody(s) \/ TakeId(s)
  \/ Forget(s) \/ Mismatch(s) \/ Unexpected(s) \/ Show(s)

Signal ==
  /\ ~stopping /\ stopping' = TRUE
  /\ UNCHANGED <<reader, queue, spc, held, shown, lost, skipped, faults>>

Next ==
  \/ ReadPacket \/ Finish \/ Signal
  \/ \E s \in Subscriber : Join(s) \/ Leave(s) \/ Subscription(s)

Spec == Init /\ [][Next]_vars

\* Threads run: the reader finishes its packet, a subscriber goes on and looks at
\* the signal, and a viewer starts with the system.  The radio may be silent and
\* browsers may stay away.
Runs(s) ==
  \/ Subscription(s)
  \/ stopping /\ Leave(s)
  \/ s \in Viewer /\ Join(s)

RunningSpec ==
  /\ Spec
  /\ WF_vars(Finish)
  /\ \A s \in Subscriber : WF_vars(Runs(s))

\* The radio keeps delivering packets.
RadioWorks == WF_vars(ReadPacket)

-----------------------------------------------------------------------------
(* Properties.                                                             *)

\* A subscriber whose queue has not overflowed (1000 messages, by default) never
\* takes a body for that of another packet, whatever is missing, however often
\* it gives up and wherever in the stream it joined: event_viewer.py 1067-1084,
\* frontend_api.py 186-196.
PairsMatch ==
  \A s \in Subscriber : ~lost[s] /\ shown[s] # None => shown[s][1] = shown[s][2]

\* One disturbance costs the viewer at most two packets, the disturbed one and
\* the next, whose ID is dropped with it (event_viewer.py 1078-1084).
FaultsCostTwo == \A v \in Viewer : skipped[v] <= 2 * faults

\* The viewer ends after the signal, also when the radio is silent: it waits for
\* no message for longer than its timeout (event_viewer.py 1062-1074).
ViewerStops == \A v \in Viewer : stopping ~> ~Joined(v)

\* What is shown next is the packet after the one shown, or the first.
ShowsNext(v) ==
  \/ shown[v] = None \/ shown'[v] = None
  \/ LET n == (shown[v][2] + 1) % Numbers IN shown'[v] = <<n, n>>

\* Once the disturbances are over the viewer shows the packets in turn, each with
\* its own body, for ever as long as the radio delivers; and it ends after the
\* signal even when the radio is silent.
ViewerResyncs ==
  /\ ViewerStops
  /\ \A v \in Viewer : <>[][ShowsNext(v)]_(shown[v])
  /\ RadioWorks => \A v \in Viewer : []<>(stopping \/ shown[v] = <<0, 0>>)

\* A session, which forwards the packets to the browser, shows each of them again
\* and again as long as it lives and the radio delivers.
SessionResyncs ==
  RadioWorks =>
    \A s \in Session, n \in Packet :
      []<>(stopping \/ ~Joined(s) \/ shown[s] = <<n, n>>)
=============================================================================
