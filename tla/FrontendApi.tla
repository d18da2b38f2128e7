----------------------------- MODULE FrontendApi -----------------------------
(***************************************************************************)
(* frontend_api.py: each browser that connects has a session of two tasks. *)
(* The producer forwards what it hears from the pendant daemon, the        *)
(* middleware, the LabVIEW listener (Labview), the logs and the pings; the *)
(* consumer turns the browser's commands into packets for the middleware.  *)
(* All tasks share one event loop, and so a step ends at an await.         *)
(*                                                                         *)
(* A pendant state, a log or a radio packet stands for its contents, which *)
(* are forwarded unread; the pairing of radio IDs and bodies is PubStream,  *)
(* here a session is in step with it or not.                               *)
(***************************************************************************)
EXTENDS Labview

CONSTANTS
    Session,
    Focuses,        \* what a behaviour is about: the "rows" of LabVIEW, the "feed"
                    \* of the other sources or the "commands" of the browser
    MaxStates,      \* bound: pendant states
    MaxVisits,      \* bound: times a browser connects
    MaxCommands     \* bound: messages a browser sends

ASSUME FrontendAssumption ==
    /\ Focuses \subseteq {"rows", "feed", "commands"}
    /\ MaxStates \in Nat /\ MaxVisits \in Nat /\ MaxCommands \in Nat

VARIABLES
    api,        \* the main task: serving, closing or exited
    shutdown,   \* shutdown_event
    ws,         \* per session: the websocket
    visits,     \* browsers that connected so far
    producer,   \* where the producer is
    due,        \* the sources it has still to look at in this round
    readable,   \* the sources with something to receive
    newest,     \* the pendant state and the LabVIEW row of its sockets
    pinged,     \* there are cached_ping_results
    consumer,   \* where the consumer is
    inbox,      \* the message from the browser
    bytes,      \* packet_bytes, which keeps its value between messages
    commands,   \* messages sent so far
    answered,   \* history: the last message handled and what was sent for it
    shown,      \* history: what the browser was sent last
    shifted,    \* the sessions that take bodies of radio packets for IDs
    state,      \* the state of the pendant
    focus       \* see Focuses

frontend == <<api, shutdown, ws, visits, producer, due, readable, newest, pinged,
              consumer, inbox, bytes, commands, answered, shown, shifted, state>>
apiVars == <<labview, stopping, frontend, focus>>
producing == <<producer, due, readable, newest, pinged, shown>>
consuming == <<consumer, inbox, bytes, commands, answered>>
lifecycle == <<api, shutdown, visits>>

Nothing == [pendant |-> 0, row |-> NoRow]
Silence == [id |-> Nil, data |-> Nil]

-----------------------------------------------------------------------------
\* The producer of a session

\* The sources in the order a round looks at them.  Whether it is time for the
\* ping results is looked at in every round.
Order == <<"pendant", "server", "labview", "ping", "log">>
First(s, source) ==
    \E i \in DOMAIN Order : /\ Order[i] = source /\ source \in due[s]
                            /\ \A j \in 1..i - 1 : Order[j] \notin due[s]

\* A session subscribes before an ID or between an ID and its body.
Connect(s) ==
    /\ api = "serving" /\ ws[s] = "none" /\ visits < MaxVisits
    /\ visits' = visits + 1
    /\ ws' = [ws EXCEPT ![s] = "open"]
    /\ producer' = [producer EXCEPT ![s] = "poll"]
    /\ consumer' = [consumer EXCEPT ![s] = "wait"]
    /\ \/ UNCHANGED shifted
       \/ focus = "feed" /\ shifted' = shifted \cup {s}
    /\ UNCHANGED <<labview, stopping, api, shutdown, due, readable, newest, pinged,
                   inbox, bytes, commands, answered, shown, state, focus>>

Poll(s) ==
    /\ producer[s] = "poll"
    /\ IF shutdown THEN producer' = [producer EXCEPT ![s] = "done"] /\ UNCHANGED due
       ELSE /\ producer' = [producer EXCEPT ![s] = "round"]
            /\ due' = [due EXCEPT ![s] = readable[s] \cup {"ping"}]
    /\ UNCHANGED <<labview, stopping, lifecycle, ws, readable, newest, pinged, shown,
                   consuming, shifted, state, focus>>

SentOrPassed(s, source, what) ==   \* MUTANT: a closed websocket is passed over
    /\ readable' = [readable EXCEPT ![s] = @ \ {source}]
    /\ shown' = IF ws[s] = "open" THEN [shown EXCEPT ![s] = what] ELSE shown
    /\ due' = [due EXCEPT ![s] = @ \ {source}]
    /\ UNCHANGED producer

\* What comes of a send: a websocket that is closed ends the producer.
Sent(s, source, what) ==
    /\ readable' = [readable EXCEPT ![s] = @ \ {source}]
    /\ IF ws[s] = "open"
       THEN /\ shown' = [shown EXCEPT ![s] = what]
            /\ due' = [due EXCEPT ![s] = @ \ {source}]
            /\ UNCHANGED producer
       ELSE /\ producer' = [producer EXCEPT ![s] = "done"]
            /\ due' = [due EXCEPT ![s] = {}]
            /\ UNCHANGED shown

ForwardPendantWhenQuiet(s) ==   \* MUTANT: radio packets come before the pendant
    /\ producer[s] = "round" /\ First(s, "pendant")
    /\ IF "server" \in due[s]
       THEN due' = [due EXCEPT ![s] = @ \ {"pendant"}]
            /\ UNCHANGED <<producer, readable, shown>>
       ELSE Sent(s, "pendant", [shown[s] EXCEPT !.pendant = newest[s].pendant])
    /\ UNCHANGED <<labview, stopping, lifecycle, ws, newest, pinged, consuming,
                   shifted, state, focus>>

ForwardPendant(s) ==
    /\ producer[s] = "round" /\ First(s, "pendant")
    /\ Sent(s, "pendant", [shown[s] EXCEPT !.pendant = newest[s].pendant])
    /\ UNCHANGED <<labview, stopping, lifecycle, ws, newest, pinged, consuming,
                   shifted, state, focus>>

ForwardLabview(s) ==
    /\ producer[s] = "round" /\ First(s, "labview")
    /\ Sent(s, "labview", [shown[s] EXCEPT !.row = newest[s].row])
    /\ UNCHANGED <<labview, stopping, lifecycle, ws, newest, pinged, consuming,
                   shifted, state, focus>>

\* A packet is forwarded, or passed over when its type is unknown; when a field is
\* missing the round starts anew.  The second half of a pair is waited for,
\* without a timeout; a session that takes bodies for IDs waits for it after every
\* packet, and a message that is lost gets it in or out of step.
ForwardServer(s) ==
    /\ producer[s] = "round" /\ First(s, "server")
    /\ \/ /\ s \notin shifted
          /\ \/ Sent(s, "server", shown[s]) /\ UNCHANGED trouble
             \/ /\ Trouble
                /\ readable' = [readable EXCEPT ![s] = @ \ {"server"}]
                /\ \/ due' = [due EXCEPT ![s] = @ \ {"server"}] /\ UNCHANGED producer
                   \/ /\ producer' = [producer EXCEPT ![s] = "poll"]
                      /\ due' = [due EXCEPT ![s] = {}]
                /\ UNCHANGED shown
          /\ UNCHANGED shifted
       \/ /\ producer' = [producer EXCEPT ![s] = "body"]
          /\ \/ s \in shifted /\ UNCHANGED <<shifted, trouble>>
             \/ Trouble /\ shifted' \in {shifted \cup {s}, shifted \ {s}}
          /\ UNCHANGED <<readable, due, shown>>
    /\ UNCHANGED <<listener, socket, server, stream, clusters, rows, stopping, lifecycle, ws,
                   newest, pinged, consuming, state, focus>>

\* The second half.  A session out of step finds an ID instead of a body, and
\* starts anew; the body of that ID is there to be taken for the next ID.
BodyArrives(s) ==
    /\ producer[s] = "body"
    /\ producer' = [producer EXCEPT ![s] = IF s \in shifted THEN "poll" ELSE "round"]
    /\ due' = [due EXCEPT ![s] = IF s \in shifted THEN {} ELSE @]
    /\ UNCHANGED <<labview, stopping, lifecycle, ws, readable, newest, pinged, shown,
                   consuming, shifted, state, focus>>

\* Every two seconds the results of the pings are sent, once there are any.
SendPing(s) ==
    /\ producer[s] = "round" /\ First(s, "ping") /\ pinged[s]
    /\ Sent(s, "ping", shown[s])
    /\ UNCHANGED <<labview, stopping, lifecycle, ws, newest, pinged, consuming,
                   shifted, state, focus>>

PingNotDue(s) ==
    /\ producer[s] = "round" /\ First(s, "ping")
    /\ due' = [due EXCEPT ![s] = @ \ {"ping"}]
    /\ UNCHANGED <<labview, stopping, lifecycle, ws, producer, readable, newest, pinged, shown,
                   consuming, shifted, state, focus>>

ForwardLog(s) ==
    /\ producer[s] = "round" /\ First(s, "log")
    /\ Sent(s, "log", shown[s])
    /\ UNCHANGED <<labview, stopping, lifecycle, ws, newest, pinged, consuming,
                   shifted, state, focus>>

EndRound(s) ==
    /\ producer[s] = "round" /\ due[s] = {}
    /\ producer' = [producer EXCEPT ![s] = "poll"]
    /\ UNCHANGED <<labview, stopping, lifecycle, ws, due, readable, newest, pinged, shown,
                   consuming, shifted, state, focus>>

Produce(s) ==
    \/ Poll(s) \/ ForwardPendant(s) \/ ForwardServer(s) \/ ForwardLabview(s)
    \/ PingNotDue(s) \/ SendPing(s) \/ ForwardLog(s) \/ EndRound(s)

-----------------------------------------------------------------------------
\* The ping worker of a session: the first results.
Ping(s) ==
    /\ producer[s] \notin {"none", "done"} /\ ~shutdown /\ ~pinged[s]
    /\ pinged' = [pinged EXCEPT ![s] = TRUE]
    /\ UNCHANGED <<labview, stopping, lifecycle, ws, producer, due, readable, newest, shown,
                   consuming, shifted, state, focus>>

-----------------------------------------------------------------------------
\* The consumer of a session

ManualNames == {"MANUAL_PURGE", "O2_FILL_ACTIVATE", "SELECTOR_SWITCH_NEUTRAL_POSITION",
                "N2O_FILL_ACTIVATE", "IGNITION_FIRE", "IGNITION_SELECTED",
                "GAS_FILL_SELECTED", "SYSTEM_ACTIVATE"}
CommandNames == {"RSSI", "SNR", "SYS_ON", "FILL_SELECTED", "IGNITION_SELECTED",
                 "N2O_ACTIVE", "NEUTRAL_ACTIVE", "PURGE_ACTIVE", "O2_MOMENT_ACTIVE",
                 "IGNITION_MOMENT_ACTIVE", "F9", "F10", "F11", "F12"}

Ids == {9, 253}

\* What is sent for a message: build_packet passes its names on to the state
\* command, which must know them; a camera status that is no Boolean is on.
Built(message) ==
    IF message.id = 9
    THEN IF ManualNames \subseteq CommandNames /\ message.data # "other"
         THEN <<message.data, "packet">> ELSE Nil
    ELSE IF message.data = "false" THEN <<100>> ELSE <<123>>

Messages == [id : {7} \cup Ids, data : {Nil, "true", "false", "other"}] \cup {Silence}
BrowserSends(s) ==
    /\ ws[s] = "open" /\ inbox[s] = Silence /\ commands < MaxCommands
    /\ commands' = commands + 1
    /\ inbox' \in {[inbox EXCEPT ![s] = message] : message \in Messages \ {Silence}}
    /\ answered' = [answered EXCEPT ![s] = Nil]
    /\ UNCHANGED <<labview, stopping, lifecycle, ws, producing, consumer, bytes,
                   shifted, state, focus>>

HandleAny(s) ==   \* MUTANT: a message with another id is not passed over
    /\ consumer[s] = "wait" /\ inbox[s] # Silence /\ ~shutdown
    /\ LET message == inbox[s]
           known == message.id \in Ids /\ message.data # Nil /\ Built(message) # Nil
       IN  /\ bytes' = [bytes EXCEPT ![s] = IF known THEN Built(message) ELSE @]
           /\ answered' = [answered EXCEPT ![s] = [message |-> message, sent |-> bytes'[s]]]
    /\ inbox' = [inbox EXCEPT ![s] = Silence]
    /\ UNCHANGED <<labview, stopping, lifecycle, ws, producing, consumer, commands,
                   shifted, state, focus>>

\* A message that is not JSON, has another id or no data is passed over, and so
\* is one whose packet cannot be built.
Handle(s) ==
    /\ consumer[s] = "wait" /\ inbox[s] # Silence /\ ~shutdown
    /\ LET message == inbox[s]
           known == message.id \in Ids /\ message.data # Nil /\ Built(message) # Nil
       IN  /\ bytes' = [bytes EXCEPT ![s] = IF known THEN Built(message) ELSE @]
           /\ answered' = [answered EXCEPT ![s] =
                 [message |-> message, sent |-> IF known THEN bytes'[s] ELSE Nil]]
    /\ inbox' = [inbox EXCEPT ![s] = Silence]
    /\ UNCHANGED <<labview, stopping, lifecycle, ws, producing, consumer, commands,
                   shifted, state, focus>>

\* The end of the messages: the websocket is closed, or one came after shutdown.
EndConsumer(s) ==
    /\ consumer[s] = "wait"
    /\ IF inbox[s] = Silence THEN ws[s] = "closed" ELSE shutdown
    /\ consumer' = [consumer EXCEPT ![s] = "done"]
    /\ UNCHANGED <<labview, stopping, lifecycle, ws, producing, inbox, bytes, commands, answered,
                   shifted, state, focus>>

-----------------------------------------------------------------------------
\* Sessions and the main task

\* Neither task ends with an exception, and so the handler waits for both.
EndSession(s) ==
    /\ producer[s] = "done" /\ consumer[s] = "done"
    /\ ws' = [ws EXCEPT ![s] = "none"]
    /\ producer' = [producer EXCEPT ![s] = "none"]
    /\ consumer' = [consumer EXCEPT ![s] = "none"]
    /\ due' = [due EXCEPT ![s] = {}]
    /\ readable' = [readable EXCEPT ![s] = {}]
    /\ newest' = [newest EXCEPT ![s] = Nothing]
    /\ pinged' = [pinged EXCEPT ![s] = FALSE]
    /\ inbox' = [inbox EXCEPT ![s] = Silence]
    /\ bytes' = [bytes EXCEPT ![s] = Nil]
    /\ answered' = [answered EXCEPT ![s] = Nil]
    /\ shown' = [shown EXCEPT ![s] = Nothing]
    /\ shifted' = shifted \ {s}
    /\ UNCHANGED <<labview, stopping, lifecycle, commands, state, focus>>

SetShutdown ==
    /\ ~shutdown /\ shutdown' = TRUE
    /\ UNCHANGED <<labview, stopping, api, visits, ws, producing, consuming,
                   shifted, state, focus>>

CloseNothing ==   \* MUTANT: the websockets are left open
    /\ api = "serving" /\ shutdown
    /\ api' = "closing"
    /\ UNCHANGED <<labview, stopping, shutdown, visits, ws, producing, consuming,
                   shifted, state, focus>>

CloseAll ==
    /\ api = "serving" /\ shutdown
    /\ api' = "closing"
    /\ ws' = [s \in Session |-> IF ws[s] = "open" THEN "closed" ELSE ws[s]]
    /\ UNCHANGED <<labview, stopping, shutdown, visits, producing, consuming,
                   shifted, state, focus>>

ExitApi ==
    /\ api = "closing" /\ \A s \in Session : ws[s] = "none"
    /\ api' = "exited"
    /\ UNCHANGED <<labview, stopping, shutdown, visits, ws, producing, consuming,
                   shifted, state, focus>>

-----------------------------------------------------------------------------
\* Browsers, and what the other processes send

CloseBrowser(s) ==
    /\ ws[s] = "open"
    /\ ws' = [ws EXCEPT ![s] = "closed"]
    /\ UNCHANGED <<labview, stopping, lifecycle, producing, consuming,
                   shifted, state, focus>>

Listening == {s \in Session : producer[s] \notin {"none", "done"}}
Hear(sources, what) ==
    /\ readable' = [s \in Session |-> IF s \in Listening THEN readable[s] \cup sources
                                      ELSE readable[s]]
    /\ newest' = [s \in Session |-> IF s \in Listening THEN what[s] ELSE newest[s]]

\* The daemon publishes the state again and again.
PublishPendant ==
    /\ Hear({"pendant"}, [s \in Session |-> [newest[s] EXCEPT !.pendant = state]])
    /\ UNCHANGED <<labview, stopping, lifecycle, ws, producer, due, pinged, shown, consuming,
                   shifted, state, focus>>

SwitchPendant ==
    /\ state < MaxStates /\ state' = state + 1
    /\ UNCHANGED <<labview, stopping, lifecycle, ws, producing, consuming, shifted,
                   focus>>

OtherMessage ==
    /\ \E source \in {"server", "log"} : Hear({source}, newest)
    /\ UNCHANGED <<labview, stopping, lifecycle, ws, producer, due, pinged, shown, consuming,
                   shifted, state, focus>>

\* The queue of rows is represented by its last.
PublishedRow ==
    /\ PublishRow /\ UNCHANGED trouble
    /\ Hear({"labview"}, [s \in Session |-> [newest[s] EXCEPT !.row = published']])
    /\ UNCHANGED <<stopping, lifecycle, ws, producer, due, pinged, shown, consuming,
                   shifted, state, focus>>

StopListener ==
    /\ ~stopping /\ stopping' = TRUE
    /\ UNCHANGED <<labview, frontend, focus>>

ApiInit ==
    /\ LabviewInit /\ stopping = FALSE
    /\ api = "serving" /\ shutdown = FALSE /\ visits = 0 /\ commands = 0 /\ state = 0
    /\ ws = [s \in Session |-> "none"]
    /\ producer = [s \in Session |-> "none"] /\ consumer = [s \in Session |-> "none"]
    /\ due = [s \in Session |-> {}] /\ readable = [s \in Session |-> {}]
    /\ newest = [s \in Session |-> Nothing] /\ shown = [s \in Session |-> Nothing]
    /\ pinged = [s \in Session |-> FALSE] /\ bytes = [s \in Session |-> Nil]
    /\ inbox = [s \in Session |-> Silence] /\ answered = [s \in Session |-> Nil]
    /\ shifted = {} /\ focus \in Focuses

\* The listener takes its steps beside the sessions.
ListenerSteps == (Listener \/ Unreachable) /\ UNCHANGED <<stopping, frontend, focus>>
LabviewServerSteps == LabviewServer /\ UNCHANGED <<stopping, frontend, focus>>

ApiNext ==
    \/ /\ focus = "rows"
       /\ ListenerSteps \/ LabviewServerSteps \/ PublishedRow \/ StopListener
    \/ /\ focus = "feed"
       /\ PublishPendant \/ SwitchPendant \/ OtherMessage
    \/ /\ focus = "commands"
       /\ \E s \in Session : BrowserSends(s) \/ Handle(s)
    \/ \E s \in Session :
          \/ Connect(s) \/ Produce(s) \/ BodyArrives(s) \/ Ping(s) \/ EndConsumer(s)
          \/ EndSession(s) \/ CloseBrowser(s)
    \/ focus # "rows" /\ SetShutdown
    \/ CloseAll \/ ExitApi

\* The processes run, and the daemon goes on publishing; every two seconds the
\* ping results are due, whatever the other sources send.
ApiFairness ==
    /\ WF_apiVars(focus = "rows" /\ Listener /\ UNCHANGED <<stopping, frontend, focus>>)
    /\ WF_apiVars(focus = "rows" /\ PublishedRow)
    /\ WF_apiVars(focus = "feed" /\ PublishPendant)
    /\ \A s \in Session :
          /\ WF_apiVars(Produce(s)) /\ WF_apiVars(Ping(s)) /\ SF_apiVars(SendPing(s))
          /\ WF_apiVars(focus = "commands" /\ Handle(s))
          /\ WF_apiVars(EndConsumer(s)) /\ WF_apiVars(EndSession(s))
    /\ WF_apiVars(CloseAll) /\ WF_apiVars(ExitApi)

ApiSpec == ApiInit /\ [][ApiNext]_apiVars
FairApi == ApiSpec /\ ApiFairness

-----------------------------------------------------------------------------
\* Properties

\* The variables keep their types (frontend_api.py, labview_listener.py).
ApiTypeOK ==
    /\ LabviewTypeOK /\ stopping \in BOOLEAN /\ focus \in Focuses
    /\ shifted \subseteq Session
    /\ api \in {"serving", "closing", "exited"} /\ shutdown \in BOOLEAN
    /\ visits \in 0..MaxVisits /\ commands \in 0..MaxCommands /\ state \in 0..MaxStates
    /\ \A s \in Session :
          /\ ws[s] \in {"none", "open", "closed"}
          /\ producer[s] \in {"none", "poll", "round", "body", "done"}
          /\ consumer[s] \in {"none", "wait", "done"}
          /\ (ws[s] = "none" <=> producer[s] = "none")
          /\ {"ping"} \subseteq due[s] => producer[s] \in {"round", "body"}
          /\ readable[s] \subseteq {Order[i] : i \in DOMAIN Order} \ {"ping"}
          /\ newest[s].pendant \in 0..state /\ shown[s].pendant \in 0..state
          /\ pinged[s] \in BOOLEAN /\ inbox[s] \in Messages

\* It awaits the second half of a packet, without a timeout; a session out of
\* step does so between any two packets.
Stuck(s) == producer[s] = "body"

\* The newest state of the pendant reaches every browser that stays, however
\* much the other sources send (frontend_api.py 168-183, zmq.CONFLATE).
NewestPendantIsShown ==
    \A s \in Session, k \in 1..MaxStates :
        (focus = "feed" /\ ws[s] = "open" /\ state = k) ~>
            (shown[s].pendant >= k \/ ws[s] # "open" \/ shutdown \/ Stuck(s))

\* The session of a browser that has gone ends, and frees its sockets, unless
\* the second half of a packet never comes (frontend_api.py 281, 434).
ClosedSessionsEnd ==
    \A s \in Session : (ws[s] = "closed") ~> (ws[s] = "none" \/ Stuck(s))

\* After a signal the service exits, with the same exception (461-466), and so
\* does the listener, unless it waits for a server that says nothing.
ServiceEnds ==
    /\ shutdown ~> (api = "exited" \/ \E s \in Session : Stuck(s))
    /\ ListenerStops

\* What is sent for a message is the packet of that message, never the one
\* left from a message before it (370-373).
NothingStaleIsSent ==
    \A s \in Session : LET a == answered[s] IN
        a # Nil => (a.sent # Nil => a.sent = Built(a.message))

\* Sessions and their tasks come and go together, and nothing stale is sent.
SessionInv == ApiTypeOK /\ NothingStaleIsSent
=============================================================================
