------------------------------- MODULE Labview -------------------------------
(***************************************************************************)
(* labview_listener.py: a client of the LabVIEW server that sends a        *)
(* cluster of readings again and again over TCP.  Each chunk received is   *)
(* parsed by itself, written to a log as a row and published for the       *)
(* sessions of the frontend API.                                           *)
(*                                                                         *)
(* A cluster is sent as its Parts, each one or more lines; a reading is    *)
(* the number of the cluster it came from.  The server and the network are *)
(* the environment: a chunk ends where TCP cuts the stream, between two    *)
(* lines or inside one.                                                    *)
(***************************************************************************)
EXTENDS Naturals, Sequences

CONSTANTS
    Parts,          \* a cluster is cut into so many parts
    MaxClusters,    \* bound: clusters the server sends
    MaxTrouble,     \* bound: disconnections, failures of the network or the log
    Nil

ASSUME LabviewAssumption ==
    Parts \in Nat \ {0} /\ MaxClusters \in Nat /\ MaxTrouble \in Nat

VARIABLES
    listener,   \* where the listener is
    socket,     \* labview_client_socket: fresh or used, and what came of it
    server,     \* the LabVIEW server accepts connections
    stream,     \* parts sent and not yet received
    clusters,   \* clusters sent so far
    chunk,      \* the chunk at hand: its complete parts
    row,        \* the last row parsed
    logged,     \* the last row in the log
    published,  \* the last row published
    trouble,
    stopping    \* the signal to stop has come

labview == <<listener, socket, server, stream, clusters, chunk, row, logged, published,
             trouble>>
peer == <<server, stream, clusters, trouble>>
rows == <<chunk, row, logged, published>>

Part == [cluster : 1..MaxClusters, part : 1..Parts]
NoRow == [part \in 1..Parts |-> 0]
Over == {"ended", "died"}

LabviewInit ==
    /\ listener = "sleep" /\ socket = "fresh" /\ server = FALSE
    /\ stream = <<>> /\ clusters = 0 /\ chunk = <<>>
    /\ row = NoRow /\ logged = NoRow /\ published = NoRow
    /\ trouble = 0

Trouble == trouble < MaxTrouble /\ trouble' = trouble + 1

-----------------------------------------------------------------------------
\* Connecting

\* The outer loop: a second between attempts.
Retry ==
    /\ listener = "sleep"
    /\ listener' = IF stopping THEN "ended" ELSE "connect"
    /\ UNCHANGED <<socket, peer, rows>>

Connected ==
    /\ listener = "connect" /\ socket = "fresh" /\ server
    /\ listener' = "pause" /\ socket' = "connected"
    /\ UNCHANGED <<peer, rows>>

\* A socket whose connection was refused may try again.
ConnectionRefused ==
    /\ listener = "connect" /\ socket = "fresh" /\ ~server
    /\ listener' = "sleep"
    /\ UNCHANGED <<socket, peer, rows>>

\* A connection that times out, or has no route, is an OSError of another kind.
Unreachable ==
    /\ listener = "connect" /\ socket = "fresh" /\ Trouble
    /\ listener' = "ended"
    /\ UNCHANGED <<socket, server, stream, clusters, rows>>

\* A socket that was connected before cannot be connected again: also an OSError.
AlreadyConnected ==
    /\ listener = "connect" /\ socket # "fresh"
    /\ listener' = "ended"
    /\ UNCHANGED <<socket, peer, rows>>

-----------------------------------------------------------------------------
\* Receiving

Pause ==
    /\ listener = "pause"
    /\ listener' = IF stopping THEN "sleep" ELSE "recv"
    /\ UNCHANGED <<socket, peer, rows>>

\* recv waits for data.  A part that is cut is lost: its first half is not all of
\* it, and what is left has no beginning.  A chunk without a newline is passed
\* over; one with a newline is parsed, though it may hold no complete part.
Receive ==
    /\ listener = "recv" /\ stream # <<>>
    /\ \E n \in 1..Len(stream), torn \in BOOLEAN :
          /\ stream' = SubSeq(stream, n + 1, Len(stream))
          /\ chunk' = SubSeq(stream, 1, IF torn THEN n - 1 ELSE n)
    /\ \/ listener' = "parse"
       \/ chunk' = <<>> /\ listener' = "pause"
    /\ UNCHANGED <<socket, server, clusters, trouble, row, logged, published>>

\* The server has closed the connection (an empty chunk) or reset it.
Disconnected ==
    /\ listener = "recv" /\ stream = <<>> /\ socket = "gone"
    /\ listener' = "sleep"
    /\ UNCHANGED <<socket, peer, rows>>

\* The value that a name has last in the chunk.
LastIn(part) == {i \in DOMAIN chunk : chunk[i].part = part}
Reading(part) ==
    LET at == LastIn(part) IN chunk[CHOOSE i \in at : \A j \in at : j <= i].cluster

ParseOntoLast ==   \* MUTANT: the readings of earlier chunks are kept
    /\ listener = "parse"
    /\ row' = [part \in 1..Parts |-> IF LastIn(part) = {} THEN row[part] ELSE Reading(part)]
    /\ listener' = "log"
    /\ chunk' = <<>>
    /\ UNCHANGED <<socket, peer, logged, published>>

\* A name that is missing is a KeyError, which nothing catches.
Parse ==
    /\ listener = "parse"
    /\ IF \E part \in 1..Parts : LastIn(part) = {}
       THEN listener' = "died" /\ UNCHANGED row
       ELSE listener' = "log" /\ row' = [part \in 1..Parts |-> Reading(part)]
    /\ chunk' = <<>>
    /\ UNCHANGED <<socket, peer, logged, published>>

\* A row that cannot be written to the log is published all the same.
SaveToLog ==
    /\ listener = "log"
    /\ \/ logged' = row /\ UNCHANGED trouble
       \/ Trouble /\ UNCHANGED logged
    /\ listener' = "publish"
    /\ UNCHANGED <<socket, server, stream, clusters, chunk, row, published>>

\* The PUB socket drops a row that nobody can take.
PublishRow ==
    /\ listener = "publish"
    /\ published' = row
    /\ listener' = "pause"
    /\ UNCHANGED <<socket, peer, chunk, row, logged>>

Listener ==
    \/ Retry \/ Connected \/ ConnectionRefused \/ AlreadyConnected
    \/ Pause \/ Receive \/ Disconnected \/ Parse \/ SaveToLog

-----------------------------------------------------------------------------
\* The LabVIEW server

Serve ==
    /\ ~server
    /\ server' = TRUE
    /\ UNCHANGED <<listener, socket, stream, clusters, trouble, rows>>

SendCluster ==
    /\ server /\ socket = "connected" /\ clusters < MaxClusters
    /\ clusters' = clusters + 1
    /\ stream' = stream \o [part \in 1..Parts |->
                              [cluster |-> clusters + 1, part |-> part]]
    /\ UNCHANGED <<listener, socket, server, trouble, rows>>

Disconnect ==
    /\ socket = "connected" /\ Trouble
    /\ socket' = "gone"
    /\ server' \in BOOLEAN
    /\ UNCHANGED <<listener, stream, clusters, rows>>

LabviewServer == Serve \/ SendCluster \/ Disconnect

-----------------------------------------------------------------------------
\* Properties

LabviewTypeOK ==
    /\ listener \in {"sleep", "connect", "pause", "recv", "parse", "log", "publish"} \cup Over
    /\ socket \in {"fresh", "connected", "gone"} /\ server \in BOOLEAN
    /\ stream \in Seq(Part) /\ chunk \in Seq(Part)
    /\ clusters \in 0..MaxClusters /\ trouble \in 0..MaxTrouble
    /\ \A r \in {row, logged, published} : r \in [1..Parts -> 0..MaxClusters]

\* A row is of one cluster or of two that follow each other, and the rows that
\* are published and logged never go back, wherever the stream is cut.
RowsGoForward ==
    [][row' # row =>
          /\ \A p, q \in 1..Parts : row'[p] <= row'[q] + 1
          /\ \A p \in 1..Parts : row'[p] >= published[p] /\ row'[p] >= logged[p]]_row

\* The listener ends after a signal, unless it waits for a server that says
\* nothing: recv has no timeout.
ListenerStops ==
    stopping ~> (listener \in Over \/ (listener = "recv" /\ stream = <<>>))

=============================================================================
