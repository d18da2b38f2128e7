------------------------------- MODULE TcpLink -------------------------------
(***************************************************************************)
(* TcpInterface as tcp_write drives it, in discrete time: the heartbeat,   *)
(* the suppression of duplicates, the reconnection with backoff, and a     *)
(* peer (the GSE) that crashes, restarts and stalls.                       *)
(*                                                                         *)
(* A tick is 250 ms, the unit all the timing constants are multiples of.   *)
(* Time passes only where the thread blocks: in wait_for, in connect and   *)
(* in send.  Everything else happens within a tick, and a wait_for that is *)
(* over returns within the tick.  How the payload comes to change is       *)
(* module GseLink; here it just changes, and the version with it.          *)
(***************************************************************************)
EXTENDS Naturals

CONSTANTS
  Payload,         \* payloads for the GSE
  Nothing,         \* no payload
  Heartbeat,       \* TCP_HEARTBEAT
  InitialBackoff,  \* initial_tcp_retry_backoff
  MaxBackoff,      \* MAX_TCP_RETRY_BACKOFF
  SendTimeout,     \* TCP_SEND_TIMEOUT
  MaxConnect       \* bound: how long connect blocks

ASSUME ConstantsAssumption ==
  /\ Nothing \notin Payload
  /\ Heartbeat \in Nat \ {0}
  /\ InitialBackoff \in Nat \ {0}
  /\ MaxBackoff \in Nat /\ InitialBackoff <= MaxBackoff
  /\ SendTimeout \in Nat \ {0}
  /\ MaxConnect \in Nat

VARIABLES
  payload, changed,    \* current payload; its version is not the one observed
  wpc, data, waitLeft, \* tcp_write: its payload, ticks left in wait_for
  busy,                \* ticks spent in the present connect or send
  connected,           \* connection_state_
  retryIn, backoff,    \* ticks to next_retry_time_, retry_backoff_
  lastPayload,         \* last_payload_
  sinceSend,           \* ticks since last_send_time_, capped
  peerUp, conn,        \* the peer, and its end of the connection
  got, silence,        \* what it got last on this connection, and ticks since
  torn,                \* it got the beginning of a frame only
  upFor                \* history: ticks it is up, reads and has a payload due, capped

shared == <<payload, changed>>
writer == <<wpc, data, waitLeft, busy>>
retry  == <<retryIn, backoff>>
sent   == <<lastPayload, sinceSend>>
peer   == <<peerUp, conn, got, silence, torn, upFor>>
vars == <<shared, writer, connected, retry, sent, peer>>

Greater(n, m) == IF n > m THEN n ELSE m

\* Ticks to notice that a connection which looks alive is not, on two sends, and
\* from there to a new connection.
Break == Greater(2 * Heartbeat - 1, SendTimeout + Heartbeat)
Heal  == SendTimeout + Heartbeat + MaxConnect

\* A peer that is up again is found within this many ticks.  Either the old
\* connection looks alive, and the first send on it is put off by suppressed
\* duplicates; or the longest backoff has just begun; or an attempt to connect
\* that began before fails first.
RecoveryBound ==
  Greater(2 * Heartbeat - 1 + Break + Heal,
          MaxConnect + Heartbeat + Greater(MaxBackoff - 1, MaxConnect))

\* Beyond these ticks every comparison has the same outcome.
Cap(n, bound) == IF n < bound THEN n ELSE bound
Minus(n, m) == IF n > m THEN n - m ELSE 0

Init ==
  /\ payload \in Payload \cup {Nothing} /\ changed = FALSE
  /\ wpc = "snapshot" /\ data = Nothing /\ waitLeft = 0 /\ busy = 0
  /\ peerUp \in BOOLEAN
  /\ connected = peerUp
  /\ conn = IF peerUp THEN "alive" ELSE "none"
  /\ retryIn = 0 /\ backoff = InitialBackoff
  /\ lastPayload = Nothing /\ sinceSend = 2 * Heartbeat
  /\ got = Nothing /\ silence = 0 /\ torn = FALSE /\ upFor = 0

-----------------------------------------------------------------------------
(* The environment *)

\* Once there is a payload there is one (GseLink: but for a camera message).
Change ==
  /\ \E p \in Payload \ {payload} : payload' = p
  /\ changed' = TRUE
  /\ upFor' = IF payload = Nothing THEN 0 ELSE upFor
  /\ UNCHANGED <<writer, connected, retry, sent, peerUp, conn, got, silence, torn>>

\* The peer crashes; nothing tells our end of the connection.
PeerCrashes ==
  /\ peerUp
  /\ peerUp' = FALSE
  /\ conn' = IF conn = "alive" THEN "dead" ELSE conn
  /\ UNCHANGED <<shared, writer, connected, retry, sent, got, silence, torn, upFor>>

PeerRestarts ==
  /\ ~peerUp
  /\ peerUp' = TRUE
  /\ upFor' = 0
  /\ UNCHANGED <<shared, writer, connected, retry, sent, conn, got, silence, torn>>

\* Where the thread may spend time.
Blocked ==
  \/ wpc = "waiting" /\ waitLeft > 0 /\ ~changed
  \/ wpc = "connect" /\ busy < MaxConnect
  \/ wpc = "send" /\ busy < SendTimeout

Tick ==
  /\ Blocked
  /\ waitLeft' = IF wpc = "waiting" THEN waitLeft - 1 ELSE waitLeft
  /\ busy' = IF wpc = "waiting" THEN busy ELSE busy + 1
  /\ retryIn' = Minus(retryIn, 1)
  /\ sinceSend' = Cap(sinceSend + 1, 2 * Heartbeat)
  /\ silence' = Cap(silence + 1, 2 * Heartbeat + SendTimeout)
  /\ upFor' = Cap(upFor + 1, RecoveryBound + 1)
  /\ UNCHANGED <<shared, wpc, data, connected, backoff, lastPayload, peerUp, conn, got, torn>>

-----------------------------------------------------------------------------
(* tcp_write *)

\* get_gse_payload_snapshot; an empty payload is not written.
Snapshot ==
  /\ wpc = "snapshot"
  /\ data' = payload
  /\ changed' = FALSE
  /\ wpc' = IF payload = Nothing THEN "wait" ELSE "ensure"
  /\ UNCHANGED <<payload, waitLeft, busy, connected, retry, sent, peer>>

\* wait_for_gse_payload_change, from its call to its return.
Wait ==
  /\ wpc = "wait"
  /\ waitLeft' = Heartbeat
  /\ wpc' = "waiting"
  /\ UNCHANGED <<shared, data, busy, connected, retry, sent, peer>>

Wake ==
  /\ wpc = "waiting" /\ (changed \/ waitLeft = 0)
  /\ wpc' = "snapshot"
  /\ UNCHANGED <<shared, data, waitLeft, busy, connected, retry, sent, peer>>

-----------------------------------------------------------------------------
(* TcpInterface *)

\* ensure_connected_or_retry_locked_, up to the call of connect.
Ensure ==
  /\ wpc = "ensure"
  /\ wpc' = CASE connected    -> "write"
              [] ~connected /\ retryIn > 0 -> "wait"
              [] OTHER        -> "connect"
  /\ busy' = 0
  /\ UNCHANGED <<shared, data, waitLeft, connected, retry, sent, peer>>

\* connect_socket_locked_: the old socket is closed, so the peer starts afresh.
ConnectSucceeds ==
  /\ wpc = "connect" /\ peerUp
  /\ connected' = TRUE
  /\ backoff' = InitialBackoff
  /\ retryIn' = 0
  /\ conn' = "alive" /\ got' = Nothing /\ silence' = 0 /\ torn' = FALSE
  /\ wpc' = "write"
  /\ UNCHANGED <<shared, data, waitLeft, busy, sent, peerUp, upFor>>

\* Refused at once, or timed out on a peer that was down when it began.  The backoff counts from before the attempt.
ConnectFails ==
  /\ wpc = "connect" /\ (~peerUp \/ upFor <= busy)
  /\ retryIn' = Minus(backoff, busy)
  /\ backoff' = Cap(2 * backoff, MaxBackoff)
  /\ wpc' = "wait"
  /\ UNCHANGED <<shared, data, waitLeft, busy, connected, sent, peer>>

\* MUTANT: whatever is written within the heartbeat of the last send is skipped.
SuppressAnything ==
  /\ wpc = "write"
  /\ wpc' = IF sinceSend < Heartbeat THEN "wait" ELSE "send"
  /\ busy' = 0
  /\ UNCHANGED <<shared, data, waitLeft, connected, retry, sent, peer>>

\* MUTANT: duplicates are suppressed however old the last send is.
SuppressForever ==
  /\ wpc = "write"
  /\ wpc' = IF data = lastPayload THEN "wait" ELSE "send"
  /\ busy' = 0
  /\ UNCHANGED <<shared, data, waitLeft, connected, retry, sent, peer>>

\* The payload sent last is skipped within the heartbeat of its send.
Suppress ==
  /\ wpc = "write"
  /\ wpc' = IF data = lastPayload /\ sinceSend < Heartbeat THEN "wait" ELSE "send"
  /\ busy' = 0
  /\ UNCHANGED <<shared, data, waitLeft, connected, retry, sent, peer>>

\* The time of a send is the time before it.
Sent ==
  /\ lastPayload' = data
  /\ sinceSend' = Cap(busy, 2 * Heartbeat)
  /\ wpc' = "wait"
  /\ UNCHANGED <<shared, data, waitLeft, busy, connected, retry>>

\* The whole frame arrives.
SendArrives ==
  /\ wpc = "send" /\ conn = "alive"
  /\ Sent
  /\ got' = data /\ silence' = 0
  /\ UNCHANGED <<peerUp, conn, torn, upFor>>

\* The first frame after the peer is gone is accepted by the kernel, and only
\* its consequence, a reset, tells our end.
SendIsLost ==
  /\ wpc = "send" /\ conn = "dead"
  /\ Sent
  /\ conn' = "reset"
  /\ UNCHANGED <<peerUp, got, silence, torn, upFor>>

\* mark_disconnected_locked_.
Disconnect ==
  /\ connected' = FALSE
  /\ conn' = "none"

\* MUTANT: a broken connection is retried only after the longest backoff.
SendFailsAndBacksOff ==
  /\ wpc = "send"
  /\ conn = "reset" \/ busy = SendTimeout
  /\ torn' \in {torn, conn = "alive" /\ busy > 0}
  /\ upFor' = IF conn = "alive" THEN 0 ELSE upFor
  /\ connected' = FALSE
  /\ conn' = "none"
  /\ retryIn' = MaxBackoff
  /\ wpc' = "wait"
  /\ UNCHANGED <<shared, data, waitLeft, busy, backoff, sent, peerUp, got, silence>>

\* send fails on a connection that was reset, or times out on a peer that does
\* not read, perhaps within a frame.
SendFails ==
  /\ wpc = "send"
  /\ conn = "reset" \/ busy = SendTimeout
  /\ torn' \in {torn, conn = "alive" /\ busy > 0}
  /\ upFor' = IF conn = "alive" THEN 0 ELSE upFor
  /\ Disconnect
  /\ wpc' = "wait"
  /\ UNCHANGED <<shared, data, waitLeft, busy, retry, sent, peerUp, got, silence>>

Interface == \/ Ensure \/ ConnectSucceeds \/ ConnectFails \/ Suppress
             \/ SendArrives \/ SendIsLost \/ SendFails

Next == \/ Change \/ PeerCrashes \/ PeerRestarts \/ Tick
        \/ Snapshot \/ Wait \/ Wake \/ Interface

Spec == Init /\ [][Next]_vars

-----------------------------------------------------------------------------
(* Properties *)

TypeOK ==
  /\ payload \in Payload \cup {Nothing} /\ changed \in BOOLEAN
  /\ wpc \in {"snapshot", "ensure", "connect", "write", "send", "wait", "waiting"}
  /\ data \in Payload \cup {Nothing}
  /\ waitLeft \in 0..Heartbeat /\ busy \in Nat
  /\ connected \in BOOLEAN
  /\ retryIn \in 0..MaxBackoff /\ backoff \in InitialBackoff..MaxBackoff
  /\ lastPayload \in Payload \cup {Nothing} /\ sinceSend \in 0..(2 * Heartbeat)
  /\ peerUp \in BOOLEAN /\ conn \in {"none", "alive", "dead", "reset"}
  /\ got \in Payload \cup {Nothing} /\ silence \in 0..(2 * Heartbeat + SendTimeout)
  /\ torn \in BOOLEAN /\ upFor \in 0..(RecoveryBound + 1)

\* A frame is in order as far as our end knows.
Working == connected /\ conn = "alive"

\* "This should never be longer than a second" (middleware_timing.hpp:40): while
\* a connection works, the peer waits less than two heartbeats for a frame,
\* although an unchanged payload may be suppressed when the thread wakes early.
HeartbeatIsKept ==
  Working /\ lastPayload # Nothing /\ wpc # "send" => silence < 2 * Heartbeat

\* What a working connection carried last is the current payload whenever the
\* sender rests; only a fresh connection may have carried nothing yet.
PeerIsCurrent ==
  Working /\ wpc = "waiting" /\ ~changed => got \in {payload, Nothing}

\* No frame ever follows the beginning of another one on a connection: a send
\* that fails within a frame ends its connection.
NothingAfterTorn ==
  torn => ~connected

\* Once the peer stays reachable it has a working connection again in time.
RecoversInTime ==
  peerUp /\ payload # Nothing /\ upFor > RecoveryBound => Working
=============================================================================
