----------------------------- MODULE LoraRadio ------------------------------
(***************************************************************************)
(* UartE5Interface and UartFeatherInterface: the dialogue over a serial    *)
(* line with a LoRa module that receives packets meanwhile.  Commands,     *)
(* answers and packets share the line.  The E5 module listens only when it *)
(* is told to, and its packets are two lines, signal and payload; the      *)
(* Feather listens whenever it does not transmit, and a packet is a line.  *)
(*                                                                         *)
(* The reader thread calls read_data again and again, main calls           *)
(* write_data, and io_mutex_ keeps the calls apart: task is the one in     *)
(* progress.  A line arrives whole: half a line waits in the buffer for    *)
(* the other half, and what would clear the first half takes the second    *)
(* for garbage.  The module is external.  It does what it is told in       *)
(* order, sooner or later than the timeout, or answers ERROR, or not.      *)
(***************************************************************************)
EXTENDS Naturals, Sequences, SequencesExt

CONSTANTS
  MaxHeard,    \* bound: packets the module receives
  MaxTrouble,  \* bound: commands that are refused, not heard, or answered late
  Nobody       \* no command, no packet

ASSUME LoraAssumption == MaxHeard \in Nat /\ MaxTrouble \in Nat

VARIABLES
  device,      \* which of the two
  receiving,   \* the module: whether it listens,
  asked,       \*   the commands it has still to answer,
  heard,       \*   how many packets it has received, numbered from 1,
  trouble,     \*   and how often it has failed
  line,        \* from the module to the serial port, in lines
  task,        \* "setup", "free", "read", "write" or "failed"
  waiting,     \* the command at_send_command waits for
  step,        \* position in at_setup
  modem,       \* current_modem_state_
  buffer,      \* response_buffer_ of the E5
  packets,     \* rx_packets_ of the Feather
  read,        \* history: what read_data has returned
  refused,     \* history: an order to listen was not obeyed, since the last write
  undisturbed  \* history: no command since the last packet was received

module == <<receiving, asked, heard, trouble, refused>>
loraVars == <<device, module, line, task, waiting, step, modem, buffer, packets,
              read, undisturbed>>

Setup == [UART_E5      |-> <<"AT", "MODE", "RFCFG", "RXLRPKT">>,
          UART_FEATHER |-> <<"AT", "AT", "AT", "BLINK", "VER", "FREQ", "SF", "BW",
                             "PREAMBLE", "POWER", "CRC", "IQ", "NET">>]
Transmit == "TXLRPKT"    \* AT+TEST=TXLRPKT or AT+SENDX
Listen   == "RXLRPKT"

\* The E5 answers a command with its name, the Feather with OK.
Answer(command) == IF device = "UART_E5" THEN command ELSE "OK"
Said(what) == [type |-> "answer", what |-> what]
Received(n) == IF device = "UART_E5"
               THEN <<[type |-> "signal", n |-> n], [type |-> "payload", n |-> n]>>
               ELSE <<[type |-> "payload", n |-> n]>>

-----------------------------------------------------------------------------
(* The module (external) *)

\* A packet arrives while the module listens.
Hear ==
  /\ receiving /\ heard < MaxHeard
  /\ heard' = heard + 1
  /\ line' = line \o Received(heard + 1)
  /\ undisturbed' = (asked = <<>> /\ waiting = Nobody)
  /\ UNCHANGED <<device, receiving, asked, trouble, refused, task, waiting, step, modem,
                 buffer, packets, read>>

\* A transmission begins: half-duplex.
BeginTransmission ==
  /\ asked # <<>> /\ Head(asked) = Transmit
  /\ receiving
  /\ receiving' = FALSE
  /\ UNCHANGED <<device, asked, heard, trouble, refused, line, task, waiting, step, modem,
                 buffer, packets, read, undisturbed>>

\* A command is done.  The E5 stays deaf after a transmission.
Obey ==
  /\ asked # <<>>
  /\ Head(asked) = Transmit => ~receiving
  /\ receiving' = (device = "UART_FEATHER" \/ Head(asked) = Listen)
  /\ refused' = (refused /\ Head(asked) # Listen)
  /\ line' = Append(line, Said(Answer(Head(asked))))
  /\ asked' = Tail(asked)
  /\ UNCHANGED <<device, heard, trouble, task, waiting, step, modem, buffer, packets,
                 read, undisturbed>>

\* ERROR, or nothing at all, and nothing done.
Refuse ==
  /\ asked # <<>> /\ trouble < MaxTrouble
  /\ trouble' = trouble + 1
  /\ line' \in {line, Append(line, Said("ERROR"))}
  /\ receiving' = (receiving \/ device = "UART_FEATHER")
  /\ refused' = (refused \/ Head(asked) = Listen)
  /\ asked' = Tail(asked)
  /\ UNCHANGED <<device, heard, task, waiting, step, modem, buffer, packets, read,
                 undisturbed>>

Module == Hear \/ BeginTransmission \/ Obey \/ Refuse

-----------------------------------------------------------------------------
(* at_send_command *)

\* MUTANT: the modem state is recorded when listening begins, and no more.
SendKeepsState(command) ==
  /\ asked' = Append(asked, command)
  /\ waiting' = command
  /\ modem' = IF command = Listen THEN "RXLRPKT" ELSE modem
  /\ buffer' = <<>>
  /\ undisturbed' = FALSE

\* The state is recorded and the buffer cleared before the command is written.
Send(command) ==
  /\ asked' = Append(asked, command)
  /\ waiting' = command
  /\ modem' = IF device = "UART_E5" /\ command = Listen THEN "RXLRPKT" ELSE "NOT_CONTINUOUS"
  /\ buffer' = <<>>
  /\ undisturbed' = FALSE

\* What a poll of the port takes from the line.
Arrivals == {SubSeq(line, 1, n) : n \in 1..Len(line)}
Take(lines) == line' = SubSeq(line, Len(lines) + 1, Len(line))

IsPayload(l) == l.type = "payload"
IsSignal(l) == l.type = "signal"

\* The packets among some lines: after each line those that have come so far.
Numbers(lines) ==
  LET upTo[i \in 0..Len(lines)] ==
        IF i = 0 THEN <<>>
        ELSE IF IsPayload(lines[i]) THEN Append(upTo[i - 1], lines[i].n) ELSE upTo[i - 1]
  IN  upTo[Len(lines)]

\* MUTANT: packets are taken while no command waits for its answer.
KeepWhenIdle(lines) ==
  packets' = IF waiting = Nobody THEN packets \o Numbers(lines) ELSE packets

\* poll_lines of the Feather sorts out the packets, wherever they come.
Keep(lines) == packets' = packets \o Numbers(lines)

\* The command in progress has ended: the next of at_setup, the end of
\* write_data, or read_data goes on without looking at the result.
End(succeeds) ==
  /\ waiting' = Nobody
  /\ \/ task = "read" /\ UNCHANGED <<task, step>>
     \/ task = "write" /\ task' = "free" /\ UNCHANGED step
     \/ /\ task = "setup" /\ device = "UART_E5"
        /\ step' = IF step = 1 /\ ~succeeds THEN 1 ELSE step + 1
        /\ task' = IF step' > Len(Setup[device]) THEN "free" ELSE "setup"
     \/ /\ task = "setup" /\ device = "UART_FEATHER" /\ (succeeds \/ step # 3)
        /\ step' = IF step < 3 /\ succeeds THEN 4 ELSE step + 1
        /\ task' = IF step' > Len(Setup[device]) THEN "free" ELSE "setup"
     \/ /\ task = "setup" /\ device = "UART_FEATHER" /\ ~succeeds /\ step = 3
        /\ task' = "failed" /\ UNCHANGED step

\* The E5 looks for the answer anywhere in its buffer and drops what comes
\* before it, packets included, and everything on an ERROR.
PollE5 ==
  /\ device = "UART_E5" /\ waiting # Nobody
  /\ \E lines \in Arrivals :
      LET all == buffer \o lines
          answer == Said(Answer(waiting))
          error == Said("ERROR")
      IN  /\ Take(lines)
          /\ \/ /\ Contains(all, answer)
                /\ buffer' = SubSeq(all, SelectInSeq(all, LAMBDA l : l = answer) + 1, Len(all))
                /\ End(TRUE)
             \/ /\ ~Contains(all, answer) /\ Contains(all, error)
                /\ buffer' = <<>>
                /\ End(FALSE)
             \/ /\ ~Contains(all, answer) /\ ~Contains(all, error)
                /\ buffer' = all
                /\ UNCHANGED <<task, waiting, step>>
  /\ UNCHANGED <<device, module, modem, packets, read, undisturbed>>

\* The first OK or ERROR ends a command of the Feather; the lines of the poll
\* after it are forgotten.
PollFeather ==
  /\ device = "UART_FEATHER" /\ waiting # Nobody
  /\ \E lines \in Arrivals :
      LET answers == SelectSeq(lines, LAMBDA l : l.type = "answer")
      IN  /\ Take(lines)
          /\ Keep(lines)
          /\ \/ answers = <<>> /\ UNCHANGED <<task, waiting, step>>
             \/ answers # <<>> /\ End(answers[1].what = "OK")
  /\ UNCHANGED <<device, module, modem, buffer, read, undisturbed>>

\* The answer does not come in time, because it never comes, or late.
Timeout ==
  /\ waiting # Nobody
  /\ \/ asked = <<>> /\ line = <<>> /\ UNCHANGED trouble
     \/ asked # <<>> /\ trouble < MaxTrouble /\ trouble' = trouble + 1
  /\ buffer' = <<>>
  /\ End(FALSE)
  /\ UNCHANGED <<device, receiving, asked, heard, refused, line, modem, packets, read,
                 undisturbed>>

SetUp ==
  /\ task = "setup" /\ waiting = Nobody
  /\ Send(Setup[device][step])
  /\ UNCHANGED <<device, receiving, heard, trouble, refused, line, task, step, packets,
                 read>>

-----------------------------------------------------------------------------
(* read_data and write_data *)

\* read_data of the E5 first tells the module to listen, if it does not know
\* that the module does.
StartRead ==
  /\ task = "free"
  /\ task' = "read"
  /\ \/ device = "UART_E5" /\ modem # "RXLRPKT" /\ Send(Listen)
     \/ /\ device = "UART_FEATHER" \/ modem = "RXLRPKT"
        /\ UNCHANGED <<asked, waiting, modem, buffer, undisturbed>>
  /\ UNCHANGED <<device, receiving, heard, trouble, refused, line, step, packets, read>>

\* The last payload of a read and the last signal line before it; with none
\* in this read, the signal is 0.
Parse(lines) ==
  LET payload == SelectLastInSeq(lines, IsPayload)
      signal  == SelectLastInSubSeq(lines, 1, payload, IsSignal)
  IN  [n |-> lines[payload].n, signal |-> IF signal = 0 THEN 0 ELSE lines[signal].n]

\* The rest of read_data of the E5: all that has arrived is parsed.
ReadE5 ==
  /\ device = "UART_E5" /\ task = "read" /\ waiting = Nobody
  /\ \E lines \in IF line = <<>> THEN {<<>>} ELSE Arrivals :
      LET all == buffer \o lines
      IN  /\ Take(lines)
          /\ read' = IF \E i \in DOMAIN all : IsPayload(all[i])
                     THEN Append(read, Parse(all)) ELSE read
  /\ buffer' = <<>>
  /\ task' = "free"
  /\ UNCHANGED <<device, module, waiting, step, modem, packets, undisturbed>>

\* read_data of the Feather: poll, and return the oldest packet.
ReadFeather ==
  /\ device = "UART_FEATHER" /\ task = "read"
  /\ \E lines \in IF line = <<>> THEN {<<>>} ELSE Arrivals :
      LET all == packets \o Numbers(lines)
      IN  /\ Take(lines)
          /\ \/ all = <<>> /\ UNCHANGED <<packets, read>>
             \/ /\ all # <<>>
                /\ read' = Append(read, [n |-> Head(all), signal |-> Head(all)])
                /\ packets' = Tail(all)
  /\ task' = "free"
  /\ UNCHANGED <<device, module, waiting, step, modem, buffer, undisturbed>>

\* write_data; main does not look at what it returns.
StartWrite ==
  /\ task = "free"
  /\ task' = "write"
  /\ Send(Transmit)
  /\ refused' = FALSE
  /\ UNCHANGED <<device, receiving, heard, trouble, line, step, packets, read>>

-----------------------------------------------------------------------------
LoraInit ==
  /\ device \in {"UART_E5", "UART_FEATHER"}
  /\ receiving = (device = "UART_FEATHER")
  /\ asked = <<>> /\ heard = 0 /\ trouble = 0 /\ line = <<>>
  /\ task = "setup" /\ waiting = Nobody /\ step = 1
  /\ modem = "NOT_CONTINUOUS" /\ buffer = <<>> /\ packets = <<>>
  /\ read = <<>> /\ refused = FALSE /\ undisturbed = FALSE

\* at_setup of the Feather has thrown: there is no interface.
Failed == task = "failed" /\ UNCHANGED loraVars

Poll == PollE5 \/ PollFeather
Read == ReadE5 \/ ReadFeather
LoraNext == Module \/ SetUp \/ Poll \/ Timeout \/ StartRead \/ Read \/ StartWrite \/ Failed

LoraSpec == LoraInit /\ [][LoraNext]_loraVars

-----------------------------------------------------------------------------
(* Properties *)

LoraTypes ==
  /\ asked \in Seq({"AT", "MODE", "RFCFG", Listen, Transmit}
                   \cup ToSet(Setup["UART_FEATHER"]))
  /\ modem \in {"RXLRPKT", "NOT_CONTINUOUS"}
  /\ step \in 1..Len(Setup[device]) + 1
  /\ device = "UART_E5" => packets = <<>>
  /\ device = "UART_FEATHER" => buffer = <<>>

\* What read_data returns was received, in this order and once, with the signal
\* strength of its own packet or none, never that of another.  The Feather loses
\* nothing, whatever commands run in between ("which can interleave with
\* command responses", uart_feather_interface.hpp:18).  The E5 loses packets that meet a
\* command, and the older ones of a read, but of packets nobody disturbs it
\* returns the newest.
ReadsWhatItHeard ==
  /\ LoraTypes
  /\ \A i, j \in DOMAIN read : i < j => read[i].n < read[j].n
  /\ \A i \in DOMAIN read : read[i].signal \in {0, read[i].n}
  /\ device = "UART_FEATHER" =>
       [i \in DOMAIN read |-> read[i].n] \o packets \o Numbers(line) = [n \in 1..heard |-> n]
  /\ (device = "UART_E5" /\ undisturbed /\ line = <<>> /\ task = "free") =>
       Last(read).n = heard

\* While read_data waits for packets, the module listens or is about to, unless
\* it has refused to since the last transmission: the command that
\* at_send_command skips never leaves the E5 deaf otherwise, whatever answers come
\* late or are taken for others', and a transmission ends a refusal.
ListensUnlessRefused ==
  (task = "read" /\ waiting = Nobody) =>
    \/ receiving \/ refused
    \/ asked # <<>> /\ (device = "UART_E5" => Last(asked) = Listen)
=============================================================================
