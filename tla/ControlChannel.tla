--------------------------- MODULE ControlChannel ---------------------------
(* The uplink of mode commands over a reliable, ordered DataChannel of one    *)
(* peer connection: the receive callback with its bounded queue, the runner   *)
(* that carries commands out in order, the sender of responses, and the close *)
(* of the connection, which waits for both.  A command that finds the queue   *)
(* full is answered as unavailable at once, ahead of older results; a full    *)
(* response buffer ends the channel.                                          *)
(*                                                                            *)
(* Left out: the JSON of a message (whether it is a valid command is a free   *)
(* choice), the codes of the errors, and the mode switch behind the handler,  *)
(* which ModeSwitch models: here it has an outcome.                           *)
EXTENDS Naturals, Sequences, SequencesExt, FiniteSets

CONSTANTS MaxRequests,  \* messages of the client, numbered as they arrive
          QueueRoom,    \* controlQueueCapacity
          ResponseRoom  \* controlResponseCapacity

ASSUME ControlAssumption ==
    /\ MaxRequests \in Nat
    /\ QueueRoom \in Nat \ {0} /\ ResponseRoom \in Nat \ {0}

NoRequest == 0

VARIABLES
    arrived,   \* messages the callback was given
    queue,     \* accepted messages
    runner,    \* run: [at, for]
    responses, \* answers that wait for the sender: [for, is]
    sender,    \* runSender: [at, response]
    sent,      \* answers written to the channel
    applied,   \* commands the mode coordinator carried out, in order
    cancelled, \* the receiver's context
    open,      \* the DataChannel
    closer     \* PionControlReceiver.Close: "none", "waiting", "returned", "gave_up"

controlVars == <<arrived, queue, runner, responses, sender, sent, applied,
                 cancelled, open, closer>>

Answer(r, is) == [for |-> r, is |-> is]
NoAnswer == Answer(NoRequest, "none")

ControlInit ==
    /\ arrived = 0 /\ queue = <<>> /\ responses = <<>> /\ sent = <<>> /\ applied = <<>>
    /\ runner = [at |-> "receive", for |-> NoRequest]
    /\ sender = [at |-> "receive", response |-> NoAnswer]
    /\ cancelled = FALSE /\ open = TRUE
    /\ closer = "none"

StopAndClose == cancelled' = TRUE /\ open' = FALSE

-----------------------------------------------------------------------------
(* onMessage.  A select with several ready cases takes any one of them, the   *)
(* default only when none is ready.                                           *)

QueueFull == Len(queue) >= QueueRoom
ResponsesFull == Len(responses) >= ResponseRoom

\* tryQueueResponse: the callback never blocks.
Overload(r) ==
    \/ /\ cancelled
       /\ UNCHANGED <<responses, cancelled, open>>
    \/ /\ ~ResponsesFull
       /\ responses' = Append(responses, Answer(r, "unavailable"))
       /\ UNCHANGED <<cancelled, open>>
    \/ /\ ~cancelled /\ ResponsesFull
       /\ StopAndClose
       /\ UNCHANGED responses

OnMessage ==
    LET r == arrived + 1 IN
    /\ open /\ arrived < MaxRequests
    /\ arrived' = r
    /\ \/ /\ cancelled
          /\ UNCHANGED <<queue, responses, cancelled, open>>
       \/ /\ ~QueueFull
          /\ queue' = Append(queue, r)
          /\ UNCHANGED <<responses, cancelled, open>>
       \/ /\ QueueFull /\ ~cancelled
          /\ Overload(r)
          /\ UNCHANGED queue
    /\ UNCHANGED <<runner, sender, sent, applied, closer>>

-----------------------------------------------------------------------------
(* run: one command at a time.                                                *)

WorkerReceives ==
    /\ runner.at = "receive" /\ queue # <<>>
    /\ runner' = [at |-> "handle", for |-> Head(queue)]
    /\ queue' = Tail(queue)
    /\ UNCHANGED <<arrived, responses, sender, sent, applied, cancelled, open, closer>>

\* handle and HandleModeSwitch: an invalid message, or one whose context has ended
\* by now, is answered by an error.
HandleMessage ==
    /\ runner.at = "handle"
    /\ \/ runner' = [runner EXCEPT !.at = "answer_error"]
       \/ ~cancelled /\ runner' = [runner EXCEPT !.at = "switch"]
    /\ UNCHANGED <<arrived, queue, responses, sender, sent, applied, cancelled, open, closer>>

\* The mode control applies the command or refuses it, whatever ends meanwhile.
Dispatch ==
    /\ runner.at = "switch"
    /\ \/ /\ runner' = [runner EXCEPT !.at = "answer_result"]
          /\ applied' = Append(applied, runner.for)
       \/ /\ runner' = [runner EXCEPT !.at = "answer_error"]
          /\ UNCHANGED applied
    /\ UNCHANGED <<arrived, queue, responses, sender, sent, cancelled, open, closer>>

Answering == {"answer_result", "answer_error"}
Response == Answer(runner.for, IF runner.at = "answer_result" THEN "result" ELSE "error")

\* Bug: a full response buffer drops the answer of a command.
WorkerAnswers_Drops ==
    /\ runner.at \in Answering
    /\ responses' = IF ResponsesFull THEN responses ELSE Append(responses, Response)
    /\ runner' = [at |-> "receive", for |-> NoRequest]
    /\ UNCHANGED <<arrived, queue, sender, sent, applied, cancelled, open, closer>>

\* The runner blocks while the buffer is full.
WorkerAnswers ==
    /\ runner.at \in Answering /\ ~ResponsesFull
    /\ responses' = Append(responses, Response)
    /\ runner' = [at |-> "receive", for |-> NoRequest]
    /\ UNCHANGED <<arrived, queue, sender, sent, applied, cancelled, open, closer>>

WorkerStops ==
    /\ cancelled /\ runner.at \in Answering \cup {"receive"}
    /\ runner' = [at |-> "done", for |-> NoRequest]
    /\ UNCHANGED <<arrived, queue, responses, sender, sent, applied, cancelled, open, closer>>

-----------------------------------------------------------------------------
(* runSender.                                                                 *)

SenderReceives ==
    /\ sender.at = "receive" /\ responses # <<>>
    /\ sender' = [at |-> "send", response |-> Head(responses)]
    /\ responses' = Tail(responses)
    /\ UNCHANGED <<arrived, queue, runner, sent, applied, cancelled, open, closer>>

Sends ==
    /\ sender.at = "send" /\ ~cancelled /\ open
    /\ sent' = Append(sent, sender.response)
    /\ sender' = [at |-> "receive", response |-> NoAnswer]
    /\ UNCHANGED <<arrived, queue, runner, responses, applied, cancelled, open, closer>>

\* SendText failed, the channel is closed, or the context is: the channel ends.
SendFails ==
    /\ sender.at = "send"
    /\ StopAndClose
    /\ sender' = [at |-> "done", response |-> NoAnswer]
    /\ UNCHANGED <<arrived, queue, runner, responses, sent, applied, closer>>

SenderStops ==
    /\ cancelled /\ sender.at = "receive"
    /\ sender' = [at |-> "done", response |-> NoAnswer]
    /\ UNCHANGED <<arrived, queue, runner, responses, sent, applied, cancelled, open, closer>>

-----------------------------------------------------------------------------
\* OnClose and OnError of the DataChannel.
ChannelEnds ==
    /\ open
    /\ StopAndClose
    /\ UNCHANGED <<arrived, queue, runner, responses, sender, sent, applied, closer>>

CloseReceiver ==
    /\ closer = "none" /\ closer' = "waiting"
    /\ StopAndClose
    /\ UNCHANGED <<arrived, queue, runner, responses, sender, sent, applied>>

ReceiverClosed ==
    /\ closer = "waiting"
    /\ \/ runner.at = "done" /\ sender.at = "done" /\ closer' = "returned"
       \/ closer' = "gave_up"   \* the caller's deadline
    /\ UNCHANGED <<arrived, queue, runner, responses, sender, sent, applied, cancelled, open>>

ControlNext ==
    \/ OnMessage
    \/ WorkerReceives
    \/ HandleMessage \/ Dispatch
    \/ WorkerAnswers \/ WorkerStops
    \/ SenderReceives \/ Sends \/ SendFails \/ SenderStops
    \/ ChannelEnds \/ CloseReceiver \/ ReceiverClosed

ControlSpec == ControlInit /\ [][ControlNext]_controlVars

-----------------------------------------------------------------------------
\* Written in the order they are written, and the messages behind them.
Written == sent \o (IF sender.at = "send" THEN <<sender.response>> ELSE <<>>) \o responses
InHand == IF runner.for = NoRequest THEN <<>> ELSE <<runner.for>>
Behind == InHand \o queue

Refused(is) == is = "unavailable"
Overloaded == {Written[i].for : i \in {j \in DOMAIN Written : Refused(Written[j].is)}}
Handled == {Written[i].for : i \in {j \in DOMAIN Written : ~Refused(Written[j].is)}}

Increasing(s) == \A i, j \in DOMAIN s : i < j => s[i] < s[j]
HandledInOrder ==
    \A i, j \in DOMAIN Written :
        i < j /\ ~Refused(Written[i].is) /\ ~Refused(Written[j].is) => Written[i].for < Written[j].for

\* While the channel lives every message the client sent is in the queue, in hand or
\* answered, once: accepted ones in the order of arrival, the others as unavailable.
Accounted ==
    ~cancelled => /\ HandledInOrder /\ Increasing(Behind)
                  /\ \A done \in Handled, r \in Range(Behind) : done < r
                  /\ Overloaded \cap (Handled \cup Range(Behind)) = {}
                  /\ Overloaded \cup Handled \cup Range(Behind) = 1..arrived
                  /\ Len(Written) + Len(Behind) = arrived

\* Commands are carried out in the order they arrived, each once, and none that was
\* answered as unavailable.
AppliedInOrder == Increasing(applied) /\ Range(applied) \cap Overloaded = {}

\* Close that returned leaves no command in hand.
ClosedIdle == closer = "returned" => runner.at = "done" /\ sender.at = "done"

\* What a client can conclude from the answers it gets, and fails to get, over
\* slow commands, a full queue, a full response buffer and a closing channel
\* (webrtc/control.go:119, 170).
RequestsAccounted == Accounted /\ AppliedInOrder /\ ClosedIdle
=============================================================================
