------------------------------- MODULE Transports -------------------------------
(***************************************************************************)
(* The two transports behind PolicyTransport, with their threads and the   *)
(* server they talk to: hw/policy/openpi_websocket_transport.cpp, one      *)
(* worker that sends a request and waits for its reply, and                *)
(* hw/policy/lerobot_grpc_transport.cpp, one thread that streams           *)
(* observations and one that polls for actions.  What they have in common, *)
(* the one-deep boxes and their thread's loop, is one definition.  A third *)
(* kind, the fake, is the contract and nothing more.                       *)
(*                                                                         *)
(* An observation is its number.  The server is external: it answers what  *)
(* it was asked, in order, well or badly, late or never.                   *)
(***************************************************************************)
EXTENDS ChunkSlot, Sequences

VARIABLES
  kind,       \* the transport the registry built
  connected,  \* connected_
  sending,    \* worker_running_ / sender_running_
  receiving,  \* receiver_running_
  box,        \* pending_obs_, or 0
  ready,      \* ready_chunk_
  sender,     \* where the worker / sender stands, with which observation
  receiver,   \* where the receiver stands
  cancelled,  \* the RPC contexts close() has cancelled
  gone,       \* reply_closed_: the socket was closed
  asked,      \* the server: requests it has not answered
  reply,      \* reply_bin_: a reply the worker has not seen
  closing,    \* where close() stands
  floor       \* history: the newest observation answered, or pushed before connect()

transport == <<kind, connected, sending, receiving, box, ready, sender, receiver,
               cancelled, gone, asked, reply, closing, floor>>

Fake == kind = "fake"
Openpi == kind = "openpi"
Lerobot == kind = "lerobot"

SenderPlaces == {"off", "idle", "pack", "publish", "rpc", "wait"}
ReceiverPlaces == {"off", "enter", "publish", "rpc"}

TransportInit ==
  /\ kind \in {"fake", "openpi", "lerobot"}
  /\ connected = FALSE /\ sending = FALSE /\ receiving = FALSE
  /\ box = 0 /\ ready = NoChunk
  /\ sender = [at |-> "off", obs |-> 0] /\ receiver = "off"
  /\ cancelled = {} /\ gone = TRUE
  /\ asked = <<>> /\ reply = NoChunk
  /\ closing = "no" /\ floor = 0
-----------------------------------------------------------------------------
(* connect(), after a close(): the handshake passed.  Fresh boxes, then the
   threads. *)
Connect(pushed) ==
  /\ ~connected /\ sender.at = "off" /\ receiver = "off"
  /\ connected' = TRUE
  /\ box' = 0 /\ ready' = NoChunk /\ reply' = NoChunk
  /\ gone' = FALSE /\ cancelled' = {} /\ asked' = <<>>
  /\ sending' = ~Fake /\ receiving' = Lerobot
  /\ sender' = [at |-> IF Fake THEN "off" ELSE "idle", obs |-> 0]
  /\ receiver' = IF Lerobot THEN "enter" ELSE "off"
  /\ floor' = pushed
  /\ UNCHANGED <<kind, closing>>

(* push_observation: latest wins; dropped while unhealthy. *)
Push(o) ==
  /\ box' = IF connected /\ ~Fake THEN o ELSE box
  /\ UNCHANGED <<kind, connected, sending, receiving, ready, sender, receiver, cancelled,
                 gone, asked, reply, closing, floor>>

(* Faulty variant: a chunk is handed out after the connection is lost. *)
PollTakesUnchecked ==
  /\ ready # NoChunk
  /\ ready' = NoChunk
  /\ UNCHANGED <<kind, connected, sending, receiving, box, sender, receiver, cancelled,
                 gone, asked, reply, closing, floor>>

(* try_poll_chunk, when there is something to take. *)
PollTakes ==
  /\ connected /\ ready # NoChunk
  /\ ready' = NoChunk
  /\ UNCHANGED <<kind, connected, sending, receiving, box, sender, receiver, cancelled,
                 gone, asked, reply, closing, floor>>
-----------------------------------------------------------------------------
(* The thread that takes observations out of the box. *)

SenderTakes ==
  /\ sender.at = "idle"
  /\ \/ ~sending /\ sender' = [at |-> "off", obs |-> 0] /\ UNCHANGED box
     \/ sending /\ box # 0 /\ sender' = [at |-> "pack", obs |-> box] /\ box' = 0
  /\ UNCHANGED <<kind, connected, sending, receiving, ready, receiver, cancelled, gone,
                 asked, reply, closing, floor>>

SenderDone == sender' = [at |-> "idle", obs |-> 0]

(* Packing or encoding failed: the connection is still good. *)
PackFails ==
  /\ sender.at = "pack"
  /\ SenderDone
  /\ UNCHANGED <<kind, connected, sending, receiving, box, ready, receiver, cancelled,
                 gone, asked, reply, closing, floor>>

(* Publish a chunk in the ready box: the newest wins. *)
Publish(c) ==
  /\ ready' = c
  /\ floor' = c.answers
-----------------------------------------------------------------------------
(* openpi: round_trip_ and decode_reply_ on the worker. *)

(* The request goes out on an open socket; a failed send ends the connection.  The look at
   the socket's pointer (541) and its use (552) are one step: that close() resets the pointer
   (387) before it joins, with the worker between the two, is not told apart. *)
OpenpiSend ==
  /\ Openpi /\ sender.at = "pack"
  /\ \/ /\ connected /\ ~gone
        /\ sender' = [sender EXCEPT !.at = "wait"]
        /\ reply' = NoChunk
        /\ asked' = Append(asked, sender.obs)
        /\ UNCHANGED connected
     \/ SenderDone /\ connected' = FALSE /\ UNCHANGED <<reply, asked>>
  /\ UNCHANGED <<kind, sending, receiving, box, ready, receiver, cancelled, gone, closing, floor>>

(* External: the server answers the oldest request. *)
OpenpiServerAnswers ==
  /\ Openpi /\ asked # <<>> /\ ~gone
  /\ asked' = Tail(asked)
  /\ reply' = [stamped |-> 0, answers |-> Head(asked), at |-> 0]
  /\ UNCHANGED <<kind, connected, sending, receiving, box, ready, sender, receiver,
                 cancelled, gone, closing, floor>>

(* A reply that decodes is a chunk, stamped with the tick of the observation in
   hand.  One that does not is a failure, and one that is an error text ends the
   connection. *)
OpenpiReceives(now) ==
  /\ Openpi /\ sender.at = "wait" /\ reply # NoChunk
  /\ SenderDone
  /\ reply' = NoChunk
  /\ \/ Publish([reply EXCEPT !.stamped = sender.obs, !.at = now]) /\ UNCHANGED connected
     \/ UNCHANGED <<ready, floor, connected>>
     \/ connected' = FALSE /\ UNCHANGED <<ready, floor>>
  /\ UNCHANGED <<kind, sending, receiving, box, receiver, cancelled, gone, asked, closing>>

(* Faulty variant: a timeout is a failure like any other. *)
OpenpiGivesUpButLives ==
  /\ Openpi /\ sender.at = "wait" /\ reply = NoChunk
  /\ SenderDone
  /\ UNCHANGED <<kind, connected, sending, receiving, box, ready, receiver, cancelled, gone,
                 asked, reply, closing, floor>>

(* No reply within request_timeout_, or the socket was closed: die on disconnect. *)
OpenpiGivesUp ==
  /\ Openpi /\ sender.at = "wait" /\ reply = NoChunk
  /\ SenderDone
  /\ connected' = FALSE
  /\ UNCHANGED <<kind, sending, receiving, box, ready, receiver, cancelled, gone, asked,
                 reply, closing, floor>>

(* on_message_ with Close or Error, on the socket's own thread. *)
OpenpiLosesSocket ==
  /\ Openpi /\ ~gone
  /\ gone' = TRUE
  /\ connected' = FALSE
  /\ asked' = <<>>
  /\ UNCHANGED <<kind, sending, receiving, box, ready, sender, receiver, cancelled, reply,
                 closing, floor>>
-----------------------------------------------------------------------------
(* lerobot: send_observation_bytes_ on the sender. *)

(* The encoded observation's RPC context is published for close() to cancel. *)
LerobotPublishes ==
  /\ Lerobot /\ sender.at = "pack"
  /\ sender' = [sender EXCEPT !.at = "publish"]
  /\ cancelled' = cancelled \ {"send"}
  /\ UNCHANGED <<kind, connected, sending, receiving, box, ready, receiver, gone, asked,
                 reply, closing, floor>>

(* Faulty variant: without the second look at sender_running_. *)
LerobotRechecksNothing ==
  /\ Lerobot /\ sender.at = "publish"
  /\ sender' = [sender EXCEPT !.at = "rpc"]
  /\ UNCHANGED <<kind, connected, sending, receiving, box, ready, receiver, cancelled, gone,
                 asked, reply, closing, floor>>

(* A cancel that came before the context was published is made good here. *)
LerobotRechecks ==
  /\ Lerobot /\ sender.at = "publish"
  /\ IF sending THEN sender' = [sender EXCEPT !.at = "rpc"] ELSE SenderDone
  /\ UNCHANGED <<kind, connected, sending, receiving, box, ready, receiver, cancelled, gone,
                 asked, reply, closing, floor>>

(* The stream ends: the server has the observation, in place of one it has not
   looked at, or the RPC failed.  Neither changes connected_. *)
LerobotSent ==
  /\ Lerobot /\ sender.at = "rpc"
  /\ SenderDone
  /\ \/ "send" \notin cancelled /\ asked' = <<sender.obs>>
     \/ UNCHANGED asked
  /\ UNCHANGED <<kind, connected, sending, receiving, box, ready, receiver, cancelled, gone,
                 reply, closing, floor>>
-----------------------------------------------------------------------------
(* lerobot: receive_loop_. *)

(* Inside the loop, the context of the next RPC is published. *)
ReceiverPublishes ==
  /\ Lerobot /\ receiver = "enter"
  /\ receiver' = "publish"
  /\ cancelled' = cancelled \ {"get"}
  /\ UNCHANGED <<kind, connected, sending, receiving, box, ready, sender, gone, asked,
                 reply, closing, floor>>

ReceiverRechecks ==
  /\ Lerobot /\ receiver = "publish"
  /\ receiver' = IF receiving THEN "rpc" ELSE "off"
  /\ UNCHANGED <<kind, connected, sending, receiving, box, ready, sender, cancelled, gone,
                 asked, reply, closing, floor>>

(* GetActions returns: a chunk, which carries the tick the server scheduled; one
   that does not decode, nothing yet, an error; or the end, told by close(). *)
ReceiverGets(now) ==
  /\ Lerobot /\ receiver = "rpc"
  /\ receiver' = IF receiving THEN "enter" ELSE "off"
  /\ \/ /\ receiving /\ asked # <<>> /\ "get" \notin cancelled
        /\ asked' = <<>>
        /\ \/ Publish([stamped |-> asked[1], answers |-> asked[1], at |-> now])
           \/ UNCHANGED <<ready, floor>>
     \/ UNCHANGED <<asked, ready, floor>>
  /\ UNCHANGED <<kind, connected, sending, receiving, box, sender, cancelled, gone, reply, closing>>
-----------------------------------------------------------------------------
(* close(), on the owner's thread. *)

CloseFlags ==
  /\ closing = "no"
  /\ closing' = "flags"
  /\ connected' = FALSE /\ sending' = FALSE /\ receiving' = FALSE
  /\ UNCHANGED <<kind, box, ready, sender, receiver, cancelled, gone, asked, reply, floor>>

(* The socket is stopped, or the RPCs in flight are cancelled. *)
Published(place) == place \in {"publish", "rpc"}
CloseUnblocks ==
  /\ closing = "flags"
  /\ closing' = "join"
  /\ IF Openpi
       THEN gone' = TRUE /\ asked' = <<>> /\ UNCHANGED cancelled
       ELSE /\ cancelled' = cancelled \cup {c \in {"send"} : Published(sender.at)}
                                      \cup {c \in {"get"} : Published(receiver)}
            /\ UNCHANGED <<gone, asked>>
  /\ UNCHANGED <<kind, connected, sending, receiving, box, ready, sender, receiver, reply, floor>>

CloseJoins ==
  /\ closing = "join"
  /\ sender.at = "off" /\ receiver = "off"
  /\ closing' = "no"
  /\ UNCHANGED <<kind, connected, sending, receiving, box, ready, sender, receiver,
                 cancelled, gone, asked, reply, floor>>
-----------------------------------------------------------------------------
SenderStep(now) ==
  \/ SenderTakes \/ PackFails
  \/ OpenpiSend \/ OpenpiReceives(now) \/ OpenpiGivesUp
  \/ LerobotPublishes \/ LerobotRechecks \/ LerobotSent

ReceiverStep(now) == ReceiverPublishes \/ ReceiverRechecks \/ ReceiverGets(now)

(* External: no particular transport, but the most that the contract allows: an answer to
   an observation newer than the last one answered, or the end of the connection. *)
FakeAnswers(pushed, now) ==
  /\ Fake /\ connected
  /\ \/ \E o \in floor + 1 .. pushed :
          Publish([stamped |-> o, answers |-> o, at |-> now]) /\ UNCHANGED connected
     \/ connected' = FALSE /\ UNCHANGED <<ready, floor>>
  /\ UNCHANGED <<kind, sending, receiving, box, sender, receiver, cancelled, gone, asked,
                 reply, closing>>

Server(pushed, now) == OpenpiServerAnswers \/ OpenpiLosesSocket \/ FakeAnswers(pushed, now)
=============================================================================
