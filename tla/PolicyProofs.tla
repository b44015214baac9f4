------------------------------ MODULE PolicyProofs ------------------------------
(***************************************************************************)
(* The transports under the policy client, for any number of rows,         *)
(* requests, episodes, starts and ticks: no answer is mixed up, close()    *)
(* cuts off every call, and both transports and the fake keep the contract *)
(* of PolicyTransport.                                                     *)
(*                                                                         *)
(* All of it rests on an order: what was answered, then what the server    *)
(* still owes, then what the sender holds, then what waits in the box are  *)
(* observations of increasing age, and openpi's worker never waits with    *)
(* more than its own request outstanding.                                  *)
(***************************************************************************)
EXTENDS PolicyClient, TLAPS

Busy == sender.at \in {"pack", "publish", "rpc", "wait"}

(* Who can stand where. *)
Standing ==
  /\ kind \in {"fake", "openpi", "lerobot"}
  /\ connected \in BOOLEAN
  /\ sent \in Nat /\ floor \in Nat /\ box \in Nat
  /\ sender \in [at : SenderPlaces, obs : Nat] /\ receiver \in ReceiverPlaces
  /\ Fake => sender.at = "off" /\ receiver = "off" /\ box = 0
  /\ Openpi => sender.at \notin {"publish", "rpc"} /\ receiver = "off"
  /\ Lerobot => sender.at # "wait"

(* The observations from the box to the answered ones. *)
Ordered ==
  /\ floor <= sent
  /\ Busy => floor < sender.obs /\ sender.obs <= sent
  /\ box # 0 => floor < box /\ box <= sent
  /\ Busy /\ box # 0 => sender.obs < box

(* What the server of a lerobot connection owes. *)
Owed(o) ==
  /\ o \in Nat /\ asked = <<o>>
  /\ floor < o /\ o <= sent
  /\ Busy => o < sender.obs
  /\ box # 0 => o < box

(* What may come back. *)
Replies ==
  /\ Lerobot => asked = << >> \/ \E o \in Nat : Owed(o)
  /\ Openpi /\ connected /\ sender.at # "wait" => asked = << >>
  /\ Openpi /\ sender.at = "wait" =>
       /\ asked = << >> \/ (asked = <<sender.obs>> /\ reply = NoChunk)
       /\ reply = NoChunk \/ reply \in [stamped : Nat, answers : {sender.obs}, at : Nat]

Own(c) == c = NoChunk \/ (c.stamped = c.answers /\ c.answers \in Nat /\ c.answers > 0)
Owned == Own(ready) /\ Own(hand)

(* close() runs only while the program stops the client. *)
Closed ==
  /\ closing \in {"no", "flags", "join"}
  /\ closing # "no" => at = "stopping" /\ ~connected /\ ~sending /\ ~receiving

(* The inductive invariant. *)
Inv == Standing /\ Ordered /\ Replies /\ Owned /\ Closed /\ ClosePrompt

LEMMA Initially == PolicyInit => Inv
<1> SUFFICES ASSUME PolicyInit PROVE Inv
  OBVIOUS
<1> USE DEF PolicyInit, TransportInit
<1>1. sender.at = "off" /\ sender.obs = 0
  OBVIOUS
<1>2. Standing
  BY DEF Standing, Fake, Openpi, Lerobot, SenderPlaces, ReceiverPlaces
<1>3. Ordered /\ Replies /\ Closed /\ ClosePrompt
  BY <1>1 DEF Ordered, Replies, Closed, ClosePrompt, Busy
<1>4. Owned
  BY DEF Owned, Own
<1>. QED
  BY <1>2, <1>3, <1>4 DEF Inv

(* Most steps are none of the transport's business: the program moves, the slot is
   read, the inference thread drops or applies the chunk in its hand. *)
LEMMA ElsewhereStep ==
  ASSUME Inv, UNCHANGED <<transport, sent>>, hand' \in {hand, NoChunk},
         at' = at \/ at # "stopping" \/ closing = "no"
  PROVE  Inv'
<1>1. Standing' /\ Ordered' /\ Replies' /\ ClosePrompt'
  BY DEF Inv, transport, Standing, Ordered, Replies, Owed, Busy, ClosePrompt, Fake, Openpi, Lerobot
<1>2. Owned'
  BY DEF Inv, transport, Owned, Own
<1>3. Closed'
  BY DEF Inv, transport, Closed
<1>. QED
  BY <1>1, <1>2, <1>3 DEF Inv

(* A transport's thread or the server moves: the client does not. *)
LEMMA OpenpiStep ==
  ASSUME Inv, UNCHANGED <<sent, hand, at>>,
         OpenpiSend \/ OpenpiServerAnswers \/ OpenpiReceives(now) \/ OpenpiGivesUp \/ OpenpiLosesSocket
  PROVE  Inv'
<1>. USE DEF Inv
<1>1. CASE OpenpiSend
  <2>1. CASE connected /\ sender' = [sender EXCEPT !.at = "wait"] /\ reply' = NoChunk
             /\ asked' = Append(asked, sender.obs) /\ UNCHANGED connected
    <3>1. asked = << >> /\ sender.obs \in Nat /\ sender'.at = "wait" /\ sender'.obs = sender.obs
      BY <1>1, <2>1 DEF OpenpiSend, Standing, Replies
    <3>2. asked' = <<sender'.obs>>
      BY <2>1, <3>1
    <3>3. Standing'
      BY <1>1, <2>1, <3>1 DEF OpenpiSend, Standing, Fake, Openpi, Lerobot, SenderPlaces
    <3>4. Ordered'
      BY <1>1, <2>1, <3>1 DEF OpenpiSend, Ordered, Busy
    <3>5. Replies'
      BY <1>1, <2>1, <3>1, <3>2 DEF OpenpiSend, Replies, Openpi, Lerobot
    <3>6. Owned' /\ Closed' /\ ClosePrompt'
      BY <1>1, <2>1, <3>1 DEF OpenpiSend, Owned, Own, Closed, ClosePrompt
    <3>. QED
      BY <3>3, <3>4, <3>5, <3>6
  <2>2. CASE SenderDone /\ connected' = FALSE /\ UNCHANGED <<reply, asked>>
    <3>1. sender'.at = "idle" /\ sender'.obs = 0
      BY <2>2 DEF SenderDone
    <3>2. Standing'
      BY <1>1, <2>2 DEF SenderDone, OpenpiSend, Standing, Fake, Openpi, Lerobot, SenderPlaces
    <3>3. Ordered' /\ Replies' /\ Closed' /\ ClosePrompt'
      BY <1>1, <2>2, <3>1 DEF OpenpiSend, Ordered, Replies, Closed, ClosePrompt, Busy, Openpi, Lerobot
    <3>4. Owned'
      BY <1>1 DEF OpenpiSend, Owned, Own
    <3>. QED
      BY <3>2, <3>3, <3>4
  <2>. QED
    BY <1>1, <2>1, <2>2 DEF OpenpiSend
<1>2. CASE OpenpiServerAnswers
  <2>1. Standing' /\ Ordered' /\ Owned' /\ Closed' /\ ClosePrompt'
    BY <1>2 DEF OpenpiServerAnswers, Standing, Ordered, Owned, Own, Closed, ClosePrompt, Busy,
       Fake, Openpi, Lerobot
  <2>2. CASE sender.at = "wait"
    <3>1. asked = <<sender.obs>> /\ sender.obs \in Nat
      BY <1>2, <2>2 DEF OpenpiServerAnswers, Replies, Standing
    <3>2. Head(asked) = sender.obs /\ Tail(asked) = << >>
      BY <3>1
    <3>. QED
      BY <1>2, <2>1, <2>2, <3>1, <3>2 DEF OpenpiServerAnswers, Replies, Openpi, Lerobot
  <2>3. CASE sender.at # "wait"
    <3>1. asked' = << >> \/ ~connected
      BY <1>2, <2>3 DEF OpenpiServerAnswers, Replies
    <3>. QED
      BY <1>2, <2>1, <2>3, <3>1 DEF OpenpiServerAnswers, Replies, Openpi, Lerobot
  <2>. QED
    BY <2>2, <2>3
<1>3. CASE OpenpiReceives(now)
  <2>1. sender'.at = "idle" /\ sender'.obs = 0 /\ asked' = asked
    BY <1>3 DEF OpenpiReceives, SenderDone
  <2>2. asked = << >> /\ reply \in [stamped : Nat, answers : {sender.obs}, at : Nat]
    BY <1>3 DEF OpenpiReceives, Replies
  <2>3. sender.obs \in Nat /\ floor < sender.obs /\ sender.obs <= sent /\ (box # 0 => sender.obs < box)
    BY <1>3 DEF OpenpiReceives, Standing, Ordered, Busy
  <2>4. floor' \in {floor, sender.obs} /\ connected' \in {connected, FALSE}
    BY <1>3, <2>2 DEF OpenpiReceives, Publish
  <2>5. Standing'
    BY <1>3, <2>1, <2>3, <2>4 DEF OpenpiReceives, SenderDone, Standing, Fake, Openpi, Lerobot, SenderPlaces
  <2>6. Ordered'
    BY <1>3, <2>1, <2>3, <2>4 DEF OpenpiReceives, Ordered, Busy, Standing
  <2>7. Replies' /\ Closed' /\ ClosePrompt'
    BY <1>3, <2>1, <2>2, <2>4 DEF OpenpiReceives, Replies, Closed, ClosePrompt, Openpi, Lerobot
  <2>8. Owned'
    <3>1. CASE ready' = [reply EXCEPT !.stamped = sender.obs, !.at = now]
      <4>1. ready'.stamped = sender.obs /\ ready'.answers = sender.obs
        BY <2>2, <3>1
      <4>. QED
        BY <2>3, <4>1 DEF Owned, Own, Standing
    <3>2. CASE UNCHANGED ready
      BY <3>2 DEF Owned, Own
    <3>. QED
      BY <1>3, <3>1, <3>2 DEF OpenpiReceives, Publish
  <2>. QED
    BY <2>5, <2>6, <2>7, <2>8
<1>4. CASE OpenpiGivesUp
  <2>1. sender'.at = "idle" /\ sender'.obs = 0
    BY <1>4 DEF OpenpiGivesUp, SenderDone
  <2>2. Standing'
    BY <1>4 DEF OpenpiGivesUp, SenderDone, Standing, Fake, Openpi, Lerobot, SenderPlaces
  <2>3. Ordered' /\ Replies' /\ Owned' /\ Closed' /\ ClosePrompt'
    BY <1>4, <2>1 DEF OpenpiGivesUp, Ordered, Replies, Owned, Own, Closed, ClosePrompt, Busy, Openpi, Lerobot
  <2>. QED
    BY <2>2, <2>3
<1>5. CASE OpenpiLosesSocket
  BY <1>5 DEF OpenpiLosesSocket, Standing, Ordered, Replies, Owned, Own, Closed,
     ClosePrompt, Busy, Fake, Openpi, Lerobot
<1>. QED
  BY <1>1, <1>2, <1>3, <1>4, <1>5

LEMMA LerobotStep ==
  ASSUME Inv, UNCHANGED <<sent, hand, at>>,
         LerobotPublishes \/ LerobotRechecks \/ LerobotSent \/ ReceiverStep(now)
  PROVE  Inv'
<1>. USE DEF Inv
<1>1. CASE LerobotPublishes
  <2>1. sender.at = "pack" /\ sender'.at = "publish" /\ sender'.obs = sender.obs /\ Lerobot
    BY <1>1 DEF LerobotPublishes, Standing
  <2>2. Standing'
    BY <1>1, <2>1 DEF LerobotPublishes, Standing, Fake, Openpi, Lerobot, SenderPlaces
  <2>3. Ordered' /\ Replies'
    BY <1>1, <2>1 DEF LerobotPublishes, Ordered, Replies, Owed, Busy, Openpi, Lerobot
  <2>4. Owned' /\ Closed' /\ ClosePrompt'
    BY <1>1, <2>1 DEF LerobotPublishes, Owned, Own, Closed, ClosePrompt
  <2>. QED
    BY <2>2, <2>3, <2>4
<1>2. CASE LerobotRechecks
  <2>1. Lerobot /\ sender.at = "publish"
    BY <1>2 DEF LerobotRechecks
  <2>2. \/ sending /\ sender' = [sender EXCEPT !.at = "rpc"]
        \/ sender' = [at |-> "idle", obs |-> 0]
    BY <1>2 DEF LerobotRechecks, SenderDone
  <2>3. \/ sending /\ sender'.at = "rpc" /\ sender'.obs = sender.obs
        \/ sender'.at = "idle"
    BY <2>2 DEF Standing
  <2>4. Standing'
    BY <1>2, <2>2 DEF LerobotRechecks, Standing, Fake, Openpi, Lerobot, SenderPlaces
  <2>5. Ordered' /\ Replies'
    BY <1>2, <2>1, <2>3 DEF LerobotRechecks, Ordered, Replies, Owed, Busy, Openpi, Lerobot
  <2>6. Owned' /\ Closed' /\ ClosePrompt'
    BY <1>2, <2>1, <2>3 DEF LerobotRechecks, Owned, Own, Closed, ClosePrompt
  <2>. QED
    BY <2>4, <2>5, <2>6
<1>3. CASE LerobotSent
  <2>1. Lerobot /\ sender.at = "rpc" /\ sender'.at = "idle" /\ sender' = [at |-> "idle", obs |-> 0]
    BY <1>3 DEF LerobotSent, SenderDone
  <2>2. Standing'
    BY <1>3, <2>1 DEF LerobotSent, Standing, Fake, Openpi, Lerobot, SenderPlaces
  <2>3. Ordered' /\ Owned' /\ Closed' /\ ClosePrompt'
    BY <1>3, <2>1 DEF LerobotSent, Ordered, Owned, Own, Closed, ClosePrompt, Busy
  <2>4. CASE asked' = <<sender.obs>>
    <3>1. PICK o \in Nat : o = sender.obs /\ floor < o /\ o <= sent /\ (box # 0 => o < box)
      BY <2>1 DEF Standing, Ordered, Busy
    <3>2. Owed(o)'
      BY <1>3, <2>1, <2>4, <3>1 DEF LerobotSent, Owed, Busy
    <3>. QED
      BY <1>3, <2>1, <2>2, <2>3, <3>2 DEF LerobotSent, Replies, Openpi, Lerobot
  <2>5. CASE UNCHANGED asked
    BY <1>3, <2>1, <2>2, <2>3, <2>5 DEF LerobotSent, Replies, Owed, Busy, Openpi, Lerobot
  <2>. QED
    BY <1>3, <2>4, <2>5 DEF LerobotSent
<1>4. CASE ReceiverPublishes \/ ReceiverRechecks
  <2>1. Lerobot /\ UNCHANGED <<kind, connected, sending, receiving, box, ready, sender, asked, reply, gone, closing, floor>>
    BY <1>4 DEF ReceiverPublishes, ReceiverRechecks
  <2>2. receiver' \in {"publish", "rpc", "off"}
    BY <1>4 DEF ReceiverPublishes, ReceiverRechecks
  <2>3. Standing' /\ Ordered' /\ Replies' /\ Owned' /\ Closed'
    BY <2>1, <2>2 DEF Standing, Ordered, Replies, Owed, Busy, Owned, Own, Closed, Fake, Openpi, Lerobot, ReceiverPlaces
  <2>4. ClosePrompt'
    BY <1>4, <2>1 DEF ReceiverPublishes, ReceiverRechecks, ClosePrompt, Closed
  <2>. QED
    BY <2>3, <2>4
<1>5. CASE ReceiverGets(now)
  <2>1. Lerobot /\ receiver' \in {"enter", "off"} /\ UNCHANGED <<kind, connected, sending, receiving, box, sender, cancelled, reply, gone, closing>>
    BY <1>5 DEF ReceiverGets
  <2>2. CASE UNCHANGED <<ready, floor>> /\ asked' \in {asked, << >>}
    <3>1. Standing' /\ Ordered' /\ Owned' /\ Closed' /\ ClosePrompt'
      BY <2>1, <2>2 DEF Standing, Ordered, Busy, Owned, Own, Closed, ClosePrompt, Fake, Openpi, Lerobot, ReceiverPlaces
    <3>2. Replies'
      BY <2>1, <2>2 DEF Replies, Owed, Busy, Openpi, Lerobot
    <3>. QED
      BY <3>1, <3>2
  <2>3. CASE /\ asked # << >> /\ asked' = << >>
             /\ ready' = [stamped |-> asked[1], answers |-> asked[1], at |-> now]
             /\ floor' = asked[1]
    <3>1. PICK o \in Nat : Owed(o)
      BY <2>1, <2>3 DEF Replies
    <3>2. asked[1] = o /\ floor' = o /\ floor < o /\ o <= sent /\ (Busy => o < sender.obs) /\ (box # 0 => o < box)
      BY <2>3, <3>1 DEF Owed
    <3>3. ready'.stamped = o /\ ready'.answers = o
      BY <2>3, <3>2
    <3>4. Standing' /\ Ordered'
      BY <2>1, <3>2 DEF Standing, Ordered, Busy, Fake, Openpi, Lerobot, ReceiverPlaces
    <3>5. Owned'
      BY <3>2, <3>3 DEF Owned, Own, Standing
    <3>6. Replies' /\ Closed' /\ ClosePrompt'
      BY <2>1, <2>3 DEF Replies, Closed, ClosePrompt, Openpi, Lerobot
    <3>. QED
      BY <3>4, <3>5, <3>6
  <2>. QED
    BY <1>5, <2>2, <2>3 DEF ReceiverGets, Publish
<1>. QED
  BY <1>1, <1>2, <1>3, <1>4, <1>5 DEF ReceiverStep

(* What the kinds have in common. *)
LEMMA CommonStep ==
  ASSUME Inv, UNCHANGED <<sent, hand, at>>, SenderTakes \/ PackFails \/ FakeAnswers(sent, now)
  PROVE  Inv'
<1>. USE DEF Inv
<1>1. CASE SenderTakes
  <2>1. CASE ~sending /\ sender' = [at |-> "off", obs |-> 0] /\ UNCHANGED box
    <3>1. sender'.at = "off"
      BY <2>1
    <3>2. Standing'
      BY <1>1, <2>1 DEF SenderTakes, Standing, Fake, Openpi, Lerobot, SenderPlaces
    <3>. QED
      BY <1>1, <2>1, <3>1, <3>2 DEF SenderTakes, Ordered, Replies, Owed, Busy, Owned, Own, Closed, ClosePrompt, Openpi, Lerobot
  <2>2. CASE box # 0 /\ sender' = [at |-> "pack", obs |-> box] /\ box' = 0
    <3>1. sender'.at = "pack" /\ sender'.obs = box /\ sender.at = "idle"
      BY <1>1, <2>2 DEF SenderTakes
    <3>2. Standing'
      BY <1>1, <2>2 DEF SenderTakes, Standing, Fake, Openpi, Lerobot, SenderPlaces
    <3>3. Ordered'
      BY <1>1, <2>2, <3>1 DEF SenderTakes, Ordered, Busy, Standing
    <3>4. Replies'
      BY <1>1, <2>2, <3>1 DEF SenderTakes, Replies, Owed, Busy, Openpi, Lerobot
    <3>5. Owned' /\ Closed' /\ ClosePrompt'
      BY <1>1, <2>2, <3>1 DEF SenderTakes, Owned, Own, Closed, ClosePrompt
    <3>. QED
      BY <3>2, <3>3, <3>4, <3>5
  <2>. QED
    BY <1>1, <2>1, <2>2 DEF SenderTakes
<1>2. CASE PackFails
  <2>1. sender'.at = "idle"
    BY <1>2 DEF PackFails, SenderDone
  <2>2. Standing'
    BY <1>2 DEF PackFails, SenderDone, Standing, Fake, Openpi, Lerobot, SenderPlaces
  <2>. QED
    BY <1>2, <2>1, <2>2 DEF PackFails, Ordered, Replies, Owed, Busy, Owned, Own, Closed, ClosePrompt, Openpi, Lerobot
<1>3. CASE FakeAnswers(sent, now)
  <2>1. Fake /\ connected /\ connected' \in {connected, FALSE}
        /\ UNCHANGED <<kind, sending, receiving, box, sender, receiver, cancelled, gone, asked, reply, closing>>
    BY <1>3 DEF FakeAnswers
  <2>2. \/ UNCHANGED <<ready, floor>>
        \/ \E o \in floor + 1 .. sent : ready' = [stamped |-> o, answers |-> o, at |-> now] /\ floor' = o
    BY <1>3 DEF FakeAnswers, Publish
  <2>3. CASE UNCHANGED <<ready, floor>>
    BY <2>1, <2>3 DEF Standing, Ordered, Replies, Busy, Owned, Own, Closed, ClosePrompt, Fake, Openpi, Lerobot
  <2>4. ASSUME NEW o \in floor + 1 .. sent,
               ready' = [stamped |-> o, answers |-> o, at |-> now], floor' = o
        PROVE  Inv'
    <3>1. o \in Nat /\ floor < o /\ o <= sent /\ ready'.stamped = o /\ ready'.answers = o
      BY <2>4 DEF Standing
    <3>2. Standing' /\ Ordered'
      BY <2>1, <2>4, <3>1 DEF Standing, Ordered, Busy, Fake, Openpi, Lerobot
    <3>3. Owned'
      BY <3>1 DEF Owned, Own, Standing
    <3>4. Replies' /\ Closed' /\ ClosePrompt'
      BY <2>1 DEF Replies, Closed, ClosePrompt, Fake, Openpi, Lerobot
    <3>. QED
      BY <3>2, <3>3, <3>4
  <2>. QED
    BY <2>2, <2>3, <2>4
<1>. QED
  BY <1>1, <1>2, <1>3

LEMMA ThreadStep == Inv /\ InTransport => Inv'
<1>1. UNCHANGED clientVars => UNCHANGED <<sent, hand, at>>
  BY DEF clientVars, thread, requests, program
<1>. QED
  BY <1>1, OpenpiStep, LerobotStep, CommonStep DEF InTransport, SenderStep, Server

(* A pushed observation is the newest. *)
LEMMA PushStep ==
  ASSUME Inv, Push(sent + 1), sent' = sent + 1, UNCHANGED <<hand, at>>
  PROVE  Inv'
<1>. USE DEF Inv
<1>1. sent \in Nat /\ box' \in {box, sent + 1} /\ (Fake => box' = box)
  BY DEF Push, Standing
<1>2. Standing' /\ Ordered'
  BY <1>1 DEF Push, Standing, Ordered, Busy, Fake, Openpi, Lerobot
<1>3. Replies'
  <2>1. ASSUME NEW o \in Nat, Owed(o) PROVE Owed(o)'
    BY <1>1, <2>1 DEF Push, Owed, Busy
  <2>. QED
    BY <2>1 DEF Push, Replies, Openpi, Lerobot
<1>4. Owned' /\ Closed' /\ ClosePrompt'
  BY DEF Push, Owned, Own, Closed, ClosePrompt
<1>. QED
  BY <1>2, <1>3, <1>4

LEMMA PollStep ==
  ASSUME Inv, PollTakes, hand' = ready, UNCHANGED <<sent, at>>
  PROVE  Inv'
<1>. USE DEF Inv
<1>1. Owned'
  BY DEF PollTakes, Owned, Own
<1>. QED
  BY <1>1 DEF PollTakes, Standing, Ordered, Replies, Owed, Busy, Closed, ClosePrompt,
     Fake, Openpi, Lerobot

LEMMA ConnectStep ==
  ASSUME Inv, Connect(sent), at = "down", UNCHANGED <<sent, hand>>
  PROVE  Inv'
<1>. USE DEF Inv
<1>1. closing' = "no"
  BY DEF Connect, Closed
<1>2. sender'.at \in {"off", "idle"} /\ receiver' \in {"off", "enter"} /\ asked' = << >> /\ box' = 0
  BY DEF Connect
<1>3. Standing'
  BY DEF Connect, Standing, Fake, Openpi, Lerobot, SenderPlaces, ReceiverPlaces
<1>4. Ordered' /\ Replies' /\ Closed' /\ ClosePrompt'
  BY <1>1, <1>2 DEF Connect, Ordered, Replies, Closed, ClosePrompt, Busy, Standing
<1>5. Owned'
  BY DEF Connect, Owned, Own
<1>. QED
  BY <1>3, <1>4, <1>5

LEMMA ClosingStep ==
  ASSUME Inv, Closing
  PROVE  Inv'
<1>. USE DEF Inv
<1>0. UNCHANGED <<sent, hand>> /\ at = "stopping"
  BY DEF Closing, Program, requests
<1>1. CASE CloseFlags /\ UNCHANGED at
  BY <1>0, <1>1 DEF CloseFlags, Standing, Ordered, Replies, Owed, Busy, Owned, Own, Closed, ClosePrompt,
     Fake, Openpi, Lerobot
<1>2. CASE CloseUnblocks /\ UNCHANGED at
  <2>1. UNCHANGED <<kind, connected, sending, receiving, box, ready, sender, receiver, reply, floor>>
        /\ asked' \in {asked, << >>} /\ closing = "flags" /\ closing' = "join"
    BY <1>2 DEF CloseUnblocks
  <2>2. Standing' /\ Ordered' /\ Replies'
    BY <1>0, <2>1 DEF Standing, Ordered, Replies, Owed, Busy, Fake, Openpi, Lerobot
  <2>3. Owned' /\ Closed'
    BY <1>0, <1>2, <2>1 DEF Owned, Own, Closed
  <2>4. CASE Openpi
    BY <1>2, <2>1, <2>2, <2>3, <2>4 DEF CloseUnblocks, ClosePrompt, Standing
  <2>5. CASE ~Openpi
    <3>1. sender.at # "wait"
      BY <2>5 DEF Standing, Fake, Openpi, Lerobot
    <3>2. sender.at = "rpc" => "send" \in cancelled'
      BY <1>2, <2>5 DEF CloseUnblocks, Published
    <3>3. receiver = "rpc" => "get" \in cancelled'
      BY <1>2, <2>5 DEF CloseUnblocks, Published
    <3>. QED
      BY <2>1, <2>2, <2>3, <3>1, <3>2, <3>3 DEF ClosePrompt
  <2>. QED
    BY <2>4, <2>5
<1>3. CASE CloseJoins
  BY <1>0, <1>3 DEF CloseJoins, Standing, Ordered, Replies, Owed, Busy, Owned, Own, Closed, ClosePrompt,
     Fake, Openpi, Lerobot
<1>. QED
  BY <1>1, <1>2, <1>3 DEF Closing

(* Every step of the composed system, by the part it moves. *)
LEMMA StepKeepsInv == Inv /\ [PolicyNext]_policyVars => Inv'
<1> SUFFICES ASSUME Inv, [PolicyNext]_policyVars PROVE Inv'
  OBVIOUS
<1>1. CASE LoopStep
  <2>1. CASE LoopTop \/ LoopChecks \/ LoopSleeps
    BY <2>1, ElsewhereStep DEF LoopTop, LoopChecks, LoopSleeps, LoopOnly, requests, program
  <2>2. CASE LoopObserves
    <3>1. CASE WaitCutShort \/ UNCHANGED <<requests, transport>>
      BY <2>2, <3>1, ElsewhereStep DEF LoopObserves, WaitCutShort, LoopOnly, requests, program
    <3>2. CASE sent' = sent + 1 /\ Push(sent + 1)
      BY <2>2, <3>2, PushStep DEF LoopObserves, LoopOnly, program
    <3>. QED
      BY <2>2, <3>1, <3>2 DEF LoopObserves, Pack
  <2>3. CASE LoopPolls
    <3>1. CASE PollTakes /\ hand' = ready
      BY <2>3, <3>1, PollStep DEF LoopPolls, LoopOnly, requests, program
    <3>2. CASE UNCHANGED <<hand, transport>>
      BY <2>3, <3>2, ElsewhereStep DEF LoopPolls, LoopOnly, requests, program
    <3>. QED
      BY <2>3, <3>1, <3>2 DEF LoopPolls
  <2>4. CASE LoopApplies
    BY <2>4, ElsewhereStep DEF LoopApplies, LoopOnly, requests, program
  <2>. QED
    BY <1>1, <2>1, <2>2, <2>3, <2>4 DEF LoopStep
<1>2. CASE InTransport
  BY <1>2, ThreadStep
<1>3. CASE StartClient
  <2>1. CASE Connect(sent)
    BY <1>3, <2>1, ConnectStep DEF StartClient, requests
  <2>2. CASE UNCHANGED transport
    BY <1>3, <2>2, ElsewhereStep DEF StartClient, requests
  <2>. QED
    BY <1>3, <2>1, <2>2 DEF StartClient
<1>4. CASE StartEpisode \/ ResumeClient \/ StartMirror \/ EndEpisode \/ DiscardEpisode
  BY <1>4, ElsewhereStep DEF StartEpisode, ResumeClient, StartMirror, EndEpisode, DiscardEpisode, Program, requests
<1>5. CASE Gate
  BY <1>5, ElsewhereStep DEF Gate, Program, requests
<1>6. CASE AutoStop
  BY <1>6, ElsewhereStep DEF AutoStop, Program, requests
<1>7. CASE StopClient
  <2>1. closing = "no"
    BY <1>7 DEF StopClient, Inv, Closed
  <2>. QED
    BY <1>7, <2>1, ElsewhereStep DEF StopClient, Program, requests
<1>8. CASE Closing
  BY <1>8, ClosingStep
<1>9. CASE JoinThread
  BY <1>9, ElsewhereStep DEF JoinThread, Program, requests
<1>10. CASE (\E r \in Readers : ReadCommand(r)) \/ Tick
  BY <1>10, ElsewhereStep DEF ReadCommand, ReadClock, SampleSlot, Tick, thread, requests, program
<1>11. CASE UNCHANGED policyVars
  BY <1>11, ElsewhereStep DEF policyVars, clientVars, thread, requests, program
<1>. QED
  BY <1>1, <1>2, <1>3, <1>4, <1>5, <1>6, <1>7, <1>8, <1>9, <1>10, <1>11 DEF PolicyNext, Stopping

(* The order of observations, the standing of the threads and the closing of the
   connection are invariant, whichever transport the registry built. *)
THEOREM PolicyInvariance == PolicySpec => []Inv
  BY Initially, StepKeepsInv, PTL DEF PolicySpec

(* A late reply, to a request that was given up, is never taken for the answer to the
   next observation. *)
THEOREM AnswersOwnHolds == PolicySpec => []AnswersOwn
<1>1. Inv => AnswersOwn
  BY DEF Inv, Owned, Own, AnswersOwn, NoChunk
<1>. QED
  BY <1>1, PolicyInvariance, PTL

(* close() waits for no server, wherever it finds the threads. *)
THEOREM ClosePromptHolds == PolicySpec => []ClosePrompt
<1>1. Inv => ClosePrompt
  BY DEF Inv
<1>. QED
  BY <1>1, PolicyInvariance, PTL

(* What the contract sees of a step. *)
Seen == Contract!contract

LEMMA Stutters ==
  ASSUME UNCHANGED <<connected, floor, ready, sent>>
  PROVE  UNCHANGED Seen
BY DEF Seen, Contract!contract

(* The connection ends, or had ended. *)
LEMMA Loses ==
  ASSUME Inv, connected' \in {connected, FALSE}, UNCHANGED <<floor, ready, sent>>
  PROVE  [Contract!Next]_Seen
BY DEF Inv, Standing, Seen, Contract!contract, Contract!Next, Contract!Lose

(* Whoever publishes answers an observation newer than the last one answered. *)
LEMMA Answers ==
  ASSUME NEW c, NEW o \in Nat, Publish(c), c.answers = o, floor < o, o <= sent,
         UNCHANGED <<connected, sent>>
  PROVE  [Contract!Next]_Seen
BY DEF Publish, Seen, Contract!contract, Contract!Next, Contract!Answer

LEMMA ThreadKeepsContract ==
  ASSUME Inv, InTransport
  PROVE  [Contract!Next]_Seen
<1>0. UNCHANGED sent
  BY DEF InTransport, clientVars, thread, requests
<1>1. CASE SenderTakes \/ PackFails \/ LerobotPublishes \/ LerobotRechecks \/ LerobotSent
           \/ ReceiverPublishes \/ ReceiverRechecks \/ OpenpiServerAnswers
  BY <1>0, <1>1, Stutters DEF SenderTakes, PackFails, LerobotPublishes, LerobotRechecks,
     LerobotSent, ReceiverPublishes, ReceiverRechecks, OpenpiServerAnswers
<1>2. CASE OpenpiSend \/ OpenpiGivesUp \/ OpenpiLosesSocket
  BY <1>0, <1>2, Loses DEF OpenpiSend, OpenpiGivesUp, OpenpiLosesSocket
<1>3. CASE OpenpiReceives(now)
  <2>1. CASE connected' \in {connected, FALSE} /\ UNCHANGED <<ready, floor>>
    BY <1>0, <2>1, Loses
  <2>2. CASE Publish([reply EXCEPT !.stamped = sender.obs, !.at = now]) /\ UNCHANGED connected
    <3>1. reply \in [stamped : Nat, answers : {sender.obs}, at : Nat]
          /\ sender.obs \in Nat /\ floor < sender.obs /\ sender.obs <= sent
      BY <1>3 DEF OpenpiReceives, Inv, Replies, Standing, Ordered, Busy
    <3>2. [reply EXCEPT !.stamped = sender.obs, !.at = now].answers = sender.obs
      BY <3>1
    <3>. QED
      BY <1>0, <2>2, <3>1, <3>2, Answers
  <2>. QED
    BY <1>3, <2>1, <2>2 DEF OpenpiReceives
<1>4. CASE ReceiverGets(now)
  <2>1. CASE UNCHANGED <<ready, floor>>
    BY <1>0, <1>4, <2>1, Stutters DEF ReceiverGets
  <2>2. CASE asked # << >> /\ Publish([stamped |-> asked[1], answers |-> asked[1], at |-> now])
    <3>1. PICK o \in Nat : Owed(o)
      BY <1>4, <2>2 DEF ReceiverGets, Inv, Replies
    <3>. QED
      BY <1>0, <1>4, <2>2, <3>1, Answers DEF ReceiverGets, Owed
  <2>. QED
    BY <1>4, <2>1, <2>2 DEF ReceiverGets
<1>5. CASE FakeAnswers(sent, now)
  <2>1. CASE connected' = FALSE /\ UNCHANGED <<ready, floor>>
    BY <1>0, <2>1, Loses
  <2>2. ASSUME NEW o \in floor + 1 .. sent,
               Publish([stamped |-> o, answers |-> o, at |-> now]), UNCHANGED connected
        PROVE  [Contract!Next]_Seen
    <3>1. o \in Nat /\ floor < o /\ o <= sent
      BY DEF Inv, Standing
    <3>. QED
      BY <1>0, <2>2, <3>1, Answers
  <2>. QED
    BY <1>5, <2>1, <2>2 DEF FakeAnswers
<1>. QED
  BY <1>1, <1>2, <1>3, <1>4, <1>5 DEF InTransport, SenderStep, ReceiverStep, Server

(* A step of the composed system is a step of the contract, or the contract does not
   see it. *)
LEMMA StepKeepsContract == Inv /\ [PolicyNext]_policyVars => [Contract!Next]_Seen
<1> SUFFICES ASSUME Inv, [PolicyNext]_policyVars PROVE [Contract!Next]_Seen
  OBVIOUS
<1>1. CASE LoopStep
  <2>1. CASE UNCHANGED <<requests, transport>>
    BY <2>1, Stutters DEF requests, transport
  <2>2. CASE sent' = sent + 1 /\ Push(sent + 1)
    BY <2>2 DEF Push, Inv, Standing, Seen, Contract!contract, Contract!Next, Contract!Push
  <2>3. CASE PollTakes /\ UNCHANGED requests
    <3>1. ready.answers # 0 /\ ready'.answers = 0
      BY <2>3 DEF PollTakes, Inv, Owned, Own, NoChunk
    <3>. QED
      BY <2>3, <3>1 DEF PollTakes, requests, Seen, Contract!contract, Contract!Next, Contract!Poll
  <2>. QED
    BY <1>1, <2>1, <2>2, <2>3 DEF LoopStep, LoopTop, LoopChecks, LoopSleeps, LoopObserves,
       WaitCutShort, Pack, LoopPolls, LoopApplies
<1>2. CASE InTransport
  BY <1>2, ThreadKeepsContract
<1>3. CASE StartClient
  <2>1. CASE Connect(sent)
    <3>1. ready'.answers = 0
      BY <2>1 DEF Connect, NoChunk
    <3>. QED
      BY <1>3, <2>1, <3>1 DEF StartClient, Connect, requests, Seen, Contract!contract, Contract!Next,
         Contract!Connect
  <2>2. CASE UNCHANGED transport
    BY <1>3, <2>2, Stutters DEF StartClient, requests, transport
  <2>. QED
    BY <1>3, <2>1, <2>2 DEF StartClient
<1>4. CASE StartEpisode \/ ResumeClient \/ Gate \/ StartMirror \/ EndEpisode \/ DiscardEpisode
           \/ AutoStop \/ StopClient \/ JoinThread
  BY <1>4, Stutters DEF StartEpisode, ResumeClient, Gate, StartMirror, EndEpisode, DiscardEpisode,
     AutoStop, StopClient, JoinThread, Program, requests, transport
<1>5. CASE Closing
  <2>1. connected' \in {connected, FALSE} /\ UNCHANGED <<floor, ready, sent>>
    BY <1>5 DEF Closing, CloseFlags, CloseUnblocks, CloseJoins, Program, requests
  <2>. QED
    BY <2>1, Loses
<1>6. CASE (\E r \in Readers : ReadCommand(r)) \/ Tick \/ UNCHANGED policyVars
  BY <1>6, Stutters DEF ReadCommand, ReadClock, SampleSlot, Tick, policyVars, clientVars, thread, requests, transport
<1>. QED
  BY <1>1, <1>2, <1>3, <1>4, <1>5, <1>6 DEF PolicyNext, Stopping

(* Each transport is a one-deep mailbox: what a poll takes answers an observation of
   this connection, newer than whatever was answered before, and nothing is taken
   from a connection that is lost. *)
THEOREM ContractRefinement == PolicySpec => ImplementsContract
<1>1. PolicyInit => Contract!Init
  BY DEF PolicyInit, TransportInit, NoChunk, Contract!Init
<1>2. Inv /\ [PolicyNext]_policyVars => [Contract!Next]_Contract!contract
  BY StepKeepsContract DEF Seen
<1>. QED
  BY <1>1, <1>2, PolicyInvariance, PTL DEF PolicySpec, ImplementsContract, Contract!Spec

(***************************************************************************)
(* What the policy client plays, for any number of rows, requests and      *)
(* ticks, with either transport and any number of mirrors: the arm is      *)
(* never told a row of an older chunk, nor an older row of the same chunk  *)
(* by a sampler that was not overtaken, and a mirror that was let go has a *)
(* chunk until the episode ends.                                           *)
(*                                                                         *)
(* An observation's answer goes from the transport's box to the inference  *)
(* thread's hand to the slot, and each place holds older ones than the     *)
(* place before; in the slot, what was last commanded is a row of the      *)
(* playing chunk that its clock has reached, or of an older chunk.         *)
(***************************************************************************)
CommandRows == [obs : Nat, row : Int]
Slots == [latest : Nat, pending : Nat, start : Int, last : CommandRows, from : CommandRows, fromAt : Int]

Sound(s) ==
  /\ s \in Slots
  /\ s.pending # 0 => s.latest # 0 /\ s.pending > s.latest
  /\ s.latest # 0 => s.last.obs <= s.latest
  /\ s.from # Nothing => s.from = s.last /\ s.latest # 0

(* What was commanded of the playing chunk is not beyond its row at t. *)
Behind(s, t) == s.latest # 0 /\ s.last.obs = s.latest => s.last.row <= RowAt(s, t)

(* Everything in the slot is older than the answer to observation n. *)
Older(s, n) == s.latest < n /\ s.pending < n /\ s.last.obs < n

LEMMA RowAtGrows ==
  ASSUME NEW s \in Slots, NEW t \in Int, NEW u \in Int, t <= u
  PROVE  /\ RowAt(s, t) \in 0 .. Rows - 1 /\ RowAt(s, u) \in 0 .. Rows - 1
         /\ RowAt(s, t) <= RowAt(s, u)
BY RowsAssumption DEF RowAt, Exhausted, Slots

(* A slot that was behind a clock is behind every later one. *)
LEMMA StaysBehind ==
  ASSUME NEW s, Sound(s), NEW t \in Int, NEW u \in Int, t <= u, Behind(s, t)
  PROVE  Behind(s, u)
<1>1. RowAt(s, t) \in Int /\ RowAt(s, u) \in Int /\ RowAt(s, t) <= RowAt(s, u)
  BY RowAtGrows, RowsAssumption DEF Sound
<1>. QED
  BY <1>1 DEF Sound, Behind, Slots, CommandRows

LEMMA StageTyped ==
  ASSUME NEW s \in Slots, NEW t \in Int, NEW b
  PROVE  LET p == Stage(s, t, b)
         IN  /\ p \in Slots
             /\ p.latest = s.latest /\ p.pending = s.pending /\ p.start = s.start /\ p.last = s.last
             /\ p.from # Nothing => p.from = p.last
<1>1. Nothing \in CommandRows /\ s.last \in CommandRows
  BY DEF Nothing, CommandRows, Slots
<1>. QED
  BY <1>1 DEF Stage, Slots

(* The chunk that is queued when the playing one is over. *)
LEMMA PromoteGood ==
  ASSUME NEW s, NEW t \in Int, NEW b \in {0, 1}, Sound(s), Playing(s)
  PROVE  /\ Sound(Promote(s, t, b))
         /\ Playing(Promote(s, t, b))
         /\ Promote(s, t, b).last = s.last
         /\ Promote(s, t, b).latest \in {s.latest, s.pending}
         /\ Promote(s, t, b).pending \in {s.pending, 0}
         /\ \A u \in Int : Behind(s, u) => Behind(Promote(s, t, b), u)
<1>. DEFINE p == [Stage(s, t, b) EXCEPT !.latest = s.pending, !.pending = 0, !.start = t]
<1>1. CASE Exhausted(s, t) /\ s.pending # 0
  <2>1. /\ p \in Slots
        /\ p.latest = s.pending /\ p.pending = 0 /\ p.last = s.last
        /\ p.from # Nothing => p.from = p.last
    <3>. DEFINE q == Stage(s, t, b)
    <3>1. /\ q \in Slots /\ q.last = s.last
          /\ q.from # Nothing => q.from = q.last
      BY StageTyped DEF Sound
    <3>2. s.pending \in Nat /\ 0 \in Nat /\ t \in Int
      BY DEF Sound, Slots
    <3>. HIDE DEF q
    <3>3. p = [q EXCEPT !.latest = s.pending, !.pending = 0, !.start = t]
      BY DEF q
    <3>. HIDE DEF p
    <3>. QED
      BY <3>1, <3>2, <3>3 DEF Slots
  <2>2. Promote(s, t, b) = p
    BY <1>1 DEF Promote
  <2>3. Sound(p) /\ p.latest # 0 /\ p.last.obs < p.latest
    <3>. HIDE DEF p
    <3>. QED
      BY <1>1, <2>1 DEF Sound, Slots, CommandRows
  <2>4. \A u \in Int : Behind(p, u)
    <3>1. p.last.obs # p.latest
      <4>. HIDE DEF p
      <4>. QED
        BY <2>1, <2>3 DEF Slots, CommandRows
    <3>. HIDE DEF p
    <3>. QED
      BY <3>1 DEF Behind
  <2>. HIDE DEF p
  <2>. QED
    BY <2>1, <2>2, <2>3, <2>4 DEF Playing
<1>2. CASE ~(Exhausted(s, t) /\ s.pending # 0)
  BY <1>2 DEF Promote
<1>. QED
  BY <1>1, <1>2

(* A row of the chunk: no lower one, unless the slot has gone beyond the reading. *)
LEMMA PlayGood ==
  ASSUME NEW s, NEW t \in Int, NEW b \in {0, 1}, Sound(s), Playing(s)
  PROVE  LET p == Play(s, t, b)
         IN  /\ Sound(p)
             /\ p.latest = s.latest /\ p.pending = s.pending
             /\ p.last.obs \in {s.last.obs, s.latest}
             /\ p.last # s.last => Later(p.last, s.last) \/ (p.last.obs = s.last.obs /\ ~Behind(s, t))
             /\ \A u \in Int : t <= u /\ Behind(s, u) => Behind(p, u)
<1>. DEFINE fading == s.from # Nothing /\ t - s.fromAt < b
            row == RowAt(s, t)
            p == Play(s, t, b)
<1>0. row \in 0 .. Rows - 1 /\ s \in Slots /\ row \in Int
  BY RowAtGrows, RowsAssumption DEF Sound
<1>1. CASE fading
  <2>1. p = [s EXCEPT !.last = s.from, !.from = s.from, !.fromAt = s.fromAt]
    BY <1>1 DEF Play
  <2>2. /\ p \in Slots /\ p.latest = s.latest /\ p.pending = s.pending /\ p.start = s.start
        /\ p.last = s.last /\ p.from = s.from
    BY <1>0, <1>1, <2>1 DEF Sound, Slots
  <2>. HIDE DEF p
  <2>3. Sound(p)
    BY <2>2 DEF Sound
  <2>4. \A u \in Int : Behind(s, u) => Behind(p, u)
    BY <2>2 DEF Behind, RowAt, Exhausted
  <2>. QED
    BY <2>2, <2>3, <2>4 DEF p
<1>2. CASE ~fading
  <2>1. p = [s EXCEPT !.last = [obs |-> s.latest, row |-> row], !.from = Nothing, !.fromAt = 0]
    BY <1>2 DEF Play
  <2>2. /\ p \in Slots /\ p.latest = s.latest /\ p.pending = s.pending /\ p.start = s.start
        /\ p.last = [obs |-> s.latest, row |-> row] /\ p.from = Nothing
    <3>1. Nothing \in CommandRows /\ [obs |-> s.latest, row |-> row] \in CommandRows
      BY <1>0 DEF Nothing, CommandRows, Slots
    <3>. DEFINE r == [obs |-> s.latest, row |-> row]
    <3>2. p = [s EXCEPT !.last = r, !.from = Nothing, !.fromAt = 0]
          /\ s \in Slots /\ r \in CommandRows /\ Nothing \in CommandRows /\ 0 \in Int
      BY <1>0, <2>1, <3>1
    <3>3. p \in Slots /\ p.latest = s.latest /\ p.pending = s.pending /\ p.start = s.start
          /\ p.last = r /\ p.from = Nothing
      <4>. HIDE DEF p, r
      <4>. QED
        BY <3>2 DEF Slots
    <3>. QED
      BY <3>3
  <2>3. \A u \in Int : t <= u => Behind(p, u)
    <3>1. \A u \in Int : RowAt(p, u) = RowAt(s, u)
      <4>. HIDE DEF p
      <4>. QED
        BY <2>2 DEF RowAt, Exhausted
    <3>2. \A u \in Int : t <= u => row <= RowAt(s, u)
      BY <1>0, RowAtGrows
    <3>. HIDE DEF p, row
    <3>. QED
      BY <2>2, <3>1, <3>2 DEF Behind
  <2>4. Sound(p)
    <3>. HIDE DEF p, row
    <3>. QED
      BY <1>0, <2>2 DEF Sound, Slots
  <2>5. p.last # s.last => Later(p.last, s.last) \/ (p.last.obs = s.last.obs /\ ~Behind(s, t))
    <3>1. p.last.obs = s.latest /\ p.last.row = row /\ s.last.obs <= s.latest /\ s.latest # 0
          /\ s.last = [obs |-> s.last.obs, row |-> s.last.row]
          /\ s.last.obs \in Int /\ s.last.row \in Int /\ s.latest \in Int
      <4>. HIDE DEF p, row
      <4>. QED
        BY <1>0, <2>2 DEF Sound, Playing, Slots, CommandRows
    <3>2. p.last = [obs |-> s.latest, row |-> row]
      BY <2>2
    <3>3. Behind(s, t) /\ s.last.obs = s.latest => s.last.row <= row
      BY <3>1 DEF Behind
    <3>. HIDE DEF p, row
    <3>. QED
      BY <1>0, <3>1, <3>2, <3>3 DEF Later
  <2>. HIDE DEF p
  <2>. QED
    BY <2>2, <2>3, <2>4, <2>5 DEF p
<1>. QED
  BY <1>1, <1>2

(* Whoever samples, for whatever instant. *)
LEMMA SampleGood ==
  ASSUME NEW s, NEW t \in Int, NEW b \in {0, 1}, Sound(s)
  PROVE  LET p == Sample(s, t, b)
         IN  /\ Sound(p)
             /\ p.last # s.last => Later(p.last, s.last) \/ (p.last.obs = s.last.obs /\ ~Behind(s, t))
             /\ \A u \in Int : t <= u /\ Behind(s, u) => Behind(p, u)
             /\ \A n \in Nat : n > 0 /\ Older(s, n) => Older(p, n)
             /\ Playing(s) => Playing(p)
<1>1. CASE Playing(s)
  <2>. DEFINE q == Promote(s, t, b)
              p == Play(q, t, b)
  <2>1. /\ Sound(q) /\ Playing(q) /\ q.last = s.last
        /\ q.latest \in {s.latest, s.pending} /\ q.pending \in {s.pending, 0}
        /\ \A u \in Int : Behind(s, u) => Behind(q, u)
    BY <1>1, PromoteGood
  <2>2. /\ Sound(p)
        /\ p.latest = q.latest /\ p.pending = q.pending
        /\ p.last.obs \in {q.last.obs, q.latest}
        /\ p.last # q.last => Later(p.last, q.last) \/ (p.last.obs = q.last.obs /\ ~Behind(q, t))
        /\ \A u \in Int : t <= u /\ Behind(q, u) => Behind(p, u)
    <3>. HIDE DEF q
    <3>. QED
      BY <2>1, PlayGood
  <2>3. Sample(s, t, b) = p
    BY <1>1 DEF Sample
  <2>4. \A n \in Nat : n > 0 /\ Older(s, n) => Older(p, n)
    <3>. HIDE DEF p, q
    <3>. QED
      BY <2>1, <2>2 DEF Older
  <2>. HIDE DEF p, q
  <2>5. p.last # s.last => Later(p.last, s.last) \/ (p.last.obs = s.last.obs /\ ~Behind(s, t))
    BY <2>1, <2>2
  <2>6. \A u \in Int : t <= u /\ Behind(s, u) => Behind(p, u)
    BY <2>1, <2>2
  <2>. QED
    BY <2>1, <2>2, <2>3, <2>4, <2>5, <2>6 DEF Playing
<1>2. CASE ~Playing(s)
  <2>1. CASE s.last = Nothing
    <3>. DEFINE p == [s EXCEPT !.last = Zeros]
    <3>1. Sample(s, t, b) = p
      BY <1>2, <2>1 DEF Sample, Hold
    <3>2. /\ p \in Slots /\ p.latest = s.latest /\ p.pending = s.pending /\ p.from = s.from /\ p.last = Zeros
      BY DEF Sound, Slots, CommandRows, Zeros
    <3>3. Sound(p) /\ Later(p.last, s.last) /\ \A u \in Int : Behind(p, u)
      <4>. HIDE DEF p
      <4>. QED
        BY <1>2, <2>1, <3>2 DEF Sound, Behind, Playing, Later, Nothing, Zeros
    <3>4. \A n \in Nat : n > 0 /\ Older(s, n) => Older(p, n)
      <4>. HIDE DEF p
      <4>. QED
        BY <3>2 DEF Older, Zeros
    <3>. HIDE DEF p
    <3>. QED
      BY <1>2, <3>1, <3>3, <3>4
  <2>2. CASE s.last # Nothing
    <3>1. Sample(s, t, b) = s
      BY <1>2, <2>2 DEF Sample, Hold
    <3>. QED
      BY <3>1
  <2>. QED
    BY <2>1, <2>2
<1>. QED
  BY <1>1, <1>2

LEMMA SwapInGood ==
  ASSUME NEW s, NEW c, c.answers \in Nat, c.answers > 0, c.at \in Int,
         Sound(s), Older(s, c.answers)
  PROVE  LET p == SwapIn(s, c)
         IN  /\ Sound(p) /\ p.last = s.last /\ Playing(p)
             /\ \A u \in Int : Behind(s, u) => Behind(p, u)
             /\ \A n \in Nat : n > c.answers => Older(p, n)
<1>1. CASE Playing(s)
  <2>. DEFINE p == [s EXCEPT !.pending = c.answers]
  <2>1. /\ p \in Slots /\ p.latest = s.latest /\ p.pending = c.answers /\ p.start = s.start
        /\ p.last = s.last /\ p.from = s.from
    BY DEF Sound, Slots
  <2>2. SwapIn(s, c) = p
    BY <1>1 DEF SwapIn
  <2>. HIDE DEF p
  <2>3. \A u \in Int : Behind(s, u) => Behind(p, u)
    BY <2>1 DEF Behind, RowAt, Exhausted
  <2>. QED
    BY <1>1, <2>1, <2>2, <2>3 DEF Sound, Older, Playing, Slots, CommandRows
<1>2. CASE ~Playing(s)
  <2>. DEFINE p == [s EXCEPT !.latest = c.answers, !.start = c.at]
  <2>1. /\ p \in Slots /\ p.latest = c.answers /\ p.pending = s.pending
        /\ p.last = s.last /\ p.from = s.from
    BY DEF Sound, Slots
  <2>2. SwapIn(s, c) = p
    BY <1>2 DEF SwapIn
  <2>. HIDE DEF p
  <2>3. p.last.obs # p.latest
    BY <2>1 DEF Older, Slots, CommandRows
  <2>4. \A u \in Int : Behind(p, u)
    BY <2>3 DEF Behind
  <2>. QED
    BY <1>2, <2>1, <2>2, <2>4 DEF Sound, Older, Playing, Slots, CommandRows
<1>. QED
  BY <1>1, <1>2

LEMMA TakeOverGood ==
  ASSUME NEW s, NEW t \in Nat, NEW b \in {0, 1}, NEW start \in Int,
         NEW c, c.answers \in Nat, c.answers > 0, Sound(s), Older(s, c.answers)
  PROVE  LET p == SwapInAligned(s, c, start, t, b)
         IN  /\ Sound(p) /\ p.last = s.last /\ Playing(p)
             /\ \A u \in Int : Behind(p, u)
             /\ \A n \in Nat : n > c.answers => Older(p, n)
<1>. DEFINE p == SwapInAligned(s, c, start, t, b)
<1>1. /\ p \in Slots /\ p.latest = c.answers /\ p.pending = 0 /\ p.last = s.last
      /\ p.from # Nothing => p.from = p.last
  <2>. DEFINE q == Stage(s, t, b)
  <2>1. /\ q \in Slots /\ q.last = s.last
        /\ q.from # Nothing => q.from = q.last
    BY StageTyped DEF Sound
  <2>. HIDE DEF q
  <2>2. p = [q EXCEPT !.latest = c.answers, !.pending = 0, !.start = start]
    BY DEF q, SwapInAligned
  <2>. HIDE DEF p
  <2>. QED
    BY <2>1, <2>2 DEF Slots
<1>. HIDE DEF p
<1>2. Sound(p) /\ p.last = s.last /\ Playing(p) /\ \A n \in Nat : n > c.answers => Older(p, n)
  BY <1>1 DEF Sound, Older, Playing, Slots, CommandRows
<1>3. p.last.obs # p.latest
  BY <1>1 DEF Older, Slots, CommandRows
<1>4. \A u \in Int : Behind(p, u)
  BY <1>3 DEF Behind
<1>. QED
  BY <1>2, <1>4 DEF p

LEMMA ClearGood ==
  ASSUME NEW s, Sound(s)
  PROVE  /\ Sound(Clear(s)) /\ Clear(s).last = s.last
         /\ \A u \in Int : Behind(Clear(s), u)
         /\ \A n \in Nat : Older(s, n) => Older(Clear(s), n)
<1>1. /\ Clear(s) \in Slots /\ Clear(s).latest = 0 /\ Clear(s).pending = 0
      /\ Clear(s).last = s.last /\ Clear(s).from = Nothing
  <2>1. Nothing \in CommandRows /\ s.last \in CommandRows
    BY DEF Nothing, CommandRows, Sound, Slots
  <2>2. Clear(s) = [latest |-> 0, pending |-> 0, start |-> 0, last |-> s.last, from |-> Nothing, fromAt |-> 0]
    BY DEF Clear, EmptySlot
  <2>. QED
    BY <2>1, <2>2 DEF Slots
<1>. QED
  BY <1>1 DEF Sound, Behind, Older, Slots, CommandRows
-----------------------------------------------------------------------------
(* The client around the slot. *)

Typed ==
  /\ now \in Nat /\ drain \in Nat /\ epoch \in Int
  /\ sent <= MaxRequests /\ ticks \in [Requests -> Int]
  /\ ready.at \in Int /\ hand.at \in Int
  /\ reading \in [Readers -> Int]
  /\ \A r \in Readers : Never <= reading[r] /\ reading[r] <= now

(* What was commanded is behind the clock, and behind every reading that is yet to be
   sampled for, unless a later one was sampled for first. *)
Forward ==
  /\ Sound(slot) /\ Behind(slot, now)
  /\ \A r \in Readers : reading[r] # Never /\ r \notin overtaken => Behind(slot, reading[r])

(* From the box to the hand to the slot, and no place beyond what was answered. *)
Fresh ==
  /\ hand.answers <= floor /\ ready.answers <= floor
  /\ Older(slot, floor + 1)
  /\ loop = "apply" => hand.answers > 0 /\ Older(slot, hand.answers)
  /\ ready.answers # 0 => /\ Older(slot, ready.answers)
                          /\ loop = "apply" => hand.answers < ready.answers

SlotInv == Typed /\ Forward /\ Fresh /\ MirrorHasChunk

LEMMA Answered == Inv => hand.answers \in Nat /\ ready.answers \in Nat /\ floor \in Nat /\ sent \in Nat
BY DEF Inv, Standing, Owned, Own, NoChunk

LEMMA OlderGrows ==
  ASSUME NEW s \in Slots, NEW n \in Int, NEW m \in Int, n <= m, Older(s, n)
  PROVE  Older(s, m)
BY DEF Older, Slots, CommandRows

(* What the transport's threads may do to what is answered. *)
LEMMA Mailbox ==
  ASSUME Inv, InTransport
  PROVE  /\ floor' >= floor
         /\ \/ ready'.answers \in {ready.answers, 0}
            \/ floor' > floor /\ ready'.answers = floor'
<1>1. [Contract!Next]_Seen
  BY ThreadKeepsContract
<1>2. UNCHANGED sent
  BY DEF InTransport, clientVars, thread, requests
<1>3. floor \in Nat /\ sent \in Nat /\ floor <= sent
  BY DEF Inv, Standing, Ordered
<1>4. CASE UNCHANGED Seen \/ Contract!Lose
  BY <1>3, <1>4 DEF Seen, Contract!contract, Contract!Lose
<1>5. CASE Contract!Connect \/ Contract!Poll
  BY <1>3, <1>5 DEF Contract!Connect, Contract!Poll
<1>6. CASE Contract!Push
  BY <1>2, <1>3, <1>6 DEF Contract!Push
<1>7. CASE Contract!Answer
  <2>1. floor' \in Nat
    BY ThreadStep DEF Inv, Standing
  <2>. QED
    BY <1>3, <1>7, <2>1 DEF Contract!Answer
<1>. QED
  BY <1>1, <1>4, <1>5, <1>6, <1>7 DEF Contract!Next

(* A chunk is stamped with the instant at which it was received. *)
LEMMA Received ==
  ASSUME Inv, InTransport
  PROVE  ready' = ready \/ ready'.at = now
<1>1. CASE OpenpiReceives(now)
  <2>1. CASE Publish([reply EXCEPT !.stamped = sender.obs, !.at = now])
    <3>1. reply \in [stamped : Nat, answers : {sender.obs}, at : Nat]
      BY <1>1, <2>1 DEF OpenpiReceives, Inv, Replies
    <3>. QED
      BY <2>1, <3>1 DEF Publish
  <2>. QED
    BY <1>1, <2>1 DEF OpenpiReceives
<1>2. CASE ReceiverGets(now)
  BY <1>2 DEF ReceiverGets, Publish
<1>3. CASE FakeAnswers(sent, now)
  <2>1. ASSUME NEW o, Publish([stamped |-> o, answers |-> o, at |-> now]) PROVE ready'.at = now
    BY <2>1 DEF Publish
  <2>. QED
    BY <1>3, <2>1 DEF FakeAnswers
<1>4. CASE SenderTakes \/ PackFails \/ LerobotPublishes \/ LerobotRechecks \/ LerobotSent
           \/ ReceiverPublishes \/ ReceiverRechecks \/ OpenpiServerAnswers
           \/ OpenpiSend \/ OpenpiGivesUp \/ OpenpiLosesSocket
  BY <1>4 DEF SenderTakes, PackFails, LerobotPublishes, LerobotRechecks, LerobotSent,
     ReceiverPublishes, ReceiverRechecks, OpenpiServerAnswers, OpenpiSend, OpenpiGivesUp, OpenpiLosesSocket
<1>. QED
  BY <1>1, <1>2, <1>3, <1>4 DEF InTransport, SenderStep, ReceiverStep, Server

LEMMA SlotInitially == PolicyInit => SlotInv
<1> SUFFICES ASSUME PolicyInit PROVE SlotInv
  OBVIOUS
<1>1. Sound(EmptySlot) /\ Behind(EmptySlot, 0)
  <2>1. Nothing \in CommandRows
    BY DEF Nothing, CommandRows
  <2>2. EmptySlot \in Slots /\ EmptySlot.latest = 0 /\ EmptySlot.pending = 0
        /\ EmptySlot.from = Nothing /\ EmptySlot.last.obs = 0
    BY <2>1 DEF EmptySlot, Slots, Nothing
  <2>. QED
    BY <2>2 DEF Sound, Behind
<1>2. Typed
  BY PolicyAssumption, RowsAssumption DEF PolicyInit, TransportInit, Typed, NoChunk, Never
<1>3. Fresh
  BY DEF PolicyInit, TransportInit, Fresh, NoChunk, Older, EmptySlot, Nothing
<1>4. Forward
  BY <1>1 DEF PolicyInit, Forward
<1>. QED
  BY <1>1, <1>2, <1>3, <1>4 DEF SlotInv, PolicyInit, MirrorHasChunk

(* The steps of no sampler, between two ticks. *)
LEMMA KeptForward ==
  ASSUME SlotInv, UNCHANGED <<now, sampling>>, Sound(slot'),
         \A u \in Int : Behind(slot, u) => Behind(slot', u)
  PROVE  Forward'
BY DEF SlotInv, Typed, Forward, sampling

(* The steps that leave the slot, the clock and what is in hand alone. *)
LEMMA ElsewhereSlot ==
  ASSUME Inv, SlotInv,
         UNCHANGED <<slot, now, drain, hand, floor, sampling>>, ready' \in {ready, NoChunk},
         epoch' \in Int, sent' <= MaxRequests, ticks' \in [Requests -> Int],
         loop' = "apply" => loop = "apply",
         MirrorHasChunk'
  PROVE  SlotInv'
BY Answered DEF SlotInv, Typed, Forward, Fresh, NoChunk, sampling

LEMMA LoopAround ==
  ASSUME Inv, SlotInv, LoopTop \/ LoopChecks \/ LoopSleeps \/ LoopObserves
  PROVE  SlotInv'
<1>1. UNCHANGED <<slot, now, drain, hand, floor, ready, at, ended, sampling>>
  BY DEF LoopTop, LoopChecks, LoopSleeps, LoopObserves, WaitCutShort, Pack, Push, LoopOnly, transport, program
<1>2. epoch' \in Int
  BY DEF LoopTop, LoopChecks, LoopSleeps, LoopObserves, ResetEpoch, schedule, SlotInv, Typed
<1>3. sent' <= MaxRequests /\ ticks' \in [Requests -> Int]
  <2>1. CASE UNCHANGED requests
    BY <2>1 DEF requests, SlotInv, Typed
  <2>2. CASE sent < MaxRequests /\ sent' = sent + 1
             /\ ticks' = [ticks EXCEPT ![sent + 1] = IF Overlap THEN now - epoch ELSE 0]
    <3>1. (IF Overlap THEN now - epoch ELSE 0) \in Int
      BY DEF SlotInv, Typed
    <3>2. sent + 1 <= MaxRequests
      BY <2>2, Answered, PolicyAssumption
    <3>. QED
      BY <2>2, <3>1, <3>2 DEF SlotInv, Typed
  <2>. QED
    BY <2>1, <2>2 DEF LoopTop, LoopChecks, LoopSleeps, LoopObserves, WaitCutShort, Pack
<1>4. loop' # "apply"
  BY DEF LoopTop, LoopChecks, LoopSleeps, LoopObserves, WaitCutShort, Pack, Goto
<1>5. MirrorHasChunk'
  BY <1>1 DEF SlotInv, MirrorHasChunk
<1>. QED
  BY <1>1, <1>2, <1>3, <1>4, <1>5, ElsewhereSlot

LEMMA Polling == ASSUME Inv, SlotInv, LoopPolls PROVE SlotInv'
<1>1. UNCHANGED <<slot, now, drain, epoch, sent, ticks, at, ended, sampling>>
  BY DEF LoopPolls, LoopOnly, schedule, requests, program
<1>2. MirrorHasChunk'
  BY <1>1 DEF SlotInv, MirrorHasChunk
<1>3. CASE PollTakes /\ hand' = ready /\ Goto("apply")
  <2>1. ready.answers > 0 /\ ready'.answers = 0 /\ ready'.at \in Int /\ floor' = floor
    BY <1>3 DEF PollTakes, Inv, Owned, Own, NoChunk
  <2>. QED
    BY <1>1, <1>2, <1>3, <2>1, Answered DEF SlotInv, Typed, Forward, Fresh, Goto, sampling
<1>4. CASE Goto("top") /\ UNCHANGED <<hand, transport>>
  BY <1>1, <1>2, <1>4, ElsewhereSlot DEF Goto, transport, SlotInv, Typed
<1>. QED
  BY <1>3, <1>4 DEF LoopPolls

LEMMA Applying == ASSUME Inv, SlotInv, LoopApplies PROVE SlotInv' /\ slot'.last = slot.last
<1>. DEFINE a == hand.answers
<1>1. UNCHANGED <<now, drain, epoch, sent, ticks, at, ended, floor, ready, sampling>>
      /\ hand' = NoChunk /\ loop = "apply" /\ loop' = "top"
  BY DEF LoopApplies, LoopOnly, Goto, requests, transport, program
<1>2. /\ a \in Nat /\ a > 0 /\ a <= floor /\ hand.stamped = a /\ hand.at \in Int
      /\ now \in Nat /\ Sound(slot) /\ Older(slot, a) /\ blend \in {0, 1}
      /\ ready.answers # 0 => a < ready.answers
  BY <1>1, Answered DEF SlotInv, Typed, Forward, Fresh, Inv, Owned, Own, NoChunk, blend
<1>3. \/ slot' = slot
      \/ Sound(slot') /\ slot'.last = slot.last /\ Playing(slot')
         /\ (\A u \in Int : Behind(slot, u) => Behind(slot', u))
         /\ \A n \in Nat : n > a => Older(slot', n)
  <2>1. CASE Queue(hand)
    BY <1>2, <2>1, SwapInGood DEF Queue
  <2>2. CASE TakeOver(hand)
    <3>1. a \in Requests
      BY <1>2, Answered, PolicyAssumption DEF Requests, SlotInv, Typed, Inv, Ordered
    <3>2. epoch + Base(hand) \in Int
      BY <1>2, <3>1 DEF Base, SlotInv, Typed
    <3>. QED
      BY <1>2, <2>2, <3>2, TakeOverGood DEF TakeOver
  <2>. QED
    BY <2>1, <2>2 DEF LoopApplies
<1>4. Typed' /\ Forward'
  BY <1>1, <1>2, <1>3, KeptForward DEF SlotInv, Typed, NoChunk, sampling
<1>5. MirrorHasChunk'
  BY <1>1, <1>3 DEF SlotInv, MirrorHasChunk
<1>6. Fresh'
  <2>1. floor + 1 \in Nat /\ floor + 1 > a /\ ready.answers \in Nat
    BY <1>2, Answered
  <2>. QED
    BY <1>1, <1>2, <1>3, <2>1, Answered DEF Fresh, SlotInv, NoChunk
<1>. QED
  BY <1>3, <1>4, <1>5, <1>6 DEF SlotInv

LEMMA Transported == ASSUME Inv, SlotInv, InTransport PROVE SlotInv'
<1>1. UNCHANGED <<slot, now, drain, epoch, sent, ticks, at, ended, hand, loop, sampling>>
  BY DEF InTransport, clientVars, thread, schedule, requests, program
<1>2. Typed' /\ Forward' /\ MirrorHasChunk'
  BY <1>1, Received DEF SlotInv, Typed, Forward, MirrorHasChunk, sampling
<1>3. Fresh'
  <2>0. floor' \in Nat
    BY ThreadStep DEF Inv, Standing
  <2>1. Older(slot, floor' + 1) /\ (floor' > floor => Older(slot, floor'))
    BY <1>1, <2>0, Answered, Mailbox, OlderGrows DEF SlotInv, Fresh, Forward, Sound
  <2>. QED
    BY <1>1, <2>0, <2>1, Answered, Mailbox DEF SlotInv, Fresh
<1>. QED
  BY <1>2, <1>3 DEF SlotInv

LEMMA Starting == ASSUME Inv, SlotInv, StartClient PROVE SlotInv'
<1>1. UNCHANGED <<slot, now, drain, sent, ticks, hand, ended, sampling>> /\ at' = "idle"
  BY DEF StartClient, requests
<1>2. MirrorHasChunk'
  BY <1>1 DEF MirrorHasChunk
<1>3. CASE UNCHANGED <<loop, epoch, transport>>
  BY <1>1, <1>2, <1>3, ElsewhereSlot DEF transport, SlotInv, Typed
<1>4. CASE Connect(sent) /\ loop' = "top" /\ ResetEpoch
  <2>1. floor' = sent /\ floor <= sent /\ ready' = NoChunk /\ epoch' \in Int
    BY <1>4 DEF Connect, ResetEpoch, Inv, Ordered, SlotInv, Typed
  <2>2. Older(slot, floor' + 1)
    <3>1. slot \in Slots /\ Older(slot, floor + 1)
      BY DEF SlotInv, Fresh, Forward, Sound
    <3>. QED
      BY <2>1, <3>1, Answered, OlderGrows
  <2>3. Typed' /\ Forward'
    <3>1. UNCHANGED <<reading, overtaken>> /\ ready'.at \in Int
      BY <1>1, <2>1 DEF NoChunk, sampling
    <3>. QED
      BY <1>1, <2>1, <3>1, Answered DEF SlotInv, Typed, Forward
  <2>4. Fresh'
    BY <1>1, <1>4, <2>1, <2>2, Answered DEF SlotInv, Fresh, NoChunk
  <2>. QED
    BY <1>2, <2>3, <2>4 DEF SlotInv
<1>. QED
  BY <1>3, <1>4 DEF StartClient

LEMMA ProgramSteps ==
  ASSUME Inv, SlotInv,
         StartEpisode \/ ResumeClient \/ Gate \/ StartMirror \/ DiscardEpisode \/ StopClient \/ Stopping
  PROVE  SlotInv'
<1>1. UNCHANGED <<slot, now, drain, hand, epoch, sent, ticks, sampling>>
  BY DEF StartEpisode, ResumeClient, Wake, Gate, StartMirror, DiscardEpisode, StopClient, Stopping,
     Closing, JoinThread, Program, schedule, requests
<1>2. UNCHANGED <<floor, ready>>
  BY DEF StartEpisode, ResumeClient, Gate, StartMirror, DiscardEpisode, StopClient, Stopping,
     Closing, JoinThread, transport, CloseFlags, CloseUnblocks, CloseJoins
<1>3. loop' = "apply" => loop = "apply"
  BY DEF StartEpisode, ResumeClient, Wake, Notify, Gate, StartMirror, DiscardEpisode, StopClient, Stopping,
     Closing, JoinThread
<1>4. MirrorHasChunk'
  BY <1>1 DEF SlotInv, MirrorHasChunk, StartEpisode, ResumeClient, Gate, StartMirror, DiscardEpisode,
     StopClient, Stopping, Closing, JoinThread, EpisodeOver
<1>. QED
  BY <1>1, <1>2, <1>3, <1>4, ElsewhereSlot DEF SlotInv, Typed

LEMMA Pausing == ASSUME Inv, SlotInv, EndEpisode \/ AutoStop PROVE SlotInv' /\ slot'.last = slot.last
<1>1. UNCHANGED <<now, drain, hand, epoch, sent, ticks, floor, ready, sampling>> /\ slot' \in {slot, Clear(slot)}
  BY DEF EndEpisode, AutoStop, Pause, Program, schedule, requests, transport
<1>2. loop' = "apply" => loop = "apply"
  BY DEF EndEpisode, AutoStop, Pause, Notify
<1>3. MirrorHasChunk'
  BY DEF EndEpisode, AutoStop, MirrorHasChunk
<1>4. /\ Forward' /\ slot'.last = slot.last
      /\ \A n \in Nat : Older(slot, n) => Older(slot', n)
  <2>1. Sound(slot)
    BY DEF SlotInv, Forward
  <2>2. Sound(slot') /\ slot'.last = slot.last /\ \A u \in Int : Behind(slot, u) => Behind(slot', u)
    BY <1>1, <2>1, ClearGood
  <2>. QED
    BY <1>1, <2>1, <2>2, KeptForward, ClearGood
<1>5. Fresh'
  <2>1. floor + 1 \in Nat
    BY Answered
  <2>. QED
    BY <1>1, <1>2, <1>4, <2>1, Answered DEF SlotInv, Fresh
<1>. QED
  BY <1>1, <1>3, <1>4, <1>5 DEF SlotInv, Typed, sampling

LEMMA Reading ==
  ASSUME SlotInv, NEW r \in Readers, ReadClock(r)
  PROVE  SlotInv'
<1>1. /\ UNCHANGED <<slot, now, drain, hand, epoch, sent, ticks, floor, ready, loop, at, ended, overtaken>>
      /\ reading' = [reading EXCEPT ![r] = now]
  BY DEF ReadClock, thread, schedule, requests, program, transport
<1>2. Typed'
  BY <1>1 DEF SlotInv, Typed, Never
<1>3. Forward'
  <2>1. \A q \in Readers : reading'[q] \in {reading[q], now}
    BY <1>1 DEF SlotInv, Typed
  <2>. QED
    BY <1>1, <2>1 DEF SlotInv, Forward
<1>. QED
  BY <1>1, <1>2, <1>3 DEF SlotInv, Fresh, MirrorHasChunk

(* A sample for a reading that nobody overtook goes forward, and leaves the slot behind
   the other readings that it does not overtake itself. *)
LEMMA Sampling ==
  ASSUME Inv, SlotInv, NEW r \in Readers, SampleSlot(r)
  PROVE  SlotInv' /\ (slot'.last # slot.last => Later(slot'.last, slot.last) \/ SetBack(r))
<1>. DEFINE t == reading[r]
<1>1. /\ UNCHANGED <<now, drain, hand, epoch, sent, ticks, floor, ready, loop, at, ended>>
      /\ reading' = [reading EXCEPT ![r] = Never]
      /\ overtaken' = (overtaken \union {q \in Readers : Never < reading[q] /\ reading[q] < t}) \ {r}
  BY DEF SampleSlot, thread, schedule, requests, program, transport
<1>2. /\ slot' = Sample(slot, t, blend) /\ blend \in {0, 1} /\ Sound(slot)
      /\ t \in Int /\ t # Never /\ t <= now /\ now \in Int /\ Behind(slot, now)
  BY DEF SampleSlot, NotReading, blend, SlotInv, Typed, Forward
<1>3. /\ Sound(slot')
      /\ slot'.last # slot.last => Later(slot'.last, slot.last) \/ (slot'.last.obs = slot.last.obs /\ ~Behind(slot, t))
      /\ \A u \in Int : t <= u /\ Behind(slot, u) => Behind(slot', u)
      /\ \A n \in Nat : n > 0 /\ Older(slot, n) => Older(slot', n)
      /\ Playing(slot) => Playing(slot')
  <2>. HIDE DEF t
  <2>. QED
    BY <1>2, SampleGood
<1>4. Typed'
  <2>1. \A q \in Readers : reading'[q] \in {reading[q], Never}
    BY <1>1 DEF SlotInv, Typed
  <2>2. reading' \in [Readers -> Int]
    BY <1>1 DEF SlotInv, Typed, Never
  <2>. QED
    BY <1>1, <2>1, <2>2 DEF SlotInv, Typed, Never
<1>5. Forward'
  <2>1. ASSUME NEW q \in Readers, reading'[q] # Never, q \notin overtaken'
        PROVE  Behind(slot', reading'[q])
    <3>1. q # r /\ reading'[q] = reading[q] /\ reading[q] \in Int /\ reading[q] # Never /\ Never <= reading[q]
      BY <1>1, <2>1 DEF SlotInv, Typed
    <3>2. q \notin overtaken /\ ~(Never < reading[q] /\ reading[q] < t)
      BY <1>1, <2>1, <3>1
    <3>3. Never < reading[q]
      BY <3>1 DEF Never
    <3>4. t <= reading[q]
      BY <1>2, <3>1, <3>2, <3>3
    <3>5. Behind(slot, reading[q])
      BY <3>1, <3>2 DEF SlotInv, Forward
    <3>. QED
      BY <1>3, <3>1, <3>4, <3>5
  <2>2. Behind(slot', now')
    BY <1>1, <1>2, <1>3
  <2>. QED
    BY <1>3, <2>1, <2>2 DEF Forward
<1>6. Fresh'
  <2>1. floor + 1 \in Nat /\ floor + 1 > 0
    BY Answered
  <2>. QED
    BY <1>1, <1>3, <2>1, Answered DEF SlotInv, Fresh
<1>7. MirrorHasChunk'
  BY <1>1, <1>3 DEF SlotInv, MirrorHasChunk
<1>8. ~Behind(slot, t) => r \in overtaken
  BY <1>2 DEF SlotInv, Forward
<1>. QED
  BY <1>3, <1>4, <1>5, <1>6, <1>7, <1>8 DEF SlotInv, SetBack

LEMMA Ticking == ASSUME Inv, SlotInv, Tick PROVE SlotInv'
<1>1. UNCHANGED <<slot, drain, hand, epoch, sent, ticks, floor, ready, loop, at, ended, reading, overtaken>> /\ now' = now + 1
  BY DEF Tick, thread, schedule, requests, program, sampling, transport
<1>2. Typed'
  BY <1>1 DEF SlotInv, Typed
<1>3. Forward'
  <2>1. Behind(slot, now + 1)
    BY StaysBehind DEF SlotInv, Typed, Forward
  <2>. QED
    BY <1>1, <2>1 DEF SlotInv, Forward
<1>. QED
  BY <1>1, <1>2, <1>3 DEF SlotInv, Fresh, MirrorHasChunk

(* Every step keeps the invariant, and only a sampler that was overtaken commands an
   older row, of the same chunk. *)
NoOlderRow == slot'.last # slot.last => Later(slot'.last, slot.last) \/ \E r \in Readers : SetBack(r)

LEMMA SlotStep ==
  Inv /\ SlotInv /\ [PolicyNext]_policyVars =>
    SlotInv' /\ NoOlderRow
<1> SUFFICES ASSUME Inv, SlotInv, [PolicyNext]_policyVars
             PROVE  SlotInv' /\ NoOlderRow
  OBVIOUS
<1>. USE DEF NoOlderRow
<1>1. CASE LoopStep
  <2>1. CASE LoopTop \/ LoopChecks \/ LoopSleeps \/ LoopObserves
    <3>1. UNCHANGED slot
      BY <2>1 DEF LoopTop, LoopChecks, LoopSleeps, LoopObserves
    <3>. QED
      BY <2>1, <3>1, LoopAround
  <2>2. CASE LoopPolls
    BY <2>2, Polling DEF LoopPolls
  <2>. QED
    BY <1>1, <2>1, <2>2, Applying DEF LoopStep
<1>2. CASE InTransport
  BY <1>2, Transported DEF InTransport, clientVars
<1>3. CASE StartClient
  BY <1>3, Starting DEF StartClient
<1>4. CASE StartEpisode \/ ResumeClient \/ Gate \/ StartMirror \/ DiscardEpisode \/ StopClient \/ Stopping
  <2>1. UNCHANGED slot
    BY <1>4 DEF StartEpisode, ResumeClient, Wake, Gate, StartMirror, DiscardEpisode, StopClient, Stopping,
       Closing, JoinThread
  <2>. QED
    BY <1>4, <2>1, ProgramSteps
<1>5. CASE EndEpisode \/ AutoStop
  BY <1>5, Pausing
<1>6. CASE \E r \in Readers : ReadCommand(r)
  <2>1. PICK r \in Readers : ReadCommand(r)
    BY <1>6
  <2>2. CASE ReadClock(r)
    BY <2>2, Reading DEF ReadClock
  <2>3. CASE SampleSlot(r)
    BY <2>3, Sampling
  <2>. QED
    BY <2>1, <2>2, <2>3 DEF ReadCommand
<1>7. CASE Tick
  BY <1>7, Ticking DEF Tick
<1>8. CASE UNCHANGED policyVars
  <2>1. UNCHANGED <<slot, now, drain, hand, floor, ready, epoch, sent, ticks, loop, at, ended, reading, overtaken>>
    BY <1>8 DEF policyVars, clientVars, sampling, thread, schedule, requests, program, transport
  <2>. QED
    BY <2>1 DEF SlotInv, Typed, Forward, Fresh, MirrorHasChunk
<1>. QED
  BY <1>1, <1>2, <1>3, <1>4, <1>5, <1>6, <1>7, <1>8 DEF PolicyNext

(* From the box to the hand to the slot the chunks are ordered by age, and what was
   last commanded is behind the slot's clock. *)
THEOREM SlotInvariance == PolicySpec => []SlotInv
BY SlotInitially, SlotStep, PolicyInvariance, PTL DEF PolicySpec

(* A mirror that passed the gate has a chunk until the episode ends. *)
THEOREM MirrorHasChunkHolds == PolicySpec => []MirrorHasChunk
<1>1. SlotInv => MirrorHasChunk
  BY DEF SlotInv
<1>. QED
  BY <1>1, SlotInvariance, PTL

(* The arm is never told a row of an older chunk, whoever samples, however late, and
   whatever arrives; nor an older row of the same chunk by a sampler that no other with
   a later reading of the clock has overtaken: Face::read and current_command(), sample(),
   swap_in() and swap_in_aligned() of action_chunk.hpp. *)
THEOREM RowsForwardHolds == PolicySpec => RowsForward
<1>1. Inv /\ SlotInv /\ [PolicyNext]_policyVars => [NoOlderRow]_policyVars
  BY SlotStep
<1>. QED
  BY <1>1, PolicyInvariance, SlotInvariance, PTL DEF PolicySpec, RowsForward, NoOlderRow

(* With consume-fully, only its clock or a pause ends a chunk: swap_in() and sample(). *)
THEOREM ConsumeFullyHolds == PolicySpec => ConsumeFully
<1>1. SlotInv /\ [PolicyNext]_policyVars =>
        [~Overlap /\ Playing(slot) /\ slot'.latest # slot.latest =>
           Exhausted(slot, now) \/ (active /\ ~active')]_policyVars
  <2> SUFFICES ASSUME SlotInv, PolicyNext, ~Overlap, Playing(slot), slot'.latest # slot.latest, ~Exhausted(slot, now)
               PROVE  active /\ ~active'
    OBVIOUS
  <2>0. slot \in Slots /\ now \in Nat /\ Sound(slot) /\ blend \in {0, 1}
    BY DEF SlotInv, Forward, Sound, Typed, blend
  <2>1. CASE LoopApplies
    <3>1. [slot EXCEPT !.pending = hand.answers].latest = slot.latest
      BY <2>0 DEF Slots
    <3>. QED
      BY <2>1, <3>1 DEF LoopApplies, Queue, SwapIn
  <2>2. CASE \E r \in Readers : ReadCommand(r)
    <3>1. PICK r \in Readers : SampleSlot(r)
      BY <2>2 DEF ReadCommand, ReadClock
    <3>2. reading[r] \in Int /\ ~Exhausted(slot, reading[r])
      <4>1. reading[r] \in Int /\ reading[r] <= now
        BY DEF SlotInv, Typed
      <4>. QED
        BY <2>0, <4>1, RowsAssumption DEF Exhausted, Slots
    <3>3. slot' = Play(slot, reading[r], blend)
      BY <3>1, <3>2 DEF SampleSlot, Sample, Promote
    <3>. QED
      BY <2>0, <3>2, <3>3, PlayGood
  <2>3. CASE EndEpisode \/ AutoStop
    BY <2>3 DEF EndEpisode, AutoStop, Pause
  <2>4. CASE LoopTop \/ LoopChecks \/ LoopSleeps \/ LoopObserves \/ LoopPolls \/ InTransport \/ StartClient
             \/ StartEpisode \/ ResumeClient \/ Gate \/ StartMirror \/ DiscardEpisode \/ StopClient \/ Stopping \/ Tick
    BY <2>4 DEF LoopTop, LoopChecks, LoopSleeps, LoopObserves, LoopPolls, InTransport, clientVars, StartClient,
       StartEpisode, ResumeClient, Wake, Gate, StartMirror, DiscardEpisode, StopClient, Stopping, Closing,
       JoinThread, Tick
  <2>. QED
    BY <2>1, <2>2, <2>3, <2>4 DEF PolicyNext, LoopStep
<1>. QED
  BY <1>1, SlotInvariance, PTL DEF PolicySpec, ConsumeFully
===============================================================================
