------------------------------- MODULE Actors -------------------------------
(***************************************************************************)
(* The actors of examples/executor/actor.cpp, and its ring of members that *)
(* pass tokens on until these are worth nothing, and a receiver of main's. *)
(* A message is a function that is posted to the strand of the actor it is *)
(* for: an actor handles its messages one at a time, as they were sent.    *)
(* Handling one is a loop over handlers_, a vector, in which any handler   *)
(* may register and deregister handlers.                                   *)
(***************************************************************************)
EXTENDS Integers, Sequences, FiniteSets
Vectors == INSTANCE SequencesExt

CONSTANTS Ring,       \* number of members
          TokenValue

ASSUME ActorsAssumption == Ring \in Nat /\ TokenValue \in Nat

Members == 1 .. Ring
Receiver == 0
Addresses == Members \cup {Receiver}

VARIABLES strands,    \* per actor: the messages that its strand has to run
          handling,   \* per actor: the message it is handling
          loop,       \* per actor: call_handler's loop: the handler it has come to,
                      \* and the end of the vector when the loop began
          handlers,   \* per actor: handlers_
          moved,      \* actors whose vector was reallocated since the loop began
          nextMember, \* per member: next_, or "unset"
          caller,     \* per member: caller_, or "unset"
          received,   \* message_queue_ of the receiver: how many
          sent,       \* messages main has sent
          waits,      \* rcvr.wait() calls of main that have returned
          destroyed,  \* main has left, and the actors with it
          wild        \* a handler was read where the vector is no more

actorVars == <<strands, handling, loop, handlers, moved, nextMember, caller, received,
               sent, waits, destroyed, wild>>

Nothing == [kind |-> "none", value |-> 0, from |-> Receiver]
Handles == {"init_handler", "token_handler", "message_handler"}

ActorInit ==
  /\ strands = [a \in Addresses |-> <<>>] /\ handling = [a \in Addresses |-> Nothing]
  /\ loop = [a \in Addresses |-> [index |-> 0, end |-> 0]]
  /\ handlers = [a \in Addresses |-> IF a = Receiver THEN <<"message_handler">> ELSE <<"init_handler">>]
  /\ moved = {} /\ nextMember = [m \in Members |-> Receiver] /\ caller = [m \in Members |-> Receiver]
  /\ received = 0 /\ sent = 0 /\ waits = 0 /\ destroyed = FALSE /\ wild = FALSE

----------------------------------------------------------------------------
(* actor.                                                                  *)

\* The type of message that a handler is for, and of which typeid.
MessageOf(h) == IF h = "init_handler" THEN "address" ELSE "int"
MessageId(h) == <<"Message", MessageOf(h)>>

Send(message, to) == strands' = [strands EXCEPT ![to] = Append(@, message)]
TailSend(message, to) == Send(message, to)

\* One past the capacity, which doubles: the handlers are elsewhere afterwards.
Reallocates(n) == n \in {1, 2, 4}

Registered(s, h) == Append(s, h)

\* The loop asks for typeid(message_handler<Message>), which no message_id() is.
IdOf(h) == <<"message_handler", MessageOf(h)>>
Deregistered(s, h) ==
  LET found == {i \in 1 .. Len(s) : MessageId(s[i]) = IdOf(h) /\ s[i] = h}
  IN  IF found = {} THEN s ELSE Vectors!RemoveAt(s, CHOOSE i \in found : \A j \in found : i <= j)

\* The strand runs the next message.
CallHandler(a) ==
  /\ handling[a] = Nothing /\ strands[a] # <<>>
  /\ handling' = [handling EXCEPT ![a] = Head(strands[a])]
  /\ strands' = [strands EXCEPT ![a] = Tail(@)]
  /\ loop' = [loop EXCEPT ![a] = [index |-> 1, end |-> Len(handlers[a])]]
  /\ moved' = moved \ {a}
  /\ UNCHANGED <<handlers, nextMember, caller, received, sent, waits, destroyed, wild>>

\* mutant: the loop goes on as long as there are handlers
LiveEnd(a) == Len(handlers[a])
LoopEnd(a) == loop[a].end

\* The loop's head: the end, or a handler that is read.
More(a) == handling[a] # Nothing /\ loop[a].index <= LoopEnd(a)
Reads(a) == wild' = (wild \/ a \in moved \/ destroyed)
Advance(a) == loop' = [loop EXCEPT ![a].index = @ + 1]
Matches(a) == MessageId(handlers[a][loop[a].index]) = <<"Message", handling[a].kind>>
Handler(a) == handlers[a][loop[a].index]

SkipHandler(a) ==
  /\ More(a) /\ ~Matches(a) /\ Reads(a) /\ Advance(a)
  /\ UNCHANGED <<strands, handling, handlers, moved, nextMember, caller, received, sent, waits, destroyed>>

EndLoop(a) ==
  /\ handling[a] # Nothing /\ ~More(a)
  /\ handling' = [handling EXCEPT ![a] = Nothing]
  /\ UNCHANGED <<strands, loop, handlers, moved, nextMember, caller, received, sent, waits, destroyed, wild>>

----------------------------------------------------------------------------
(* member and receiver: their handlers.                                    *)

InitHandler(a) ==
  /\ More(a) /\ Matches(a) /\ Handler(a) = "init_handler" /\ Reads(a) /\ Advance(a)
  /\ nextMember' = [nextMember EXCEPT ![a] = handling[a].value]
  /\ caller' = [caller EXCEPT ![a] = handling[a].from]
  /\ handlers' = [handlers EXCEPT ![a] = Deregistered(Registered(@, "token_handler"), "init_handler")]
  /\ moved' = IF Reallocates(Len(handlers[a])) THEN moved \cup {a} ELSE moved
  /\ UNCHANGED <<strands, handling, received, sent, waits, destroyed>>

TokenHandler(a) ==
  /\ More(a) /\ Matches(a) /\ Handler(a) = "token_handler" /\ Reads(a) /\ Advance(a)
  /\ LET token == handling[a].value
     IN  IF token > 0
         THEN TailSend([kind |-> "int", value |-> token - 1, from |-> a], nextMember[a])
         ELSE TailSend([kind |-> "int", value |-> token, from |-> a], caller[a])
  /\ UNCHANGED <<handling, handlers, moved, nextMember, caller, received, sent, waits, destroyed>>

\* It holds the receiver's mutex, and notifies main.
MessageHandler(a) ==
  /\ More(a) /\ Matches(a) /\ Handler(a) = "message_handler" /\ Reads(a) /\ Advance(a)
  /\ received' = received + 1
  /\ UNCHANGED <<strands, handling, handlers, moved, nextMember, caller, sent, waits, destroyed>>

----------------------------------------------------------------------------
(* main.                                                                   *)

\* The members from the last to the first learn who is next; then each of them
\* is sent a token.
MainSend ==
  /\ sent < 2 * Ring /\ sent' = sent + 1
  /\ IF sent < Ring
     THEN Send([kind |-> "address", value |-> IF sent = 0 THEN 1 ELSE Ring - sent + 1,
                from |-> Receiver], Ring - sent)
     ELSE Send([kind |-> "int", value |-> TokenValue, from |-> Receiver], sent - Ring + 1)
  /\ UNCHANGED <<handling, loop, handlers, moved, nextMember, caller, received, waits, destroyed, wild>>

MainWait ==
  /\ sent = 2 * Ring /\ waits < Ring /\ received > 0
  /\ received' = received - 1 /\ waits' = waits + 1
  /\ UNCHANGED <<strands, handling, loop, handlers, moved, nextMember, caller, sent, destroyed, wild>>

\* The receiver goes first, the pools last: handlers may be running yet.
MainLeaves ==
  /\ waits = Ring /\ ~destroyed /\ destroyed' = TRUE
  /\ UNCHANGED <<strands, handling, loop, handlers, moved, nextMember, caller, received, sent, waits, wild>>

ActorNext ==
  \/ MainSend \/ MainWait \/ MainLeaves
  \/ \E a \in Members : InitHandler(a) \/ TokenHandler(a) \/ SkipHandler(a)
  \/ MessageHandler(Receiver)
  \/ \E a \in Addresses : CallHandler(a) \/ EndLoop(a)

ActorSpec == ActorInit /\ [][ActorNext]_actorVars

----------------------------------------------------------------------------
(* Properties.                                                             *)

ActorTypeOK ==
  /\ \A a \in Addresses : handlers[a] \in Seq(Handles) /\ Len(strands[a]) <= 2 * Ring
  /\ moved \subseteq Addresses /\ nextMember \in [Members -> Addresses]
  /\ caller \in [Members -> {Receiver}]
  /\ received \in 0 .. Ring /\ sent \in 0 .. 2 * Ring /\ waits \in 0 .. Ring
  /\ destroyed \in BOOLEAN /\ wild \in BOOLEAN

\* The tokens and the messages for main that a strand has to run, and those that
\* the loop has not taken to their handler yet.
TokensIn(q) ==
  {p \in UNION {{a} \X (1 .. Len(q[a])) : a \in Addresses} : q[p[1]][p[2]].kind = "int"}
AtHand == {a \in Addresses : handling[a].kind = "int" /\ loop[a].index <= Len(handlers[a])}

\* No token gets lost or is doubled, as it would be if a member had none or two
\* handlers for it when it came: whatever strand runs first, what main has sent
\* is with the members, or was received.  And call_handler reads no handler of a
\* vector that a handler has reallocated meanwhile, or that main has destroyed
\* (actor.cpp:122-165, 227-248, 271-281).
TokensKept ==
  /\ Cardinality(TokensIn(strands)) + Cardinality(AtHand) + received + waits = (IF sent < Ring THEN 0 ELSE sent - Ring)
  /\ ~wild

\* "Deregister a handler. Removes only the first matching handler." (actor.cpp:120)
\* A member has deregistered its init_handler by the time it has handled it.
InitDeregistered ==
  \A m \in Members : handling[m] = Nothing /\ "token_handler" \in {handlers[m][i] : i \in 1 .. Len(handlers[m])}
    => "init_handler" \notin {handlers[m][i] : i \in 1 .. Len(handlers[m])}
=============================================================================
