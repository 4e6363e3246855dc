---------------------------- MODULE MCTransport ----------------------------
(* Instances for TLC of the transport of tool calls and of the holder of the     *)
(* model that threads of the same server demand. They share no state, so one    *)
(* run explores them side by side: while one moves, the other rests.            *)
EXTENDS Transport, ModelSlot

CONSTANTS c1, c2, c3, w1, w2, t1, t2, t3

\* a batch of two calls, a resource with a call, and two notifications
MCRequest ==
  [c \in Conn |-> CASE c = c1 -> <<"call", "call">>
                    [] c = c2 -> <<"read", "call">>
                    [] OTHER  -> <<"note", "note">>]

\* which of the two moves is settled at the start
VARIABLE part

ServerInit ==
  /\ part \in {"transport", "slot"}
  /\ Init /\ SlotInit
  /\ part = "transport" => slot = "empty"

\* bound: the proxy gives up on a call or a read of a resource, never on notifications
NotesAwaited == client[c3] = "waiting" /\ client'[c3] = "error" => conn[c3] \in Sent

TransportMoves == part = "transport" /\ Next /\ NotesAwaited /\ UNCHANGED <<slotVars, part>>
SlotMoves == part = "slot" /\ SlotNext /\ UNCHANGED <<vars, part>>

\* the threads that move are scheduled; nothing is asked of those at rest
ServerSpec ==
  /\ ServerInit
  /\ [][TransportMoves \/ SlotMoves]_<<part, vars, slotVars>>
  /\ part = "transport" => Fairness
  /\ \A t \in Thread : WF_slotVars(Demand(t))
=============================================================================
