-------------------------- MODULE MC_ThreadProgress --------------------------
(* The two components whose threads wait on one another, checked in one  *)
(* model: workers calling the shared pool of unversioned     *)
(* pages behind up_mutex, and the io_context threads that run the         *)
(* listener's accept loop and the session dispatcher.  They share no      *)
(* state, so the model is their sum: component is chosen once, the chosen *)
(* one runs from any of its initial states and the other stays at one of  *)
(* its own.  The instances are those of MC_UnversionedBufferPool and      *)
(* MC_NetworkListener.                                                     *)
EXTENDS MC_UnversionedBufferPool, MC_NetworkListener

VARIABLE component

(* the idle listener: no client has anything to send *)
IdleListener == plan = [c \in Clients |-> <<>>]

MCInit ==
    /\ Init /\ NetInit
    /\ \/ component = "pool" /\ IdleListener
       \/ component = "net"

all_vars == <<vars, net_vars, component>>

PoolStep(A) == component = "pool" /\ A /\ UNCHANGED <<net_vars, component>>
NetStep(A)  == component = "net" /\ A /\ UNCHANGED <<vars, component>>

MCNext == PoolStep(Next) \/ NetStep(NetNext)

(* NetSpec's fairness, for the steps of the listener: the io_context runs *)
(* every handler that can run.  The pool's properties are all safety.     *)
MCFairness ==
    /\ WF_all_vars(NetStep(Start))
    /\ \A c \in Clients : WF_all_vars(NetStep(ServerStep(c)))

MCSpec == MCInit /\ [][MCNext]_all_vars /\ MCFairness
=============================================================================
