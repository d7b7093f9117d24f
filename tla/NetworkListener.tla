--------------------------- MODULE NetworkListener ---------------------------
(***************************************************************************)
(* The accept loop of the server (src/network/new-server/listener.cc) and  *)
(* the SessionDispatcher that reads a connection's 4-byte preamble and     *)
(* hands the socket to a TCP or a WebSocket streaming session             *)
(* (session/session_dispatcher.cc).                                        *)
(*                                                                         *)
(* Completion handlers run on the threads of one io_context.  do_read runs *)
(* as one step, except where it blocks its thread: the synchronous        *)
(* read_until of an HTTP upgrade request waits for the client, so it is a *)
(* second step and the thread stays taken in between.  Each client        *)
(* connects once, sends the bytes of its stream in one write, and may hang *)
(* up at any time; a byte is a small integer and the header terminator     *)
(* "\r\n\r\n" one byte, Delim.  The streaming sessions are out of scope:  *)
(* a socket handed to one is "tcp" or "ws".                               *)
(***************************************************************************)
EXTENDS Integers, Sequences, SequencesExt, FiniteSets

CONSTANTS
    Clients,            \* the peers that connect
    Streams,            \* the byte sequences a client may send
    MDB_PREAMBLE,       \* Protocol::MDB_PREAMBLE (protocol.h), a uint32
    HTTP_GET_PREAMBLE,  \* Protocol::HTTP_GET_PREAMBLE, "GET " as a uint32
    Delim,              \* the byte standing for "\r\n\r\n"
    Upgrade,            \* the requests beast's stream.accept accepts
    SetupSteps,         \* the acceptor calls of the constructor, in order
    IoThreads           \* threads running the io_context

VARIABLES
    lstate,      \* "init", "accepting", or "exited" (std::exit in fail)
    armed,       \* an async_accept is outstanding
    conn,        \* client -> where its connection is, see ConnStates
    plan,        \* client -> the stream it will send
    sent,        \* client -> the bytes it has sent
    peer_open,   \* client -> it has not hung up
    why,         \* client -> the reason its socket was closed
    hs_input     \* client -> the buffer handed to stream.accept

net_vars == <<lstate, armed, conn, plan, sent, peer_open, why, hs_input>>

ConnStates == {"idle", "backlog", "reading", "upgrading", "tcp", "ws", "closed"}
Reasons    == {"none", "accept", "preamble", "unknown", "upgrade_read", "handshake"}

(* positions of the terminator read_until looks for *)
UntilDelim(s) == {k \in 1..Len(s) : s[k] = Delim}

-----------------------------------------------------------------------------
(* Mutated forms of mapped definitions, used by PROJECT.json "mutants". *)
Preamble_mut(b) == b[4] * 2^24 + b[3] * 2^16 + b[2] * 2^8 + b[1]
Rearm_mut(ok) == ok
UpgradeBuffers_mut(s) == {SubSeq(s, 5, Len(s))}
ReadUntilReady_mut(c) == UntilDelim(sent[c]) # {}
-----------------------------------------------------------------------------

(* the big-endian uint32 of the first four bytes in the buffer *)
Preamble(b) == b[1] * 2^24 + b[2] * 2^16 + b[3] * 2^8 + b[4]

(* do_accept is called again after every completion, error or not *)
Rearm(ok) == TRUE

(* read_until returns: the terminator has arrived, or end of stream *)
ReadUntilReady(c) == UntilDelim(sent[c]) # {} \/ ~peer_open[c]

(* the streambuf after read_until: the committed preamble and what was   *)
(* read after it, at least up to the terminator; read_until may read past *)
(* it, and stream.accept takes the rest as the first WebSocket bytes      *)
UpgradeBuffers(s) == {SubSeq(s, 1, k) : k \in Min(UntilDelim(s))..Len(s)}

(* beast parses the HTTP request up to the first terminator *)
Request(buf) == SubSeq(buf, 1, Min(UntilDelim(buf)))

(* threads not blocked in a read_until *)
FreeThreads == IoThreads - Cardinality({c \in Clients : conn[c] = "upgrading"})

Close(c, reason) == conn' = [conn EXCEPT ![c] = "closed"] /\ why' = [why EXCEPT ![c] = reason]

NetInit ==
    /\ lstate = "init" /\ armed = FALSE
    /\ conn = [c \in Clients |-> "idle"]
    /\ plan \in [Clients -> Streams]
    /\ sent = [c \in Clients |-> <<>>]
    /\ peer_open = [c \in Clients |-> TRUE]
    /\ why = [c \in Clients |-> "none"]
    /\ hs_input = [c \in Clients |-> <<>>]

-----------------------------------------------------------------------------
(* Listener's constructor (open, set_option, bind, listen; any of them   *)
(* may fail, and fail() exits the process), then run(): do_accept().     *)
Start ==
    /\ lstate = "init"
    /\ \/ lstate' = "accepting" /\ armed' = TRUE
       \/ \E step \in SetupSteps : lstate' = "exited" /\ UNCHANGED armed
    /\ UNCHANGED <<conn, plan, sent, peer_open, why, hs_input>>

(* the client's connect completes into the listen backlog *)
Connect(c) ==
    /\ lstate = "accepting" /\ conn[c] = "idle"
    /\ conn' = [conn EXCEPT ![c] = "backlog"]
    /\ UNCHANGED <<lstate, armed, plan, sent, peer_open, why, hs_input>>

(* the client writes its stream *)
Send(c) ==
    /\ conn[c] # "idle" /\ peer_open[c] /\ sent[c] = <<>> /\ plan[c] # <<>>
    /\ sent' = [sent EXCEPT ![c] = plan[c]]
    /\ UNCHANGED <<lstate, armed, conn, plan, peer_open, why, hs_input>>

(* the client closes or resets its end *)
Hangup(c) ==
    /\ conn[c] # "idle" /\ peer_open[c]
    /\ peer_open' = [peer_open EXCEPT ![c] = FALSE]
    /\ UNCHANGED <<lstate, armed, conn, plan, sent, why, hs_input>>

(* The async_accept handler: on success a SessionDispatcher is made and  *)
(* runs, which starts the async_read of sizeof(uint32_t) bytes; an       *)
(* accept of a connection the peer already reset may fail.  Either way   *)
(* do_accept() is called again.                                          *)
Accept(c) ==
    /\ lstate = "accepting" /\ armed /\ FreeThreads > 0
    /\ conn[c] = "backlog"
    /\ \E ok \in IF peer_open[c] THEN {TRUE} ELSE BOOLEAN :
         /\ IF ok THEN conn' = [conn EXCEPT ![c] = "reading"] /\ UNCHANGED why
            ELSE Close(c, "accept")
         /\ armed' = Rearm(ok)
    /\ UNCHANGED <<lstate, plan, sent, peer_open, hs_input>>

(* SessionDispatcher::do_read: the read of four bytes completes, or fails *)
(* because the peer hung up first; the preamble picks the session.  For   *)
(* "GET " the handler goes on to the blocking read_until (ReadUntil).    *)
DoRead(c) ==
    /\ conn[c] = "reading" /\ FreeThreads > 0
    /\ Len(sent[c]) >= 4 \/ ~peer_open[c]
    /\ IF Len(sent[c]) < 4 THEN Close(c, "preamble")
       ELSE CASE Preamble(sent[c]) = MDB_PREAMBLE ->
                   conn' = [conn EXCEPT ![c] = "tcp"] /\ UNCHANGED why
              [] Preamble(sent[c]) = HTTP_GET_PREAMBLE ->
                   conn' = [conn EXCEPT ![c] = "upgrading"] /\ UNCHANGED why
              [] OTHER -> Close(c, "unknown")
    /\ UNCHANGED <<lstate, armed, plan, sent, peer_open, hs_input>>

(* read_until returns once the terminator has arrived, or with an error  *)
(* at end of stream; then stream.accept(buffer.data()) does the           *)
(* WebSocket handshake on what the streambuf holds; writing its response *)
(* to a peer that is gone may fail.                                       *)
ReadUntil(c) ==
    /\ conn[c] = "upgrading"
    /\ ReadUntilReady(c)
    /\ IF UntilDelim(sent[c]) = {}
       THEN Close(c, "upgrade_read") /\ UNCHANGED hs_input
       ELSE \E buf \in UpgradeBuffers(sent[c]) :
            /\ hs_input' = [hs_input EXCEPT ![c] = buf]
            /\ \E wrote \in IF peer_open[c] THEN {TRUE} ELSE BOOLEAN :
                 IF Request(buf) \in Upgrade /\ wrote THEN conn' = [conn EXCEPT ![c] = "ws"] /\ UNCHANGED why
                 ELSE Close(c, "handshake")
    /\ UNCHANGED <<lstate, armed, plan, sent, peer_open>>

ClientStep(c) == Connect(c) \/ Send(c) \/ Hangup(c)
ServerStep(c) == Accept(c) \/ DoRead(c) \/ ReadUntil(c)

NetNext == Start \/ \E c \in Clients : ClientStep(c) \/ ServerStep(c)

(* The io_context runs every completion whose handler can run.  Nothing *)
(* makes a client send or hang up.                                        *)
NetFairness == WF_net_vars(Start) /\ \A c \in Clients : WF_net_vars(ServerStep(c))

NetSpec == NetInit /\ [][NetNext]_net_vars /\ NetFairness

(* every client eventually writes its stream and eventually hangs up *)
ClientsFinish == \A c \in Clients : WF_net_vars(Send(c)) /\ WF_net_vars(Hangup(c))

-----------------------------------------------------------------------------
NetTypeOK ==
    /\ lstate \in {"init", "accepting", "exited"} /\ armed \in BOOLEAN
    /\ conn \in [Clients -> ConnStates] /\ why \in [Clients -> Reasons]
    /\ \A c \in Clients : sent[c] \in {<<>>, plan[c]} /\ IsPrefix(hs_input[c], sent[c])
    /\ FreeThreads >= 0

(* the four bytes of a uint32 as they travel, most significant first *)
Wire(n) == [k \in 1..4 |-> (n \div 2^(8 * (4 - k))) % 2^8]

(* The dispatcher routes by what the client sent: a TCP session only for *)
(* a client whose first four bytes are the MDB preamble, the upgrade path *)
(* only for one that sent "GET ", and "Unknown client type" only for one  *)
(* that sent neither.                                                     *)
RoutedByPreamble ==
    \A c \in Clients :
        LET head == SubSeq(sent[c], 1, 4) IN
        /\ conn[c] = "tcp" => head = Wire(MDB_PREAMBLE)
        /\ conn[c] \in {"upgrading", "ws"} => head = Wire(HTTP_GET_PREAMBLE)
        /\ why[c] = "unknown" => head \notin {Wire(MDB_PREAMBLE), Wire(HTTP_GET_PREAMBLE)}

AcceptLoopLives == \A c \in Clients : conn[c] = "backlog" ~> conn[c] # "backlog"

(* The accept loop stops only where a read_until holds every io thread:  *)
(* a client stays in the backlog for ever only if from some point on no   *)
(* thread is free, whatever failed before it.                             *)
StallOnlyByUpgrades ==
    \A c \in Clients : <>[](conn[c] = "backlog") => <>[](FreeThreads = 0)

(* If every client eventually sends and hangs up, every accepted          *)
(* connection is eventually handed to a session or closed: neither the   *)
(* preamble read nor the upgrade read waits for ever on a client that has *)
(* hung up.                                                               *)
EverySettled ==
    ClientsFinish =>
        \A c \in Clients : conn[c] \in {"reading", "upgrading"} ~> conn[c] \in {"tcp", "ws", "closed"}
=============================================================================
