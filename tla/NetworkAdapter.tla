--------------------------- MODULE NetworkAdapter ---------------------------
(***************************************************************************)
(* One bounded exchange over TCP: aios-adapter-network/src/lib.rs.         *)
(*                                                                         *)
(* Requests and responses are counted in bytes.  The peer is external: it  *)
(* may answer with any number of bytes, in any pieces, close, stall, or    *)
(* break the connection.                                                   *)
(***************************************************************************)
EXTENDS AdapterCall, CapabilityMatching

CONSTANTS Hosts, Ports,
          MaxRequest,    \* MAX_TCP_REQUEST_BYTES
          MaxResponse,   \* MAX_TCP_RESPONSE_BYTES
          BufferBytes    \* the read buffer of read_response

VARIABLE conn    \* [request, sent, reply, received] of the last exchange

NoConnection == [request |-> 0, sent |-> 0, reply |-> 0, received |-> 0]

ValidateExchange(host, port, request) ==
  /\ host.ip
  /\ port # 0
  /\ request <= MaxRequest

\* prepare_tcp_exchange, and the gate: the policy has allowed the destination.
\* reply is what the peer will send before it closes.
RequestExchange(t, host, port, request, reply) ==
  /\ t \in Active
  /\ ValidateExchange(host, port, request)
  /\ EvaluateNetwork(spec[t], host, port) # "Deny"
  /\ BeginCall("network", t, "execute")
  /\ conn' = [request |-> request, sent |-> 0, reply |-> reply, received |-> 0]
  /\ UNCHANGED <<lifecycle, elapsed>>

networkUnchanged == UNCHANGED <<lifecycle, elapsed, conn>>

ExecuteExchange ==
  /\ At("network", "execute")
  /\ CheckBudget("connect")
  /\ networkUnchanged

\* connect_timeout.
Connect ==
  /\ At("network", "connect")
  /\ \/ GotoAfterEffect("connected")
     \/ IoFailure("ConnectFailed")
  /\ networkUnchanged

\* The peer's address is the one asked for, or peer_addr fails.
VerifyPeer ==
  /\ At("network", "connected")
  /\ IF BudgetLeft THEN Goto("write") \/ Return("PeerMismatch")
     ELSE Return("BudgetExceeded")
  /\ networkUnchanged

\* The head of the loop of write_request, or what follows the loop.
CheckBeforeSend ==
  /\ At("network", "write")
  /\ CheckBudget(IF conn.sent < conn.request THEN "send" ELSE "shutdown")
  /\ networkUnchanged

\* set_write_timeout and write: any number of the bytes left is taken.
Send ==
  /\ At("network", "send")
  /\ \/ \E n \in 1..(conn.request - conn.sent) :
          conn' = [conn EXCEPT !.sent = @ + n] /\ Goto("write")
     \/ /\ \/ IoFailure("SocketConfigurationFailed")
           \/ IoFailure("WriteFailed")
           \/ Return("WriteFailed")
        /\ UNCHANGED conn
  /\ UNCHANGED <<lifecycle, elapsed>>

ShutdownWrite ==
  /\ At("network", "shutdown")
  /\ Goto("read") \/ IoFailure("WriteFailed")
  /\ networkUnchanged

\* The head of the loop of read_response.
CheckBeforeReceive ==
  /\ At("network", "read")
  /\ CheckBudget("receive")
  /\ networkUnchanged

\* Mutant: the extra byte is not asked for, and a read of no bytes passes for
\* the end of the stream.
ReadLimitExact == Min({MaxResponse - conn.received, BufferBytes})

\* One byte more than the limit is asked for: it tells a response that fills
\* the limit from one that exceeds it.
ReadLimit == Min({MaxResponse + 1 - conn.received, BufferBytes})

\* set_read_timeout and read.  No bytes: the peer has closed, or none were
\* asked for.
Receive ==
  /\ At("network", "receive")
  /\ \/ \E n \in 1..Min({ReadLimit, conn.reply - conn.received}) :
          /\ conn' = [conn EXCEPT !.received = @ + n]
          /\ IF conn.received + n > MaxResponse THEN Return("ResponseTooLarge")
             ELSE Goto("read")
     \/ /\ conn.received = conn.reply \/ ReadLimit = 0
        /\ IF BudgetLeft THEN Return("Ok") ELSE Return("BudgetExceeded")
        /\ UNCHANGED conn
     \/ /\ \/ IoFailure("SocketConfigurationFailed")
           \/ IoFailure("ReadFailed")
        /\ UNCHANGED conn
  /\ UNCHANGED <<lifecycle, elapsed>>

NetworkStep ==
  \/ ExecuteExchange
  \/ Connect
  \/ VerifyPeer
  \/ CheckBeforeSend
  \/ Send
  \/ ShutdownWrite
  \/ CheckBeforeReceive
  \/ Receive

=============================================================================
