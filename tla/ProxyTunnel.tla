---------------------------- MODULE ProxyTunnel -----------------------------
(***************************************************************************)
(* One connection through network-proxy: handle_client, handle_http_proxy, *)
(* handle_connect and proxy_tunnel (proxy.c), with a client and an upstream *)
(* that send, stop sending and leave at any time.  Data is numbered units; *)
(* unit 0 of the client's stream is its request, unit 0 of the stream to it  *)
(* the answer to CONNECT.  recv takes any number of units, in order; send  *)
(* passes on any number, or fails once the peer has left.                  *)
(***************************************************************************)
EXTENDS Integers, SequencesExt

CONSTANTS
    MaxUp,      \* units the client sends after its request
    MaxDown,    \* units the upstream sends
    Timeouts    \* whether 30 seconds may pass without data

VARIABLES
    kind,       \* the request: "blank", "bad", "http", "connect"
    pc,         \* of the worker
    ready,      \* what select reported: subset of {"client", "upstream"}
    buffer,     \* what was received and is not yet sent
    client,     \* the client's side: "open", "shut" (sends no more), "left"
    upstream,   \* the upstream's: also "none"
    fromClient, fromUp,    \* in flight to the proxy
    toClient, toUp,        \* received by each side
    sentByClient, sentByUp,
    clientFd, upFd,        \* the proxy's descriptors: "none", "open", "closed"
    why,        \* why the tunnel ended
    active      \* stats.active_connections

streams == <<fromClient, fromUp, toClient, toUp, sentByClient, sentByUp>>
peers == <<client, upstream>>
fds == <<clientFd, upFd>>
vars == <<kind, pc, ready, buffer, peers, streams, fds, why, active>>

Init ==
    /\ kind \in {"blank", "bad", "http", "connect"}
    /\ pc = "recv" /\ ready = {} /\ buffer = <<>>
    /\ client = "open" /\ upstream = "none"
    /\ fromClient \in {<<>>, <<0>>} /\ fromUp = <<>> /\ toClient = <<>> /\ toUp = <<>>
    /\ sentByClient = 0 /\ sentByUp = 0
    /\ clientFd = "open" /\ upFd = "none"
    /\ why = "" /\ active = 0

-----------------------------------------------------------------------------
(* The peers.                                                              *)

ClientSends ==
    /\ client = "open" /\ sentByClient < MaxUp
    /\ pc = "recv" => fromClient # <<>>
    /\ sentByClient' = sentByClient + 1
    /\ fromClient' = Append(fromClient, sentByClient + 1)
    /\ UNCHANGED <<kind, pc, ready, buffer, peers, fromUp, toClient, toUp, sentByUp, fds, why, active>>

UpSends ==
    /\ upstream = "open" /\ sentByUp < MaxDown
    /\ sentByUp' = sentByUp + 1
    /\ fromUp' = Append(fromUp, sentByUp + 1)
    /\ UNCHANGED <<kind, pc, ready, buffer, peers, fromClient, toClient, toUp, sentByClient, fds, why, active>>

ClientEnds ==
    /\ \/ client = "open" /\ client' = "shut"
       \/ client \in {"open", "shut"} /\ client' = "left"
    /\ UNCHANGED <<kind, pc, ready, buffer, upstream, streams, fds, why, active>>

UpEnds ==
    /\ \/ upstream = "open" /\ upstream' = "shut"
       \/ upstream \in {"open", "shut"} /\ upstream' = "left"
    /\ UNCHANGED <<kind, pc, ready, buffer, client, streams, fds, why, active>>

-----------------------------------------------------------------------------
(* handle_client up to the tunnel.                                         *)

\* The first recv; a client that ends without a request gets its descriptor closed.
Receive ==
    /\ pc = "recv"
    /\ IF client # "open" /\ fromClient = <<>>
       THEN clientFd' = "closed" /\ pc' = "done" /\ UNCHANGED <<fromClient, active>>
       ELSE /\ fromClient # <<>>
            /\ fromClient' = Tail(fromClient)
            /\ active' = active + 1
            /\ pc' = CASE kind = "blank" -> "leave" [] kind = "bad" -> "refuse" [] OTHER -> "connect"
            /\ UNCHANGED clientFd
    /\ UNCHANGED <<kind, ready, buffer, peers, fromUp, toClient, toUp, sentByClient, sentByUp, upFd, why>>

\* proxy_send_error and close: 400, or 502 after a failed connect.
Refuse ==
    /\ pc \in {"refuse", "connect"}
    /\ clientFd' = "closed"
    /\ pc' = "leave"
    /\ UNCHANGED <<kind, ready, buffer, peers, streams, upFd, why, active>>

\* Connected: the request is passed on, or CONNECT is answered.
Connect ==
    /\ pc = "connect"
    /\ upFd' = "open" /\ upstream' = "open"
    /\ IF kind = "http" THEN toUp' = <<0>> /\ UNCHANGED toClient
       ELSE toClient' = <<0>> /\ UNCHANGED toUp
    /\ pc' = "select"
    /\ UNCHANGED <<kind, ready, buffer, client, fromClient, fromUp, sentByClient, sentByUp, clientFd, why, active>>

-----------------------------------------------------------------------------
(* proxy_tunnel                                                            *)

Readable == (IF fromClient # <<>> \/ client # "open" THEN {"client"} ELSE {})
       \cup (IF fromUp # <<>> \/ upstream # "open" THEN {"upstream"} ELSE {})

Select ==
    /\ pc = "select"
    /\ Readable # {}
    /\ ready' = Readable
    /\ pc' = IF "client" \in Readable THEN "client" ELSE "upstream"
    /\ UNCHANGED <<kind, buffer, peers, streams, fds, why, active>>

\* The tunnel returns and both descriptors are closed.
End(reason) ==
    /\ why' = reason
    /\ pc' = "leave"
    /\ clientFd' = "closed" /\ upFd' = "closed"
    /\ buffer' = <<>> /\ ready' = {}

Timeout ==
    /\ Timeouts /\ pc = "select" /\ Readable = {}
    /\ End("timeout")
    /\ UNCHANGED <<kind, peers, streams, active>>

\* Mutant: the end of a stream is taken from select before its data is read.
RecvEagerEof(side, stream, state) ==
    IF state # "open" THEN End(side) /\ UNCHANGED stream
    ELSE \E n \in 1 .. Len(stream) :
            /\ buffer' = SubSeq(stream, 1, n)
            /\ stream' = SubSeq(stream, n + 1, Len(stream))
            /\ pc' = IF side = "client" THEN "sendUp" ELSE "sendDown"
            /\ UNCHANGED <<ready, fds, why>>

\* recv: data first, then the end of the stream.
Recv(side, stream, state) ==
    IF stream = <<>> THEN End(side) /\ UNCHANGED stream
    ELSE \E n \in 1 .. Len(stream) :
            /\ buffer' = SubSeq(stream, 1, n)
            /\ stream' = SubSeq(stream, n + 1, Len(stream))
            /\ pc' = IF side = "client" THEN "sendUp" ELSE "sendDown"
            /\ UNCHANGED <<ready, fds, why>>

RecvClient ==
    /\ pc = "client"
    /\ Recv("client", fromClient, client)
    /\ UNCHANGED <<kind, peers, fromUp, toClient, toUp, sentByClient, sentByUp, active>>

RecvUp ==
    /\ pc = "upstream"
    /\ Recv("upstream", fromUp, upstream)
    /\ UNCHANGED <<kind, peers, fromClient, toClient, toUp, sentByClient, sentByUp, active>>

\* One send of the loop; the rest is sent by the next one.
Send(stream, next) ==
    \E n \in 1 .. Len(buffer) :
        /\ stream' = stream \o SubSeq(buffer, 1, n)
        /\ buffer' = SubSeq(buffer, n + 1, Len(buffer))
        /\ pc' = IF n = Len(buffer) THEN next ELSE pc

SendUp ==
    /\ pc = "sendUp"
    /\ \/ /\ Send(toUp, IF "upstream" \in ready THEN "upstream" ELSE "select")
          /\ UNCHANGED <<ready, fds, why>>
       \/ upstream = "left" /\ End("send") /\ UNCHANGED toUp
    /\ UNCHANGED <<kind, peers, fromClient, fromUp, toClient, sentByClient, sentByUp, active>>

SendDown ==
    /\ pc = "sendDown"
    /\ \/ Send(toClient, "select") /\ UNCHANGED <<ready, fds, why>>
       \/ client = "left" /\ End("send") /\ UNCHANGED toClient
    /\ UNCHANGED <<kind, peers, fromClient, fromUp, toUp, sentByClient, sentByUp, active>>

\* The end of handle_client.
Leave ==
    /\ pc = "leave"
    /\ active' = active - 1
    /\ pc' = "done"
    /\ UNCHANGED <<kind, ready, buffer, peers, streams, fds, why>>

Worker == Receive \/ Refuse \/ Connect \/ Select \/ Timeout \/ RecvClient \/ RecvUp \/ SendUp \/ SendDown \/ Leave
Next == Worker \/ ClientSends \/ UpSends \/ ClientEnds \/ UpEnds

Spec == Init /\ [][Next]_vars
Fairness == WF_vars(Worker)

-----------------------------------------------------------------------------
\* A reply that the upstream ends by closing reaches the client completely: the
\* tunnel that ends for the upstream's end has passed on all it sent.
ReplyComplete ==
    why = "upstream" => Len(toClient) = sentByUp + (IF kind = "connect" THEN 1 ELSE 0)
=============================================================================
