------------------------------ MODULE Broadcast ------------------------------
(***************************************************************************)
(* The supervisor's web socket broadcast: the array of clients it sends to *)
(* (WebSocketHandler) and the connections the browsers open and reopen     *)
(* (WebSocketService).  What the messages say belongs to Activity.         *)
(***************************************************************************)
EXTENDS Naturals, Sequences, FiniteSets

CONSTANTS
  Browser,   (* browsers with the web client open                       *)
  MaxConns,  (* (bound) web sockets a browser opens, one after another  *)
  MaxWire    (* (bound) messages on their way to one browser            *)

ASSUME BroadcastAssumption == MaxConns \in Nat \ {0} /\ MaxWire \in Nat

VARIABLES
  clients,   (* the connections in the server's array, in order         *)
  noticed,   (* closed connections in it the server knows to be closed  *)
  conn,      (* the number of the present web socket of a browser       *)
  link,      (* whether that socket is connecting, open, or lost        *)
  hello,     (* whether its "Hello" is due, sent, or was missed         *)
  wire       (* messages on their way to a browser                      *)

broadcastVars == <<clients, noticed, conn, link, hello, wire>>

Connection == Browser \X (1..MaxConns)
Present(b) == <<b, conn[b]>>
Alive(c) == link[c[1]] = "open" /\ Present(c[1]) = c
Positions(c) == {k \in DOMAIN clients : clients[k] = c}

BroadcastTypeOK(Message) ==
  /\ clients \in Seq(Connection)
  /\ noticed \subseteq Connection
  /\ conn \in [Browser -> 1..MaxConns]
  /\ link \in [Browser -> {"connecting", "open", "lost"}]
  /\ hello \in [Browser -> {"due", "sent", "missed"}]
  /\ wire \in [Browser -> Seq(Message)]

BroadcastInit ==
  /\ clients = <<>>
  /\ noticed = {}
  /\ conn = [b \in Browser |-> 1]
  /\ link = [b \in Browser |-> "connecting"]
  /\ hello = [b \in Browser |-> "due"]
  /\ wire = [b \in Browser |-> <<>>]

SocketOpens(b) ==
  /\ link[b] = "connecting"
  /\ link' = [link EXCEPT ![b] = "open"]
  /\ UNCHANGED <<clients, noticed, conn, hello, wire>>

\* Five seconds after connect(): the server pushes a client for the socket.
\* A socket that is still connecting throws, one that was lost sends nothing,
\* and neither is tried again.
SayHello(b) ==
  /\ hello[b] = "due"
  /\ \/ /\ link[b] = "open"
        /\ clients' = Append(clients, Present(b))
        /\ hello' = [hello EXCEPT ![b] = "sent"]
     \/ /\ link[b] # "open"
        /\ hello' = [hello EXCEPT ![b] = "missed"]
        /\ UNCHANGED clients
  /\ UNCHANGED <<noticed, conn, link, wire>>

\* onclose, of an open socket or of one that could not connect.
ConnectionLost(b) ==
  /\ link[b] # "lost" /\ conn[b] < MaxConns
  /\ link' = [link EXCEPT ![b] = "lost"]
  /\ wire' = [wire EXCEPT ![b] = <<>>]
  /\ UNCHANGED <<clients, noticed, conn, hello>>

\* (mutant) the state of the socket is stored as that of the greeting.
ReconnectSwapped(b) ==
  /\ link[b] = "lost" /\ hello[b] # "due"
  /\ conn' = [conn EXCEPT ![b] = @ + 1]
  /\ hello' = [hello EXCEPT ![b] = "connecting"]
  /\ UNCHANGED <<clients, noticed, link, wire>>

\* Fifteen seconds later; the "Hello" timer of the lost socket has fired.
Reconnect(b) ==
  /\ link[b] = "lost" /\ hello[b] # "due"
  /\ conn' = [conn EXCEPT ![b] = @ + 1]
  /\ link' = [link EXCEPT ![b] = "connecting"]
  /\ hello' = [hello EXCEPT ![b] = "due"]
  /\ UNCHANGED <<clients, noticed, wire>>

\* From now on sending to this client throws; until then it is lost silently.
NoticeClose(c) ==
  /\ Positions(c) # {} /\ ~Alive(c) /\ c \notin noticed
  /\ noticed' = noticed \union {c}
  /\ UNCHANGED <<clients, conn, link, hello, wire>>

\* The loop of emit removes a client whose send throws from the array it
\* walks, so that the client after it is passed over.
Visited ==
  LET visited[k \in DOMAIN clients] ==
        k = 1 \/ ~(visited[k - 1] /\ clients[k - 1] \in noticed)
  IN  {k \in DOMAIN clients : visited[k]}

Failing == {clients[k] : k \in Visited} \intersect noticed

\* What is left of the array, in its order (SelectSeq without recursion).
Without(array, removed) ==
  LET kept == {k \in DOMAIN array : array[k] \notin removed}
      rank(k) == Cardinality({j \in kept : j <= k})
  IN  [n \in 1..Cardinality(kept) |-> array[CHOOSE k \in kept : rank(k) = n]]

Receives(b) == link[b] = "open" /\ Positions(Present(b)) \intersect Visited # {}

\* (mutant) the client to remove is looked up by its IP, and all the browsers
\* are on one host.
EmitRemovesByIp(message) ==
  /\ \A b \in Browser : Receives(b) => Len(wire[b]) < MaxWire
  /\ clients' = SubSeq(clients, Cardinality(Failing) + 1, Len(clients))
  /\ noticed' = noticed \ Failing
  /\ wire' = [b \in Browser |-> IF Receives(b) THEN Append(wire[b], message) ELSE wire[b]]
  /\ UNCHANGED <<conn, link, hello>>

Emit(message) ==
  /\ \A b \in Browser : Receives(b) => Len(wire[b]) < MaxWire
  /\ clients' = Without(clients, Failing)
  /\ noticed' = noticed \ Failing
  /\ wire' = [b \in Browser |-> IF Receives(b) THEN Append(wire[b], message) ELSE wire[b]]
  /\ UNCHANGED <<conn, link, hello>>

\* The browser takes the next message off its socket.
Receive(b) ==
  /\ wire[b] # <<>>
  /\ wire' = [wire EXCEPT ![b] = Tail(@)]
  /\ UNCHANGED <<clients, noticed, conn, link, hello>>

ConnectionStep ==
  \/ \E b \in Browser : SocketOpens(b) \/ SayHello(b) \/ ConnectionLost(b) \/ Reconnect(b)
  \/ \E c \in Connection : NoticeClose(c)

\* By itself: any of the messages may be broadcast at any time.
BroadcastNext(Message) ==
  \/ ConnectionStep
  \/ \E message \in Message : Emit(message)
  \/ \E b \in Browser : Receive(b)

\* A browser that has said "Hello" on its open socket is in the array, once,
\* and is not taken for a closed one: whatever clients fail and are removed
\* while emit walks the array, and however often it reconnects, the broadcasts
\* go on reaching it (WebSocketHandler.scala:31, :42-50).
LiveClientsStay ==
  \A b \in Browser : hello[b] = "sent" /\ link[b] = "open" =>
    /\ Cardinality(Positions(Present(b))) = 1
    /\ Present(b) \notin noticed
=============================================================================
