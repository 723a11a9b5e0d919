--------------------------- MODULE BroadcastProofs ---------------------------
(***************************************************************************)
(* Safety of the web socket broadcast, for any number of browsers, web     *)
(* sockets and messages: what emit removes from the array it walks is gone *)
(* from it, and a client that is connected is not.                         *)
(***************************************************************************)
EXTENDS MCBroadcast, FiniteSetTheorems, FunctionTheorems, SequenceTheorems, TLAPS

-----------------------------------------------------------------------------
(* The inductive invariant *)

\* A client of the server: a web socket of the past, or one that said "Hello".
Known(c) == c[2] < conn[c[1]] \/ (Present(c[1]) = c /\ hello[c[1]] = "sent")

\* Each web socket is in the array once.
ClientsDiffer == \A i, j \in DOMAIN clients : clients[i] = clients[j] => i = j

\* Nothing is in the array, or known to be closed, before it said "Hello"; what
\* is known to be closed is.
ClientsSaidHello ==
  /\ \A k \in DOMAIN clients : Known(clients[k])
  /\ \A c \in noticed : Known(c) /\ ~Alive(c)

\* "Hello" went over a socket that was open, and brought it into the array.
GreetedAreListed ==
  \A b \in Browser : hello[b] = "sent" =>
    /\ link[b] # "connecting"
    /\ link[b] = "open" => \E k \in DOMAIN clients : clients[k] = Present(b)

\* (bound) A browser that waits to connect anew has a web socket left.
SocketsLeft == \A b \in Browser : link[b] = "lost" => conn[b] < MaxConns

BroadcastInv(Message) ==
  /\ BroadcastTypeOK(Message) /\ SocketsLeft
  /\ ClientsDiffer /\ ClientsSaidHello /\ GreetedAreListed

-----------------------------------------------------------------------------
(* Removal from an array *)

\* Counting from the left gives the positions that are kept the numbers from 1
\* to how many they are.
LEMMA Ranks ==
  ASSUME NEW m \in Nat, NEW kept \in SUBSET (1..m)
  PROVE  LET rank(k) == Cardinality({j \in kept : j <= k}) IN
         /\ Cardinality(kept) \in Nat
         /\ \A k \in kept : rank(k) \in 1..Cardinality(kept)
         /\ \A k, l \in kept : rank(k) = rank(l) => k = l
         /\ \A i \in 1..Cardinality(kept) : \E k \in kept : rank(k) = i
<1> DEFINE upto(k) == {j \in kept : j <= k}
           rank(k) == Cardinality(upto(k))
           n == Cardinality(kept)
           number == [k \in kept |-> rank(k)]
<1>0. IsFiniteSet(1..m)
  BY FS_Interval
<1>1. IsFiniteSet(kept) /\ n \in Nat
  BY <1>0, FS_Subset, FS_CardinalityType
<1>2. ASSUME NEW k \in kept
      PROVE  IsFiniteSet(upto(k)) /\ rank(k) \in 1..n
  <2>1. upto(k) \in SUBSET kept /\ {k} \in SUBSET upto(k)
    OBVIOUS
  <2>2. IsFiniteSet(upto(k)) /\ rank(k) <= n /\ rank(k) \in Nat
    BY <1>1, <2>1, FS_Subset, FS_CardinalityType
  <2>3. Cardinality({k}) = 1 /\ Cardinality({k}) <= rank(k)
    BY <2>1, <2>2, FS_Subset, FS_Singleton
  <2> QED
    BY <1>1, <2>2, <2>3
<1>3. ASSUME NEW k \in kept, NEW l \in kept, rank(k) = rank(l), k < l
      PROVE  FALSE
  <2>1. k < l /\ k \in Int /\ l \in Int /\ \A j \in kept : j \in Int
    BY <1>3
  <2>2. \A j \in upto(k) : j \in upto(l)
    BY <2>1
  <2>3. l \in upto(l) /\ l \notin upto(k)
    BY <2>1
  <2>4. Cardinality(upto(l)) = Cardinality(upto(k)) => upto(l) = upto(k)
    BY <1>2, <2>2, FS_Subset
  <2> QED
    BY <1>3, <2>3, <2>4
<1>4. \A k, l \in kept : rank(k) = rank(l) => k = l
  <2>1. SUFFICES ASSUME NEW k \in kept, NEW l \in kept, rank(k) = rank(l), k # l
                 PROVE  FALSE
    OBVIOUS
  <2>2. k < l \/ l < k
    BY <2>1
  <2> QED
    BY <1>3, <2>1, <2>2
<1>5. number \in Injection(kept, 1..n)
  BY <1>2, <1>4 DEF Injection, IsInjective
<1>6. IsFiniteSet(1..n) /\ Cardinality(1..n) = n
  BY <1>1, FS_Interval
<1>7. number \in Surjection(kept, 1..n)
  BY <1>5, <1>6, FS_Injection
<1>8. \A i \in 1..n : \E k \in kept : rank(k) = i
  BY <1>7 DEF Surjection
<1> QED
  BY <1>1, <1>2, <1>4, <1>8

\* What is left of an array are its other elements, each as often as before.
LEMMA WithoutKeeps ==
  ASSUME NEW T, NEW array \in Seq(T), NEW removed,
         \A i, j \in DOMAIN array : array[i] = array[j] => i = j
  PROVE  LET left == Without(array, removed) IN
         /\ left \in Seq(T)
         /\ \A n \in DOMAIN left : left[n] \notin removed /\ \E k \in DOMAIN array : left[n] = array[k]
         /\ \A k \in DOMAIN array : array[k] \in removed \/ \E n \in DOMAIN left : left[n] = array[k]
         /\ \A i, j \in DOMAIN left : left[i] = left[j] => i = j
<1> DEFINE kept == {k \in DOMAIN array : array[k] \notin removed}
           rank(k) == Cardinality({j \in kept : j <= k})
           n == Cardinality(kept)
           place(i) == CHOOSE k \in kept : rank(k) = i
           left == Without(array, removed)
<1>1. left = [i \in 1..n |-> array[place(i)]]
  BY DEF Without
<1>2. Len(array) \in Nat /\ DOMAIN array = 1..Len(array) /\ kept \in SUBSET (1..Len(array))
  OBVIOUS
<1>3. /\ n \in Nat
      /\ \A k \in kept : rank(k) \in 1..n
      /\ \A k, l \in kept : rank(k) = rank(l) => k = l
      /\ \A i \in 1..n : \E k \in kept : rank(k) = i
  BY <1>2, Ranks
<1>4. \A i \in 1..n : place(i) \in kept /\ rank(place(i)) = i
  BY <1>3
<1>5. \A k \in kept : place(rank(k)) = k
  BY <1>3, <1>4
<1> HIDE DEF n, place, rank, left
<1>6. left \in Seq(T) /\ DOMAIN left = 1..n
  BY <1>1, <1>2, <1>3, <1>4
<1>7. \A i \in DOMAIN left : left[i] \notin removed /\ \E k \in DOMAIN array : left[i] = array[k]
  BY <1>1, <1>4, <1>6
<1>8. \A k \in DOMAIN array : array[k] \in removed \/ \E i \in DOMAIN left : left[i] = array[k]
  <2>1. SUFFICES ASSUME NEW k \in kept PROVE \E i \in DOMAIN left : left[i] = array[k]
    OBVIOUS
  <2>2. rank(k) \in DOMAIN left /\ left[rank(k)] = array[k]
    BY <1>1, <1>3, <1>5, <1>6
  <2> QED
    BY <2>2
<1>9. \A i, j \in DOMAIN left : left[i] = left[j] => i = j
  <2>1. SUFFICES ASSUME NEW i \in 1..n, NEW j \in 1..n, array[place(i)] = array[place(j)]
                 PROVE  i = j
    BY <1>1, <1>6
  <2>2. place(i) = place(j)
    BY <1>4, <2>1
  <2> QED
    BY <1>4, <2>2
<1> QED
  BY <1>6, <1>7, <1>8, <1>9 DEF left
-----------------------------------------------------------------------------
(* The steps *)

\* It holds while nobody has said "Hello".
LEMMA InitInv ==
  ASSUME NEW Message, BroadcastInit
  PROVE  BroadcastInv(Message)
<1>1. <<>> \in Seq(Connection) /\ <<>> \in Seq(Message) /\ 1 \in 1..MaxConns
  BY BroadcastAssumption DEF BroadcastAssumption
<1>2. BroadcastTypeOK(Message)
  BY <1>1 DEF BroadcastInit, BroadcastTypeOK
<1> QED
  BY <1>2 DEF BroadcastInit, BroadcastInv, SocketsLeft, ClientsDiffer, ClientsSaidHello, GreetedAreListed

\* A client of the array is a web socket of some browser.
LEMMA ClientsAreConnections ==
  ASSUME NEW Message, BroadcastTypeOK(Message)
  PROVE  /\ DOMAIN clients = 1..Len(clients) /\ Len(clients) \in Nat
         /\ \A k \in DOMAIN clients : clients[k] \in Connection
         /\ \A c \in Connection : c[1] \in Browser /\ c[2] \in 1..MaxConns /\ c = <<c[1], c[2]>>
         /\ \A b \in Browser : Present(b) \in Connection /\ conn[b] \in Nat
  BY BroadcastAssumption DEF BroadcastTypeOK, Connection, Present, BroadcastAssumption

\* A socket opens that has not said "Hello".
LEMMA SocketOpensStep ==
  ASSUME NEW Message, BroadcastInv(Message), NEW b \in Browser, SocketOpens(b)
  PROVE  BroadcastInv(Message)'
<1> USE ClientsAreConnections DEF BroadcastInv
<1>1. BroadcastTypeOK(Message)' /\ SocketsLeft'
  BY DEF BroadcastTypeOK, SocketsLeft, SocketOpens
<1>2. ClientsDiffer'
  BY DEF ClientsDiffer, SocketOpens
<1>3. hello[b] # "sent"
  BY DEF GreetedAreListed, SocketOpens
<1>4. ClientsSaidHello'
  <2>1. \A c \in Connection : Known(c)' = Known(c)
    BY DEF Known, Present, SocketOpens
  <2>2. \A c \in Connection : Known(c) /\ ~Alive(c) => ~Alive(c)'
    BY <1>3 DEF Known, Alive, Present, SocketOpens, BroadcastTypeOK
  <2> QED
    BY <2>1, <2>2 DEF ClientsSaidHello, SocketOpens, BroadcastTypeOK
<1>5. GreetedAreListed'
  BY <1>3 DEF GreetedAreListed, SocketOpens, Present, BroadcastTypeOK
<1> QED
  BY <1>1, <1>2, <1>4, <1>5

\* A "Hello" over an open socket is pushed behind the other clients.
LEMMA HelloArrives ==
  ASSUME NEW Message, BroadcastInv(Message), NEW b \in Browser, SayHello(b), link[b] = "open"
  PROVE  BroadcastInv(Message)'
<1>1. /\ hello[b] = "due" /\ hello' = [hello EXCEPT ![b] = "sent"]
      /\ clients' = Append(clients, Present(b))
      /\ UNCHANGED <<noticed, conn, link, wire>>
  BY DEF SayHello
<1>2. /\ BroadcastTypeOK(Message) /\ ClientsDiffer /\ ClientsSaidHello /\ GreetedAreListed
      /\ SocketsLeft
  BY DEF BroadcastInv
<1>3. /\ DOMAIN clients = 1..Len(clients) /\ Len(clients) \in Nat
      /\ \A k \in DOMAIN clients : clients[k] \in Connection
      /\ \A c \in Connection : c[1] \in Browser /\ c[2] \in 1..MaxConns
      /\ Present(b) \in Connection
      /\ clients \in Seq(Connection) /\ hello \in [Browser -> {"due", "sent", "missed"}]
  BY <1>2, ClientsAreConnections DEF BroadcastTypeOK
<1> DEFINE c == Present(b)
<1> HIDE DEF c
<1>4. /\ clients' \in Seq(Connection) /\ DOMAIN clients' = 1..(Len(clients) + 1)
      /\ \A k \in 1..Len(clients) : clients'[k] = clients[k]
      /\ clients'[Len(clients) + 1] = Present(b)
  <2>1. c \in Connection /\ clients' = Append(clients, c)
    BY <1>1, <1>3 DEF c
  <2>2. /\ clients' \in Seq(Connection) /\ Len(clients') = Len(clients) + 1
        /\ \A k \in 1..Len(clients) : clients'[k] = clients[k]
        /\ clients'[Len(clients) + 1] = c
    BY <1>3, <2>1, AppendProperties
  <2> QED
    BY <1>3, <2>2 DEF c
<1>5. BroadcastTypeOK(Message)' /\ SocketsLeft'
  BY <1>1, <1>2, <1>4 DEF BroadcastTypeOK, SocketsLeft
<1>6. \A k \in 1..Len(clients) : clients[k] # Present(b)
  <2>1. ~Known(Present(b))
    BY <1>1, <1>2 DEF Known, Present, BroadcastTypeOK, Connection
  <2> QED
    BY <1>2, <1>3, <2>1 DEF ClientsSaidHello
<1>7. ClientsDiffer'
  <2>1. SUFFICES ASSUME NEW i \in DOMAIN clients', NEW j \in DOMAIN clients', i < j,
                        clients'[i] = clients'[j]
                 PROVE  FALSE
    BY <1>4 DEF ClientsDiffer
  <2>2. i \in 1..Len(clients) /\ (j \in 1..Len(clients) \/ j = Len(clients) + 1)
    BY <1>3, <1>4, <2>1
  <2> QED
    BY <1>2, <1>3, <1>4, <1>6, <2>1, <2>2 DEF ClientsDiffer
<1>8. ClientsSaidHello'
  <2>1. \A d \in Connection : Known(d) => Known(d)'
    BY <1>1, <1>3 DEF Known, Present
  <2>2. Known(Present(b))'
    BY <1>1, <1>3 DEF Known, Present
  <2>3. \A d \in Connection : Alive(d)' = Alive(d)
    BY <1>1 DEF Alive, Present
  <2>4. \A k \in DOMAIN clients' : Known(clients[k])'
    <3>1. SUFFICES ASSUME NEW k \in DOMAIN clients' PROVE Known(clients[k])'
      OBVIOUS
    <3>2. CASE k \in 1..Len(clients)
      <4>1. clients'[k] = clients[k] /\ clients[k] \in Connection /\ Known(clients[k])
        BY <1>2, <1>3, <1>4, <3>2 DEF ClientsSaidHello
      <4> QED
        BY <1>1, <1>3, <4>1 DEF Known, Present
    <3>3. CASE k = Len(clients) + 1
      <4>1. clients'[k] = Present(b) /\ Present(b) = Present(b)'
        BY <1>1, <1>4, <3>3 DEF Present
      <4> QED
        BY <2>2, <4>1 DEF Known, Present
    <3> QED
      BY <1>3, <1>4, <3>1, <3>2, <3>3
  <2>5. \A d \in noticed' : Known(d)' /\ ~Alive(d)'
    BY <1>1, <1>2, <2>1, <2>3 DEF ClientsSaidHello, BroadcastTypeOK
  <2> QED
    BY <2>4, <2>5 DEF ClientsSaidHello
<1>9. GreetedAreListed'
  <2>1. SUFFICES ASSUME NEW d \in Browser, hello'[d] = "sent"
                 PROVE  /\ link'[d] # "connecting"
                        /\ link'[d] = "open" => \E k \in DOMAIN clients' : clients'[k] = Present(d)'
    BY DEF GreetedAreListed
  <2>2. CASE d = b
    <3>1. Len(clients) + 1 \in DOMAIN clients'
      BY <1>3, <1>4
    <3> QED
      BY <1>1, <1>4, <2>2, <3>1 DEF Present
  <2>3. CASE d # b
    <3>1. hello[d] = "sent" /\ link'[d] = link[d] /\ Present(d)' = Present(d)
      BY <1>1, <1>3, <2>1, <2>3 DEF Present
    <3>2. \A k \in DOMAIN clients : k \in DOMAIN clients' /\ clients'[k] = clients[k]
      BY <1>3, <1>4
    <3> QED
      BY <1>2, <3>1, <3>2 DEF GreetedAreListed
  <2> QED
    BY <2>2, <2>3
<1> QED
  BY <1>5, <1>7, <1>8, <1>9 DEF BroadcastInv

\* A "Hello" that cannot be sent changes nothing at the server.
LEMMA HelloIsMissed ==
  ASSUME NEW Message, BroadcastInv(Message), NEW b \in Browser, SayHello(b), link[b] # "open"
  PROVE  BroadcastInv(Message)'
<1> USE ClientsAreConnections DEF BroadcastInv
<1>1. /\ hello[b] = "due" /\ hello' = [hello EXCEPT ![b] = "missed"]
      /\ UNCHANGED <<clients, noticed, conn, link, wire>>
  BY DEF SayHello
<1>2. BroadcastTypeOK(Message)' /\ SocketsLeft' /\ ClientsDiffer'
  BY <1>1 DEF BroadcastTypeOK, SocketsLeft, ClientsDiffer
<1>3. \A c \in Connection : (Known(c) => Known(c)') /\ Alive(c)' = Alive(c)
  BY <1>1 DEF Known, Alive, Present, BroadcastTypeOK
<1>4. ClientsSaidHello'
  BY <1>1, <1>3 DEF ClientsSaidHello, BroadcastTypeOK
<1>5. GreetedAreListed'
  BY <1>1 DEF GreetedAreListed, Present, BroadcastTypeOK
<1> QED
  BY <1>2, <1>4, <1>5

\* A socket is lost: nobody becomes alive by it.
LEMMA ConnectionLostStep ==
  ASSUME NEW Message, BroadcastInv(Message), NEW b \in Browser, ConnectionLost(b)
  PROVE  BroadcastInv(Message)'
<1> USE ClientsAreConnections DEF BroadcastInv
<1>1. /\ link' = [link EXCEPT ![b] = "lost"] /\ wire' = [wire EXCEPT ![b] = <<>>]
      /\ UNCHANGED <<clients, noticed, conn, hello>> /\ conn[b] < MaxConns
  BY DEF ConnectionLost
<1>2. <<>> \in Seq(Message)
  OBVIOUS
<1>3. BroadcastTypeOK(Message)' /\ SocketsLeft' /\ ClientsDiffer'
  BY <1>1, <1>2 DEF BroadcastTypeOK, SocketsLeft, ClientsDiffer
<1>4. \A c \in Connection : Known(c)' = Known(c) /\ (~Alive(c) => ~Alive(c)')
  BY <1>1 DEF Known, Alive, Present, BroadcastTypeOK
<1>5. ClientsSaidHello'
  BY <1>1, <1>4 DEF ClientsSaidHello, BroadcastTypeOK
<1>6. GreetedAreListed'
  BY <1>1 DEF GreetedAreListed, Present, BroadcastTypeOK
<1> QED
  BY <1>3, <1>5, <1>6

\* The browser connects anew: its sockets so far are of the past.
LEMMA ReconnectStep ==
  ASSUME NEW Message, BroadcastInv(Message), NEW b \in Browser, Reconnect(b)
  PROVE  BroadcastInv(Message)'
<1> USE ClientsAreConnections DEF BroadcastInv
<1>1. /\ conn' = [conn EXCEPT ![b] = conn[b] + 1] /\ link' = [link EXCEPT ![b] = "connecting"]
      /\ hello' = [hello EXCEPT ![b] = "due"] /\ UNCHANGED <<clients, noticed, wire>>
      /\ conn[b] + 1 \in 1..MaxConns
  BY BroadcastAssumption DEF Reconnect, SocketsLeft, BroadcastTypeOK, BroadcastAssumption
<1>2. BroadcastTypeOK(Message)' /\ SocketsLeft' /\ ClientsDiffer'
  BY <1>1 DEF BroadcastTypeOK, SocketsLeft, ClientsDiffer
<1>3. ASSUME NEW c \in Connection, Known(c)
      PROVE  Known(c)' /\ (~Alive(c) => ~Alive(c)')
  <2>1. c[1] \in Browser /\ c[2] \in Nat /\ conn[c[1]] \in Nat
    BY <1>3, BroadcastAssumption DEF BroadcastTypeOK, Connection, BroadcastAssumption
  <2>2. c[2] <= conn[c[1]]
    BY <1>3, <2>1 DEF Known, Present
  <2>3. CASE c[1] = b
    <3>1. conn'[c[1]] = conn[c[1]] + 1
      BY <1>1, <2>1, <2>3 DEF BroadcastTypeOK
    <3>2. c[2] < conn'[c[1]]
      BY <2>1, <2>2, <3>1
    <3> QED
      BY <2>1, <3>1, <3>2 DEF Known, Alive, Present
  <2>4. CASE c[1] # b
    <3>1. /\ conn'[c[1]] = conn[c[1]] /\ link'[c[1]] = link[c[1]]
          /\ hello'[c[1]] = hello[c[1]]
      BY <1>1, <2>1, <2>4 DEF BroadcastTypeOK
    <3> QED
      BY <1>3, <3>1 DEF Known, Alive, Present
  <2> QED
    BY <2>3, <2>4
<1>4. ClientsSaidHello'
  BY <1>1, <1>3 DEF ClientsSaidHello, BroadcastTypeOK
<1>5. GreetedAreListed'
  BY <1>1 DEF GreetedAreListed, Present, BroadcastTypeOK
<1> QED
  BY <1>2, <1>4, <1>5

\* The server notices the close of a socket that is closed.
LEMMA NoticeCloseStep ==
  ASSUME NEW Message, BroadcastInv(Message), NEW c \in Connection, NoticeClose(c)
  PROVE  BroadcastInv(Message)'
<1> USE DEF BroadcastInv
<1>1. /\ noticed' = noticed \union {c} /\ ~Alive(c) /\ Positions(c) # {}
      /\ UNCHANGED <<clients, conn, link, hello, wire>>
  BY DEF NoticeClose
<1>2. BroadcastTypeOK(Message)' /\ SocketsLeft' /\ ClientsDiffer' /\ GreetedAreListed'
  BY <1>1 DEF BroadcastTypeOK, SocketsLeft, ClientsDiffer, GreetedAreListed, Present
<1>3. Known(c)
  BY <1>1 DEF Positions, ClientsSaidHello
<1>4. \A d : Known(d)' = Known(d) /\ Alive(d)' = Alive(d)
  BY <1>1 DEF Known, Alive, Present
<1>5. ClientsSaidHello'
  BY <1>1, <1>3, <1>4 DEF ClientsSaidHello
<1> QED
  BY <1>2, <1>5

\* A broadcast removes clients known to be closed, and nobody else.
LEMMA EmitStep ==
  ASSUME NEW Message, BroadcastInv(Message), NEW message \in Message, Emit(message)
  PROVE  BroadcastInv(Message)'
<1>1. /\ clients' = Without(clients, Failing) /\ noticed' = noticed \ Failing
      /\ wire' = [b \in Browser |-> IF Receives(b) THEN Append(wire[b], message) ELSE wire[b]]
      /\ UNCHANGED <<conn, link, hello>> /\ Failing \subseteq noticed
  BY DEF Emit, Failing
<1>2. /\ BroadcastTypeOK(Message) /\ ClientsDiffer /\ ClientsSaidHello /\ GreetedAreListed
      /\ SocketsLeft
  BY DEF BroadcastInv
<1>3. clients \in Seq(Connection) /\ \A i, j \in DOMAIN clients : clients[i] = clients[j] => i = j
  BY <1>2 DEF ClientsDiffer, BroadcastTypeOK
<1> DEFINE gone == Failing
<1>4. gone = Failing
  OBVIOUS
<1> HIDE DEF gone
<1>5. /\ clients' \in Seq(Connection)
      /\ \A n \in DOMAIN clients' : \E k \in DOMAIN clients : clients'[n] = clients[k]
      /\ \A k \in DOMAIN clients : clients[k] \in gone \/ \E n \in DOMAIN clients' : clients'[n] = clients[k]
      /\ \A i, j \in DOMAIN clients' : clients'[i] = clients'[j] => i = j
  <2>1. clients' = Without(clients, gone)
    BY <1>1, <1>4
  <2> QED
    BY <1>3, <2>1, WithoutKeeps
<1>6. wire' \in [Browser -> Seq(Message)]
  <2>1. \A b \in Browser : wire[b] \in Seq(Message) /\ Append(wire[b], message) \in Seq(Message)
    BY <1>2 DEF BroadcastTypeOK
  <2> QED
    BY <1>1, <2>1
<1>7. BroadcastTypeOK(Message)' /\ SocketsLeft' /\ ClientsDiffer'
  BY <1>1, <1>2, <1>5, <1>6 DEF BroadcastTypeOK, SocketsLeft, ClientsDiffer
<1>9. ClientsSaidHello'
  <2>1. \A n \in DOMAIN clients' : Known(clients[n])'
    BY <1>1, <1>2, <1>5 DEF ClientsSaidHello, Known, Present
  <2>2. \A c \in noticed' : Known(c)' /\ ~Alive(c)'
    BY <1>1, <1>2 DEF ClientsSaidHello, Known, Alive, Present
  <2> QED
    BY <2>1, <2>2 DEF ClientsSaidHello
<1>10. GreetedAreListed'
  <2>1. SUFFICES ASSUME NEW b \in Browser, hello[b] = "sent", link[b] = "open"
                 PROVE  \E n \in DOMAIN clients' : clients'[n] = Present(b)
    BY <1>1, <1>2 DEF GreetedAreListed, Present
  <2>2. PICK k \in DOMAIN clients : clients[k] = Present(b)
    BY <1>2, <2>1 DEF GreetedAreListed
  <2>3. Alive(Present(b))
    BY <2>1 DEF Alive, Present
  <2>4. clients[k] \notin gone
    BY <1>1, <1>2, <1>4, <2>2, <2>3 DEF ClientsSaidHello
  <2> QED
    BY <1>5, <2>2, <2>4
<1> QED
  BY <1>7, <1>9, <1>10 DEF BroadcastInv

\* A message is taken off the wire.
LEMMA ReceiveStep ==
  ASSUME NEW Message, BroadcastInv(Message), NEW b \in Browser, Receive(b)
  PROVE  BroadcastInv(Message)'
<1>1. /\ wire' = [wire EXCEPT ![b] = Tail(wire[b])] /\ wire[b] # <<>>
      /\ UNCHANGED <<clients, noticed, conn, link, hello>>
  BY DEF Receive
<1>2. BroadcastTypeOK(Message)'
  <2>1. Tail(wire[b]) \in Seq(Message)
    BY <1>1 DEF BroadcastInv, BroadcastTypeOK
  <2> QED
    BY <1>1, <2>1 DEF BroadcastInv, BroadcastTypeOK
<1> QED
  BY <1>1, <1>2 DEF BroadcastInv, SocketsLeft, ClientsDiffer, ClientsSaidHello, GreetedAreListed,
                    Known, Alive, Present

\* The invariant is inductive.
LEMMA InvStep ==
  ASSUME NEW Message, BroadcastInv(Message), [BroadcastNext(Message)]_broadcastVars
  PROVE  BroadcastInv(Message)'
<1>1. CASE \E b \in Browser : SocketOpens(b) \/ SayHello(b) \/ ConnectionLost(b) \/ Reconnect(b)
  BY <1>1, SocketOpensStep, HelloArrives, HelloIsMissed, ConnectionLostStep, ReconnectStep
<1>2. CASE \E c \in Connection : NoticeClose(c)
  BY <1>2, NoticeCloseStep
<1>3. CASE \E message \in Message : Emit(message)
  BY <1>3, EmitStep
<1>4. CASE \E b \in Browser : Receive(b)
  BY <1>4, ReceiveStep
<1>5. CASE UNCHANGED broadcastVars
  BY <1>5 DEF broadcastVars, BroadcastInv, BroadcastTypeOK, SocketsLeft, ClientsDiffer,
              ClientsSaidHello, GreetedAreListed, Known, Alive, Present
<1> QED
  BY <1>1, <1>2, <1>3, <1>4, <1>5 DEF BroadcastNext, ConnectionStep

\* A client that is connected has its one place in the array.
LEMMA InvImpliesLive ==
  ASSUME NEW Message, BroadcastInv(Message)
  PROVE  LiveClientsStay
<1>1. SUFFICES ASSUME NEW b \in Browser, hello[b] = "sent", link[b] = "open"
               PROVE  Cardinality(Positions(Present(b))) = 1 /\ Present(b) \notin noticed
  BY DEF LiveClientsStay
<1>2. PICK k \in DOMAIN clients : clients[k] = Present(b)
  BY <1>1 DEF BroadcastInv, GreetedAreListed
<1>3. Positions(Present(b)) = {k}
  BY <1>2 DEF Positions, BroadcastInv, ClientsDiffer
<1>4. Alive(Present(b))
  BY <1>1 DEF Alive, Present
<1> QED
  BY <1>3, <1>4, FS_Singleton DEF BroadcastInv, ClientsSaidHello

-----------------------------------------------------------------------------
(* The theorems *)

\* The invariant holds whatever is broadcast.
THEOREM BroadcastInvariance ==
  ASSUME NEW CONSTANT Message
  PROVE  BroadcastInit /\ [][BroadcastNext(Message)]_broadcastVars => []BroadcastInv(Message)
<1>1. BroadcastInit => BroadcastInv(Message)
  BY InitInv
<1>2. BroadcastInv(Message) /\ [BroadcastNext(Message)]_broadcastVars => BroadcastInv(Message)'
  BY InvStep
<1> QED
  BY <1>1, <1>2, PTL

\* The types of the broadcast.
THEOREM BroadcastTyping == Spec => []TypeOK
<1>1. BroadcastInit => BroadcastInv({"update"})
  BY InitInv
<1>2. BroadcastInv({"update"}) /\ [BroadcastNext({"update"})]_broadcastVars => BroadcastInv({"update"})'
  BY InvStep
<1>3. BroadcastInv({"update"}) => TypeOK
  BY DEF BroadcastInv, TypeOK
<1> QED
  BY <1>1, <1>2, <1>3, PTL DEF Spec

\* A browser that has said "Hello" on its open socket keeps its one place in the
\* array, however many clients are removed around it (WebSocketHandler.scala:31, :42-50).
THEOREM LiveClients ==
  ASSUME NEW CONSTANT Message
  PROVE  BroadcastInit /\ [][BroadcastNext(Message)]_broadcastVars => []LiveClientsStay
<1>1. BroadcastInit => BroadcastInv(Message)
  BY InitInv
<1>2. BroadcastInv(Message) /\ [BroadcastNext(Message)]_broadcastVars => BroadcastInv(Message)'
  BY InvStep
<1>3. BroadcastInv(Message) => LiveClientsStay
  BY InvImpliesLive
<1> QED
  BY <1>1, <1>2, <1>3, PTL
=============================================================================
