---------------------------- MODULE DaemonProofs ----------------------------
(***************************************************************************)
(* Proof that cmccd serves every request that arrives whole, whatever its  *)
(* buffer holds behind it: the property WholeRequestServed of Daemon, for  *)
(* any clients, requests, rests of the stack and numbers of failures.      *)
(***************************************************************************)
EXTENDS Daemon, SequenceTheorems, TLAPS

\* The connection the server has in hand, and those that wait, are clients'.
Shape ==
  /\ server \in {"listen", "accept", "read", "handle", "close", "dead"}
  /\ server \in {"read", "handle", "close", "dead"} => fd \in Client
  /\ backlog \in Seq(Client)
  /\ client \in [Client -> {"out", "connected", "sent", "left", "ended"}]
  /\ request \in [Client -> [known : BOOLEAN, text : Seq(0..NUL)]]

\* Nothing is left of the request before.
Emptied ==
  server \in {"listen", "accept", "read"} =>
    arrived = 0 /\ package = <<>> /\ numbers = <<>>

\* The buffer holds what has arrived and then what lay there before, and a client
\* that has sent its request says nothing more: what handle_request finds, and
\* what it has made of it, still belong to the request.
FromRequest ==
  /\ client[fd] = "sent"
  /\ arrived \in 0..Len(request[fd].text)
  /\ \E rest \in Junk : package = UpToNUL(SubSeq(request[fd].text, 1, arrived) \o rest)
  /\ server = "dead" => Taken /\ ~ TwoTokens
  /\ (server = "close" /\ Taken) =>
       TwoTokens /\ numbers = <<Token(package), Token(Rest(package))>>

Handled ==
  server \in {"handle", "close", "dead"} =>
    FromRequest \/ (server = "close" /\ arrived = 0)

IInv == Shape /\ Emptied /\ Handled
-----------------------------------------------------------------------------
(* What is made of a text.                                                 *)

\* The least and the greatest member of a set of numbers.
LEMMA MinIs ==
  ASSUME NEW S \in SUBSET Int, NEW m \in S, \A y \in S : m <= y
  PROVE  Min(S) = m
<1>1. \E x \in S : \A y \in S : x =< y
  OBVIOUS
<1>2. Min(S) \in S /\ \A y \in S : Min(S) =< y
  BY <1>1 DEF Min
<1>3. Min(S) \in Int /\ m \in Int /\ Min(S) =< m /\ m =< Min(S)
  BY <1>2
<1> QED
  BY <1>3

\* The greatest member of a set is the one no member exceeds.
LEMMA MaxIs ==
  ASSUME NEW S \in SUBSET Int, NEW m \in S, \A y \in S : y <= m
  PROVE  Max(S) = m
<1>1. \E x \in S : \A y \in S : x >= y
  OBVIOUS
<1>2. Max(S) \in S /\ \A y \in S : Max(S) >= y
  BY <1>1 DEF Max
<1>3. Max(S) \in Int /\ m \in Int /\ Max(S) >= m /\ m >= Max(S)
  BY <1>2
<1> QED
  BY <1>3

Char == 0..NUL

\* A text ends before its first NUL.
LEMMA EndsAtNUL ==
  ASSUME NEW s \in Seq(Char), NEW m \in 1..Len(s), s[m] = NUL,
         \A i \in 1..(m - 1) : s[i] # NUL
  PROVE  UpToNUL(s) = SubSeq(s, 1, m - 1)
<1> DEFINE ends == {i \in DOMAIN s : s[i] = NUL}
<1>1. m \in ends /\ ends \in SUBSET Int /\ \A y \in ends : m <= y
  OBVIOUS
<1>2. Min(ends) = m
  BY <1>1, MinIs
<1> QED
  BY <1>1, <1>2 DEF UpToNUL

\* strtok: commas are passed over, and the token goes to the next comma or the end.
LEMMA TokenIs ==
  ASSUME NEW s \in Seq(Char), NEW a \in 1..Len(s), NEW b \in a..Len(s),
         \A i \in 1..(a - 1) : s[i] = Comma,
         \A i \in a..b : s[i] # Comma,
         b = Len(s) \/ s[b + 1] = Comma
  PROVE  HasToken(s) /\ TokenStart(s) = a /\ TokenEnd(s) = b
<1> DEFINE starts == {i \in DOMAIN s : s[i] # Comma}
<1> DEFINE inside == {i \in a..Len(s) : \A j \in a..i : s[j] # Comma}
<1>1. a \in starts /\ starts \in SUBSET Int /\ \A y \in starts : a <= y
  OBVIOUS
<1>2. TokenStart(s) = a
  BY <1>1, MinIs DEF TokenStart
<1>3. b \in inside /\ inside \in SUBSET Int
  OBVIOUS
<1>4. ASSUME NEW y \in inside, y > b PROVE FALSE
  <2>1. b + 1 \in a..y /\ b + 1 <= Len(s)
    BY <1>4
  <2> QED
    BY <1>4, <2>1
<1>5. \A y \in inside : y <= b
  BY <1>4
<1>6. Max(inside) = b
  BY <1>3, <1>5, MaxIs
<1>7. TokenEnd(s) = b
  BY <1>2, <1>6 DEF TokenEnd
<1>8. HasToken(s)
  BY <1>1 DEF HasToken
<1> QED
  BY <1>2, <1>7, <1>8

\* Two numbers with a comma between them are taken apart as they are written.
LEMMA TwoNumbers ==
  ASSUME NEW s \in Seq(Char), NEW k \in 2..(Len(s) - 1), s[k] = Comma,
         \A i \in 1..Len(s) : i # k => s[i] # Comma
  PROVE  /\ HasToken(s) /\ Token(s) = SubSeq(s, 1, k - 1)
         /\ HasToken(Rest(s)) /\ Token(Rest(s)) = SubSeq(s, k + 1, Len(s))
<1>1. HasToken(s) /\ TokenStart(s) = 1 /\ TokenEnd(s) = k - 1
  <2>1. 1 \in 1..Len(s) /\ k - 1 \in 1..Len(s)
    OBVIOUS
  <2>2. (\A i \in 1..(1 - 1) : s[i] = Comma) /\ (\A i \in 1..(k - 1) : s[i] # Comma)
        /\ s[(k - 1) + 1] = Comma
    OBVIOUS
  <2> QED
    BY <2>1, <2>2, TokenIs
<1>2. Token(s) = SubSeq(s, 1, k - 1) /\ Rest(s) = SubSeq(s, k, Len(s))
  BY <1>1 DEF Token, Rest
<1> DEFINE r == SubSeq(s, k, Len(s))
<1>3. /\ r \in Seq(Char) /\ Len(r) = Len(s) - k + 1
      /\ \A i \in 1..Len(r) : r[i] = s[k + i - 1]
  OBVIOUS
<1>4. 2 \in 1..Len(r) /\ Len(r) \in 2..Len(r)
  BY <1>3
<1>5. \A i \in 1..(2 - 1) : r[i] = Comma
  BY <1>3
<1>6. ASSUME NEW i \in 2..Len(r) PROVE r[i] # Comma
  <2>1. k + i - 1 \in 1..Len(s) /\ k + i - 1 # k /\ i \in 1..Len(r)
    BY <1>3
  <2> QED
    BY <1>3, <2>1
<1>7. HasToken(r) /\ TokenStart(r) = 2 /\ TokenEnd(r) = Len(r)
  BY <1>3, <1>4, <1>5, <1>6, TokenIs
<1>8. Token(r) = SubSeq(r, 2, Len(r))
  BY <1>7 DEF Token
<1>9. SubSeq(r, 2, Len(r)) = SubSeq(s, k + 1, Len(s))
  <2> DEFINE left == SubSeq(r, 2, Len(r))
             right == SubSeq(s, k + 1, Len(s))
  <2>1. left \in Seq(Char) /\ Len(left) = Len(s) - k /\ \A i \in 1..Len(left) : left[i] = r[i + 1]
    BY <1>3, <1>4
  <2>2. right \in Seq(Char) /\ Len(right) = Len(s) - k /\ \A i \in 1..Len(right) : right[i] = s[k + i]
    BY SMTT(30)
  <2>3. ASSUME NEW i \in 1..Len(left) PROVE left[i] = right[i]
    <3>1. i + 1 \in 1..Len(r) /\ k + (i + 1) - 1 = k + i
      BY <1>3, <2>1
    <3>2. r[i + 1] = s[k + i]
      BY <1>3, <3>1
    <3> QED
      BY <2>1, <2>2, <3>2
  <2>4. left = right
    <3> HIDE DEF left, right, r
    <3> QED
      BY <2>1, <2>2, <2>3, SeqEqual
  <2> QED
    BY <2>4
<1> QED
  BY <1>1, <1>2, <1>7, <1>8, <1>9
-----------------------------------------------------------------------------
(* The steps.                                                              *)

\* A rest of the stack is a text without a NUL; only its kind matters.
LEMMA JunkText == \A rest \in Junk : rest \in Seq(Char)
<1> SUFFICES ASSUME NEW rest \in Junk PROVE rest \in Seq(Char)
  OBVIOUS
<1>1. rest \in Seq(0..Comma)
  BY DaemonAssumption
<1>2. \A i \in 1..Len(rest) : rest[i] \in Char
  BY <1>1 DEF Char, Comma, NUL
<1> QED
  BY <1>1, <1>2

\* Nothing has arrived when the daemon starts.
LEMMA InitHolds == Init => IInv
<1> SUFFICES ASSUME Init PROVE IInv
  OBVIOUS
<1>1. NoRequest \in [known : BOOLEAN, text : Seq(0..NUL)]
  BY DEF NoRequest
<1>2. Shape
  BY <1>1 DEF Init, Shape
<1>3. Emptied /\ Handled
  BY DEF Init, Emptied, Handled
<1> QED
  BY <1>2, <1>3 DEF IInv

\* The part of the state that FromRequest speaks of, but for the server's place.
Hand == <<fd, client[fd], request[fd], arrived, package, numbers>>

\* While it is left alone what was found stays found.
LEMMA HandStays ==
  ASSUME Handled, server' = server, Hand' = Hand
  PROVE  Handled'
<1>1. /\ (client[fd])' = client[fd] /\ (request[fd])' = request[fd]
      /\ arrived' = arrived /\ package' = package /\ numbers' = numbers
  BY DEF Hand
<1>2. Taken' = Taken /\ TwoTokens' = TwoTokens
      /\ (numbers = <<Token(package), Token(Rest(package))>>)'
           = (numbers = <<Token(package), Token(Rest(package))>>)
  BY <1>1 DEF Taken, TwoTokens
<1>3. (\E rest \in Junk : package = UpToNUL(SubSeq(request[fd].text, 1, arrived) \o rest))'
        = (\E rest \in Junk : package = UpToNUL(SubSeq(request[fd].text, 1, arrived) \o rest))
  BY <1>1
<1>4. FromRequest' = FromRequest
  BY <1>1, <1>2, <1>3 DEF FromRequest
<1> QED
  BY <1>1, <1>4 DEF Handled

\* Opening the socket touches no request.
LEMMA ListenKeeps == IInv /\ socket_local_server => IInv'
<1> SUFFICES ASSUME IInv, socket_local_server PROVE IInv'
  OBVIOUS
<1>1. /\ server = "listen" /\ server' \in {"listen", "accept"}
      /\ UNCHANGED <<fd, backlog, client, request, arrived, package, numbers>>
  BY DEF socket_local_server, Goto, buffer
<1> QED
  BY <1>1 DEF IInv, Shape, Emptied, Handled

\* A connection is accepted with the buffer as the last request left it.
LEMMA AcceptKeeps == IInv /\ accept => IInv'
<1> SUFFICES ASSUME IInv, accept PROVE IInv'
  OBVIOUS
<1>1. /\ server = "accept"
      /\ UNCHANGED <<client, request, arrived, package, numbers>>
  BY DEF accept, Goto, buffer
<1>2. \/ backlog # <<>> /\ server' = "read" /\ fd' = Head(backlog) /\ backlog' = Tail(backlog)
      \/ server' = "accept" /\ fd' = fd /\ backlog' = backlog
  BY DEF accept, Goto
<1>3. backlog # <<>> => Head(backlog) \in Client /\ Tail(backlog) \in Seq(Client)
  BY DEF IInv, Shape
<1>4. Shape'
  BY <1>1, <1>2, <1>3 DEF IInv, Shape
<1> QED
  BY <1>1, <1>2, <1>4 DEF IInv, Emptied, Handled

\* One read takes what the client has written so far, and zeros follow it.
LEMMA ReadKeeps == IInv /\ read_request => IInv'
<1> SUFFICES ASSUME IInv, read_request PROVE IInv'
  OBVIOUS
<1>1. /\ server = "read" /\ server' \in {"handle", "close"}
      /\ UNCHANGED <<fd, backlog, client, request, numbers>>
  BY DEF read_request, Goto
<1>2. CASE server' = "handle"
  <2>1. /\ client[fd] = "sent" /\ arrived' \in 0..Len(request[fd].text)
        /\ \E rest \in Junk : package' = UpToNUL(SubSeq(request[fd].text, 1, arrived') \o rest)
    BY <1>2 DEF read_request, Goto
  <2>2. FromRequest'
    BY <1>1, <1>2, <2>1 DEF FromRequest
  <2> QED
    BY <1>1, <1>2, <2>2 DEF IInv, Shape, Emptied, Handled
<1>3. CASE server' = "close"
  <2>1. arrived' = arrived /\ arrived = 0
    BY <1>1, <1>3 DEF read_request, Goto, IInv, Emptied
  <2> QED
    BY <1>1, <1>3, <2>1 DEF IInv, Shape, Emptied, Handled
<1> QED
  BY <1>1, <1>2, <1>3

\* The request parsed is the one that was read.
LEMMA HandleKeeps == IInv /\ handle_request => IInv'
<1> SUFFICES ASSUME IInv, handle_request PROVE IInv'
  OBVIOUS
<1>1. /\ server = "handle" /\ server' \in {"dead", "close"}
      /\ UNCHANGED <<fd, backlog, client, request, arrived, package>>
  BY DEF handle_request, Goto
<1>2. FromRequest
  BY <1>1 DEF IInv, Handled
<1>3. Taken' = Taken /\ TwoTokens' = TwoTokens
  BY <1>1 DEF Taken, TwoTokens
<1>4. server' = "dead" => Taken /\ ~ TwoTokens
  BY DEF handle_request, Goto
<1>5. server' = "close" /\ Taken =>
        TwoTokens /\ numbers' = <<Token(package), Token(Rest(package))>>
  BY DEF handle_request, Goto
<1>6. FromRequest'
  BY <1>1, <1>2, <1>3, <1>4, <1>5 DEF FromRequest
<1> QED
  BY <1>1, <1>6 DEF IInv, Shape, Emptied, Handled

\* Closing a connection leaves its bytes in the buffer and forgets its request.
LEMMA CloseKeeps == IInv /\ close_connection => IInv'
<1> SUFFICES ASSUME IInv, close_connection PROVE IInv'
  OBVIOUS
<1>1. /\ server' = "accept" /\ backlog' = backlog
      /\ client' = [client EXCEPT ![fd] = "ended"]
      /\ request' = [request EXCEPT ![fd] = NoRequest]
      /\ arrived' = 0 /\ package' = <<>> /\ numbers' = <<>>
  BY DEF close_connection, Goto
<1>2. NoRequest \in [known : BOOLEAN, text : Seq(0..NUL)]
  BY DEF NoRequest
<1>3. Shape'
  BY <1>1, <1>2 DEF IInv, Shape
<1> QED
  BY <1>1, <1>3 DEF IInv, Emptied, Handled

\* The child has nothing to do with the server, nor have those who change files.
LEMMA FilesKeep == IInv /\ (Child \/ (\E f \in File : Meddle(f))) => IInv'
<1> SUFFICES ASSUME IInv, Child \/ (\E f \in File : Meddle(f)) PROVE IInv'
  OBVIOUS
<1>1. UNCHANGED <<server, fd, backlog, client, request, arrived, package, numbers>>
  BY DEF Child, restorecon_recursive, restorecon_chmod, restorecon_chown, walk_ends, Meddle,
         sockets, buffer
<1>2. Hand' = Hand
  BY <1>1 DEF Hand
<1> QED
  BY <1>1, <1>2, HandStays DEF IInv, Shape, Emptied

\* A client that connects or speaks is not one that has sent its request.
LEMMA ClientKeeps ==
  ASSUME IInv, NEW c \in Client, Connect(c) \/ Speak(c)
  PROVE  IInv'
<1>1. /\ UNCHANGED <<server, fd, arrived, package, numbers>>
      /\ client[c] \in {"out", "connected"}
      /\ client' = [client EXCEPT ![c] = client'[c]]
      /\ request' = [request EXCEPT ![c] = request'[c]]
      /\ client'[c] \in {"connected", "sent", "left"}
      /\ request'[c] \in Request \cup {request[c]}
      /\ backlog' \in {backlog, Append(backlog, c)}
  BY DEF Connect, Speak, buffer, IInv, Shape
<1>2. Request \subseteq [known : BOOLEAN, text : Seq(0..NUL)]
  BY DaemonAssumption
<1>3. Shape'
  <2>1. client' \in [Client -> {"out", "connected", "sent", "left", "ended"}]
    BY <1>1 DEF IInv, Shape
  <2>2. request[c] \in [known : BOOLEAN, text : Seq(0..NUL)]
    BY DEF IInv, Shape
  <2>3. request'[c] \in [known : BOOLEAN, text : Seq(0..NUL)]
    BY <1>1, <1>2, <2>2
  <2> DEFINE said == request'[c]
  <2>4. request' \in [Client -> [known : BOOLEAN, text : Seq(0..NUL)]]
    <3>1. request' = [request EXCEPT ![c] = said]
      BY <1>1
    <3> HIDE DEF said
    <3> QED
      BY <2>3, <3>1 DEF IInv, Shape, said
  <2>5. backlog' \in Seq(Client)
    <3>1. backlog \in Seq(Client)
      BY DEF IInv, Shape
    <3>2. Append(backlog, c) \in Seq(Client)
      BY <3>1
    <3> QED
      BY <1>1, <3>1, <3>2
  <2> QED
    BY <1>1, <2>1, <2>4, <2>5 DEF IInv, Shape
<1>4. Emptied'
  BY <1>1 DEF IInv, Emptied
<1>5. Handled'
  <2>1. CASE \/ server \notin {"handle", "close", "dead"}
             \/ server = "close" /\ arrived = 0
    BY <1>1, <2>1 DEF Handled
  <2>2. CASE server \in {"handle", "close", "dead"} /\ FromRequest
    <3>1. fd \in Client /\ fd # c
      BY <1>1, <2>2 DEF FromRequest, IInv, Shape
    <3>2. Hand' = Hand
      BY <1>1, <3>1 DEF Hand, IInv, Shape
    <3> QED
      BY <1>1, <3>2, HandStays DEF IInv
  <2> QED
    BY <2>1, <2>2 DEF IInv, Handled
<1> QED
  BY <1>3, <1>4, <1>5 DEF IInv

\* Every step of the daemon or of a client keeps the invariant.
LEMMA StepKeeps == IInv /\ [Next]_vars => IInv'
<1>1. ASSUME IInv, UNCHANGED vars PROVE IInv'
  <2>1. UNCHANGED <<server, fd, backlog, client, request, arrived, package, numbers>>
    BY <1>1 DEF vars, sockets, buffer
  <2>2. Hand' = Hand
    BY <2>1 DEF Hand
  <2> QED
    BY <1>1, <2>1, <2>2, HandStays DEF IInv, Shape, Emptied
<1> QED
  BY <1>1, ListenKeeps, AcceptKeeps, ReadKeeps, HandleKeeps, CloseKeeps, FilesKeep, ClientKeeps
  DEF Next, Parent

-----------------------------------------------------------------------------
(* The property.                                                           *)

\* What is found behind a whole request does not matter.
LEMMA WholeRequest ==
  ASSUME NEW text \in Seq(Char), NEW rest \in Seq(Char), NEW k \in 2..(Len(text) - 2),
         text[k] = Comma, text[Len(text)] = NUL,
         \A i \in 1..(Len(text) - 1) : i # k => text[i] \in Digit
  PROVE  LET p == UpToNUL(text \o rest)
         IN  /\ p # <<>> /\ HasToken(p) /\ HasToken(Rest(p))
             /\ Token(p) = SubSeq(text, 1, k - 1)
             /\ Token(Rest(p)) = SubSeq(text, k + 1, Len(text) - 1)
<1> DEFINE n == Len(text)
           s == text \o rest
           w == SubSeq(text, 1, n - 1)
<1>1. n \in Nat /\ n >= 4 /\ k \in 2..(n - 2)
  OBVIOUS
<1>2. s \in Seq(Char) /\ Len(s) >= n /\ \A i \in 1..n : s[i] = text[i]
  OBVIOUS
<1>3. ASSUME NEW i \in 1..(n - 1) PROVE text[i] # NUL
  <2>1. CASE i = k
    BY <2>1 DEF Comma, NUL
  <2>2. CASE i # k
    <3>1. i \in 1..(Len(text) - 1)
      BY <1>1
    <3>2. text[i] \in Digit
      BY <2>2, <3>1, Zenon
    <3> QED
      BY <3>2 DEF Digit, NUL
  <2> QED
    BY <2>1, <2>2
<1>4. UpToNUL(s) = SubSeq(s, 1, n - 1)
  <2> HIDE DEF s
  <2>1. n \in 1..Len(s) /\ s[n] = NUL /\ \A i \in 1..(n - 1) : s[i] # NUL
    <3>1. n \in 1..Len(s) /\ n \in 1..n
      <4>1. Len(s) \in Nat /\ Len(s) >= n BY <1>2, LenProperties
      <4> QED BY <1>1, <4>1
    <3>2. s[n] = NUL BY <1>2, <3>1
    <3>3. ASSUME NEW i \in 1..(n - 1) PROVE s[i] # NUL
      <4>1. i \in 1..n BY <1>1
      <4> QED BY <1>2, <1>3, <4>1
    <3> QED BY <3>1, <3>2, <3>3
  <2> QED
    BY <1>2, <2>1, EndsAtNUL
<1>5. SubSeq(s, 1, n - 1) = w
  BY <1>1, <1>2
<1>6. /\ w \in Seq(Char) /\ Len(w) = n - 1
      /\ \A i \in 1..(n - 1) : w[i] = text[i]
  BY <1>1
<1>7. w[k] = Comma /\ \A i \in 1..Len(w) : i # k => w[i] # Comma
  <2> HIDE DEF w
  <2>1. Len(w) \in Nat /\ Len(w) = n - 1 /\ k \in 1..(n - 1)
    BY <1>1, <1>6
  <2>2. w[k] = Comma
    BY <1>6, <2>1
  <2>3. ASSUME NEW i \in 1..Len(w), i # k PROVE w[i] # Comma
    <3>1. i \in 1..(n - 1)
      BY <2>1
    <3>2. w[i] \in Digit
      BY <1>6, <2>3, <3>1
    <3> QED
      BY <3>2 DEF Digit, Comma
  <2> QED
    BY <2>2, <2>3
<1>8. k \in 2..(Len(w) - 1)
  BY <1>1, <1>6
<1>9. /\ HasToken(w) /\ Token(w) = SubSeq(w, 1, k - 1)
      /\ HasToken(Rest(w)) /\ Token(Rest(w)) = SubSeq(w, k + 1, Len(w))
  <2> HIDE DEF w
  <2> QED
    BY <1>6, <1>7, <1>8, TwoNumbers
<1>10. SubSeq(w, 1, k - 1) = SubSeq(text, 1, k - 1)
  BY <1>1
<1>11. SubSeq(w, k + 1, Len(w)) = SubSeq(text, k + 1, n - 1)
  BY <1>1
<1>12. w # <<>>
  <2> HIDE DEF w
  <2> QED
    BY <1>1, <1>6
<1> QED
  BY <1>4, <1>5, <1>9, <1>10, <1>11, <1>12

\* What the invariant says of a connection that is done with.
LEMMA IInvServes == IInv => WholeRequestServed
<1> SUFFICES ASSUME IInv, server \in {"close", "dead"} PROVE WholeRequestServed
  BY DEF WholeRequestServed
<1> DEFINE text == SubSeq(request[fd].text, 1, arrived)
           n == Len(text)
<1>1. fd \in Client /\ request[fd].text \in Seq(Char)
  BY DEF IInv, Shape, Char
<1>2. CASE ~ FromRequest
  <2>1. server = "close" /\ arrived = 0
    BY <1>2 DEF IInv, Handled
  <2>2. text = <<>> /\ n = 0
    BY <1>1, <2>1
  <2> QED
    BY <2>1, <2>2 DEF WholeRequestServed
<1>3. CASE FromRequest
  <2>1. arrived \in 0..Len(request[fd].text) /\ text \in Seq(Char) /\ n = arrived
    BY <1>1, <1>3 DEF FromRequest
  <2>2. PICK rest \in Junk : package = UpToNUL(text \o rest)
    BY <1>3 DEF FromRequest
  <2>3. rest \in Seq(Char)
    BY JunkText
  <2>4. server = "dead" => Known(request[fd]) /\ (text = <<>> \/ text[1] # NUL)
    <3> SUFFICES ASSUME server = "dead", text # <<>>, text[1] = NUL PROVE package = <<>>
      BY <1>3 DEF FromRequest, Taken
    <3>1. n >= 1
      BY <2>1
    <3>2. text \o rest \in Seq(Char) /\ 1 \in 1..Len(text \o rest) /\ (text \o rest)[1] = NUL
      BY <2>1, <2>3, <3>1
    <3>3. UpToNUL(text \o rest) = SubSeq(text \o rest, 1, 1 - 1)
      <4> DEFINE s == text \o rest
      <4>1. s \in Seq(Char) /\ 1 \in 1..Len(s) /\ s[1] = NUL /\ \A i \in 1..(1 - 1) : s[i] # NUL
        BY <3>2
      <4> HIDE DEF s
      <4>2. UpToNUL(s) = SubSeq(s, 1, 1 - 1)
        BY <4>1, EndsAtNUL
      <4> QED
        BY <4>2 DEF s
    <3> QED
      BY <2>2, <3>2, <3>3
  <2>5. ASSUME NEW k \in 2..(n - 2), Known(request[fd]), text[k] = Comma, text[n] = NUL,
               \A i \in 1..(n - 1) : i # k => text[i] \in Digit
        PROVE  numbers = <<SubSeq(text, 1, k - 1), SubSeq(text, k + 1, n - 1)>>
    <3>1. /\ package # <<>> /\ HasToken(package) /\ HasToken(Rest(package))
          /\ Token(package) = SubSeq(text, 1, k - 1)
          /\ Token(Rest(package)) = SubSeq(text, k + 1, n - 1)
      <4> HIDE DEF text
      <4> QED
        BY <2>1, <2>2, <2>3, <2>5, WholeRequest
    <3>2. Taken /\ TwoTokens
      BY <2>5, <3>1 DEF Taken, TwoTokens
    <3>3. numbers = <<Token(package), Token(Rest(package))>>
      BY <1>3, <3>2 DEF FromRequest
    <3> QED
      BY <3>1, <3>3
  <2> QED
    BY <2>4, <2>5 DEF WholeRequestServed
<1> QED
  BY <1>2, <1>3

\* A request that arrives whole is served with its two numbers and does not end
\* the server, whatever lies behind it in the buffer that main does not initialise;
\* nor does one without any text, or one of another command.
THEOREM RequestServed == Spec => []WholeRequestServed
<1> QED
  BY InitHolds, StepKeeps, IInvServes, PTL DEF Spec
=============================================================================
