------------------------------- MODULE Daemon -------------------------------
(***************************************************************************)
(* cmccd (daemon/cmccd.c): main forks; the child sets mode and owner of    *)
(* every file below /data/enterprise again and again, the parent serves a  *)
(* local socket, one connection after the other.  A request is a command   *)
(* and a text, two numbers with a comma.  It is read with one read into a  *)
(* buffer that is not initialised: what a client sends in pieces, or with  *)
(* no NUL at the end, is followed by whatever the stack holds.             *)
(***************************************************************************)
EXTENDS Integers, SequencesExt, FiniteSetsExt

CONSTANTS
  Client,
  Silent,     \* clients that may stay connected and never say anything
  NoClient,
  Request,    \* what clients send: whether it is the one command, and the text
  Junk,       \* what may lie in the buffer behind the text, up to a NUL
  File,       \* names below SECURITY_PATH
  CharSigned, \* whether char is signed, as on x86; on ARM it is not
  MaxFails,   \* bound: failures of socket_local_server, accept and nftw
  MaxChanges  \* bound: what others do to the files

Digit == 0..9
Comma == 10
NUL == 11

ASSUME DaemonAssumption ==
  /\ Silent \subseteq Client /\ NoClient \notin Client
  /\ Request \subseteq [known : BOOLEAN, text : Seq(0..NUL)]
  /\ Junk \subseteq Seq(0..Comma)
  /\ CharSigned \in BOOLEAN /\ {MaxFails, MaxChanges} \subseteq Nat

VARIABLES
  server,    \* the parent: "listen", "accept", "read", "handle", "close", "dead"
  fd,        \* the client whose connection it has accepted
  backlog,   \* connections not accepted yet
  client,    \* "out", "connected", "sent", "left", "ended"
  request,   \* what a client has sent
  arrived,   \* how much of its text has arrived when the server reads
  package,   \* the text handle_request finds in its buffer
  numbers,   \* what it has made of it: fd and pid
  fails,
  child,     \* the child: "sleep", "walk", "chown", or "none" when fork failed
  todo,      \* files nftw has not come to
  item,      \* the file restorecon is at
  file,      \* "there" and which of "mode" and "owner" are right; {} when absent
  changes

buffer == <<arrived, package, numbers>>
sockets == <<server, fd, backlog, client, request, buffer>>
files == <<child, todo, item, file>>
vars == <<sockets, files, fails, changes>>

Present == {f \in File : file[f] # {}}
NoRequest == [known |-> FALSE, text |-> <<>>]
Fail == fails < MaxFails /\ fails' = fails + 1

-----------------------------------------------------------------------------
(* The parent.                                                             *)

Goto(from, to) == server = from /\ server' = to

socket_local_server ==
  /\ \/ Goto("listen", "accept") /\ UNCHANGED fails
     \/ Goto("listen", "listen") /\ Fail
  /\ UNCHANGED <<files, fd, backlog, client, request, buffer, changes>>

accept ==
  /\ \/ /\ backlog # <<>> /\ Goto("accept", "read")
        /\ fd' = Head(backlog) /\ backlog' = Tail(backlog) /\ UNCHANGED fails
     \/ Goto("accept", "accept") /\ Fail /\ UNCHANGED <<fd, backlog>>
  /\ UNCHANGED <<files, client, request, buffer, changes>>

\* Mutant: the text does not end at the NUL that the client has sent.
UpToNULMut(s) == SelectSeq(s, LAMBDA c : c # NUL)

UpToNUL(s) ==
  LET ends == {i \in DOMAIN s : s[i] = NUL}
  IN  IF ends = {} THEN s ELSE SubSeq(s, 1, Min(ends) - 1)

\* read waits for the client; it returns nothing when the client has left.
read_request ==
  /\ \/ /\ Goto("read", "handle") /\ client[fd] = "sent"
        /\ arrived' \in 0..Len(request[fd].text)
        /\ \E rest \in Junk :
             package' = UpToNUL(SubSeq(request[fd].text, 1, arrived') \o rest)
     \/ Goto("read", "close") /\ client[fd] = "left" /\ UNCHANGED <<arrived, package>>
  /\ UNCHANGED <<files, fd, backlog, client, request, numbers, fails, changes>>

\* The command is a char and compared with 0x81, which no signed char is.
Known(r) == ~ CharSigned /\ r.known

\* strtok: where the next token of s begins, and where it ends.
TokenStart(s) == Min({i \in DOMAIN s : s[i] # Comma})
TokenEnd(s) == Max({i \in TokenStart(s)..Len(s) : \A j \in TokenStart(s)..i : s[j] # Comma})
HasToken(s) == \E i \in DOMAIN s : s[i] # Comma
Token(s) == SubSeq(s, TokenStart(s), TokenEnd(s))
Rest(s) == SubSeq(s, TokenEnd(s) + 1, Len(s))

TwoTokens == HasToken(package) /\ HasToken(Rest(package))

\* Is the text taken apart?
Taken == Known(request[fd]) /\ package # <<>>

\* When there is no first or no second token, atoi is called with NULL.
handle_request ==
  /\ \/ Goto("handle", "dead") /\ Taken /\ ~ TwoTokens /\ UNCHANGED numbers
     \/ /\ Goto("handle", "close") /\ (Taken => TwoTokens)
        /\ numbers' = IF Taken THEN <<Token(package), Token(Rest(package))>> ELSE <<>>
  /\ UNCHANGED <<files, fd, backlog, client, request, arrived, package, fails, changes>>

\* Mutant: the next connection is accepted without closing this one.
close_connectionMut ==
  /\ Goto("close", "accept") /\ fd' = NoClient
  /\ arrived' = 0 /\ package' = <<>> /\ numbers' = <<>>
  /\ UNCHANGED <<files, backlog, client, request, fails, changes>>

close_connection ==
  /\ Goto("close", "accept")
  /\ client' = [client EXCEPT ![fd] = "ended"] /\ fd' = NoClient
  /\ request' = [request EXCEPT ![fd] = NoRequest]
  /\ arrived' = 0 /\ package' = <<>> /\ numbers' = <<>>
  /\ UNCHANGED <<files, backlog, fails, changes>>

-----------------------------------------------------------------------------
(* The child.  restorecon is chmod, then chown.                            *)

\* Every two seconds nftw begins with the files there are.
restorecon_recursive ==
  /\ child = "sleep" /\ child' = "walk" /\ todo' = Present
  /\ UNCHANGED <<sockets, item, file, fails, changes>>

Set(f, what) == [file EXCEPT ![f] = IF @ = {} THEN @ ELSE @ \cup {what}]

restorecon_chmod ==
  /\ child = "walk" /\ child' = "chown"
  /\ \E f \in todo : item' = f /\ todo' = todo \ {f} /\ file' = Set(f, "mode")
  /\ UNCHANGED <<sockets, fails, changes>>

\* Mutant: the owner is not set.
restorecon_chownMut ==
  /\ child = "chown" /\ child' = "walk"
  /\ UNCHANGED <<sockets, todo, item, file, fails, changes>>

restorecon_chown ==
  /\ child = "chown" /\ child' = "walk" /\ file' = Set(item, "owner")
  /\ UNCHANGED <<sockets, todo, item, fails, changes>>

\* nftw has come to the end, or gives up.
walk_ends ==
  /\ child = "walk" /\ child' = "sleep" /\ todo' = {}
  /\ \/ todo = {} /\ UNCHANGED fails
     \/ todo # {} /\ Fail
  /\ UNCHANGED <<sockets, item, file, changes>>

-----------------------------------------------------------------------------
(* Others.                                                                 *)

Connect(c) ==
  /\ client[c] = "out" /\ server \notin {"listen", "dead"}
  /\ client' = [client EXCEPT ![c] = "connected"] /\ backlog' = Append(backlog, c)
  /\ UNCHANGED <<files, server, fd, request, buffer, fails, changes>>

Speak(c) ==
  /\ client[c] = "connected"
  /\ \/ \E r \in Request : request' = [request EXCEPT ![c] = r] /\ client' = [client EXCEPT ![c] = "sent"]
     \/ client' = [client EXCEPT ![c] = "left"] /\ UNCHANGED request
  /\ UNCHANGED <<files, server, fd, backlog, buffer, fails, changes>>

\* A file is made, with mode and owner of the one who makes it, is changed or is
\* removed.  One that is made during a walk may or may not be found by it.
Meddle(f) ==
  /\ changes < MaxChanges /\ changes' = changes + 1
  /\ \/ /\ file' = [file EXCEPT ![f] = {"there"}]
        /\ todo' \in IF child \in {"walk", "chown"} /\ file[f] = {}
                     THEN {todo, todo \cup {f}} ELSE {todo}
     \/ file[f] # {} /\ file' = [file EXCEPT ![f] = {}] /\ UNCHANGED todo
  /\ UNCHANGED <<sockets, child, item, fails>>

Init ==
  /\ server = "listen" /\ fd = NoClient /\ backlog = <<>>
  /\ client = [c \in Client |-> "out"] /\ request = [c \in Client |-> NoRequest]
  /\ arrived = 0 /\ package = <<>> /\ numbers = <<>>
  /\ child \in {"sleep", "none"}
  /\ todo = {} /\ item \in File /\ file \in [File -> {{}, {"there"}}]
  /\ fails = 0 /\ changes = 0

Parent == \/ socket_local_server \/ accept \/ read_request \/ handle_request
          \/ close_connection
Child == restorecon_recursive \/ restorecon_chmod \/ restorecon_chown \/ walk_ends

Next == \/ Parent \/ Child \/ (\E c \in Client : Connect(c) \/ Speak(c))
        \/ (\E f \in File : Meddle(f))

Spec == Init /\ [][Next]_vars

\* Both processes are run; a client that is not silent says something or leaves.
FairSpec == Spec /\ WF_vars(Parent) /\ WF_vars(Child)
                 /\ \A c \in Client \ Silent : WF_vars(Speak(c))

-----------------------------------------------------------------------------
(* Properties.                                                             *)

\* A request that arrives whole and has two numbers, a comma and a NUL is served
\* with these numbers and does not end the server, whatever the buffer held
\* before; nor does one without any text, or one of another command.
WholeRequestServed ==
  server \in {"close", "dead"} =>
    LET text == SubSeq(request[fd].text, 1, arrived)
        n == Len(text)
    IN  /\ server = "dead" => Known(request[fd]) /\ (text = <<>> \/ text[1] # NUL)
        /\ \A k \in 2..(n - 2) :
             (/\ Known(request[fd]) /\ text[k] = Comma /\ text[n] = NUL
              /\ \A i \in 1..(n - 1) : i # k => text[i] \in Digit) =>
                numbers = <<SubSeq(text, 1, k - 1), SubSeq(text, k + 1, n - 1)>>

\* Every client that says something or leaves is served, however often accepting
\* fails, as long as the server lives and no silent client is ahead of it.
ClientsServed ==
  \A c \in Client :
    (client[c] \in {"sent", "left"}) ~>
      (client[c] = "ended" \/ server = "dead" \/ (fd \in Silent /\ client[fd] = "connected"))

\* When nobody meddles with the files any more, all that are left get the right
\* mode and owner and keep them, also those that were made, changed or removed
\* in the middle of a walk or between chmod and chown.
RestoredForGood ==
  <>[](child = "none" \/ \A f \in File : file[f] \in {{}, {"there", "mode", "owner"}})
=============================================================================
