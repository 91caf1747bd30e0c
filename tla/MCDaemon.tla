------------------------------ MODULE MCDaemon ------------------------------
(***************************************************************************)
(* An instance of Daemon for TLC.                                          *)
(***************************************************************************)
EXTENDS Daemon

CONSTANTS c1, c2

Send(text) == [known |-> TRUE, text |-> text]

\* Two numbers with and without the NUL, a comma too many, one number, no text,
\* and another command.
MCRequests == {Send(<<1, Comma, 2, NUL>>), Send(<<1, Comma, 2>>), Send(<<Comma, 1, NUL>>),
               Send(<<NUL>>), [known |-> FALSE, text |-> <<1, NUL>>]}
MCJunk == {<<>>, <<3>>, <<Comma, 3>>}

\* The two processes share nothing.  It is enough to look at one of them at a time:
\* clients come only when fork has failed, and files change only when it has not.
OneAtATime == IF child = "none" THEN changes = 0 ELSE \A c \in Client : client[c] = "out"
=============================================================================
