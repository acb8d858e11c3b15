---------------------------- MODULE MCLinkServer ----------------------------
(***************************************************************************)
(* Model-checking instance of LinkServer: two devices in configuration    *)
(* order and two client addresses.                                         *)
(***************************************************************************)
EXTENDS LinkServer, TLC

CONSTANTS d1, d2, c1, c2

MCDeviceList == <<d1, d2>>
MCClient == {c1, c2}

\* Client addresses are interchangeable: nothing in the server orders them
\* except g_clients, which is part of the state.
ClientSymmetry == Permutations(MCClient)

\* The state as the server's future sees it: the connect_time of a DOWN
\* device is overwritten before it is next read (every way out of DOWN goes
\* through ToConnecting, which stamps it), and the history field attempts
\* is read only by RetryBudget.  Runs that do not check RetryBudget use it
\* as their VIEW.
ServerView ==
    << [d \in Device |->
          [dev[d] EXCEPT !.attempts = 0,
                         !.ctime = IF dev[d].status = DOWN THEN 0 ELSE @]],
       cli, g_clients, pc, todo, g_keep_going >>
=============================================================================
