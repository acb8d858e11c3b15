---------------------------- MODULE DisplayClient ----------------------------
(***************************************************************************)
(* The display client (src/linux_client): a listener thread that applies   *)
(* the servers' multicast broadcasts to g_servers (listen_status.c) and    *)
(* the main thread that waits for a first server and then prints g_servers *)
(* every few seconds (client.c).  The two share g_servers under            *)
(* g_servers_mutex and g_servers_cond.                                     *)
(*                                                                         *)
(* Each thread has a program counter; a step is what runs between two      *)
(* points where the other thread can observe a difference: a mutex         *)
(* operation, or a read or write of g_servers outside the mutex.           *)
(* g_socket_fd_mutex is left out: after init_socket only the listener      *)
(* takes it.  A STATUS broadcast carries the server's device list, written *)
(* and read back as StatusMessage describes.                              *)
(***************************************************************************)
EXTENDS StatusMessage

CONSTANTS
    Server,       \* server addresses (model values)
    Tables        \* the device lists a server may broadcast: sequences of
                  \* [name, status, uptime, users]

DevStatus == {"DOWN", "UP", "CONNECTING", "DISCONNECTING"}

\* The broadcasts of src/server/poll_clients.c, as the listener sees them:
\* a STATUS broadcast of the device list devs, and what recvfrom has put
\* in recv_buffer for it.
Msg == [kind : {"INIT", "QUIT"}, from : Server]
       \cup {[kind |-> "STATUS", from |-> s, devs |-> t,
              rcv |-> Received(broadcast_status_message(t))] :
              s \in Server, t \in Tables}

VARIABLES
    g_servers,  \* the server list, in insertion order
    devices,    \* devices_controlled of each server_t, by device name
    owner,      \* the holder of g_servers_mutex: "none", "L" or "D"
    pcL,        \* the listener thread's program counter
    pcD,        \* the main (display) thread's program counter
    msg,        \* the datagram the listener is processing
    heardFrom   \* history: servers heard from since their last QUIT

vars == <<g_servers, devices, owner, pcL, pcD, msg, heardFrom>>

\* The program points at which a thread holds, or believes it holds, the
\* mutex.
LInside == {"add", "heard", "init", "quit"}
DInside == {"wait_test", "wait_call", "show", "dead"}

NoDevices == <<>>

Init ==
    /\ g_servers = <<>>
    /\ devices = [s \in Server |-> NoDevices]
    /\ owner = "none"
    /\ pcL = "select"
    /\ pcD = "check"
    /\ msg = CHOOSE m \in Msg : TRUE
    /\ heardFrom = {}

-----------------------------------------------------------------------------
(* The mutex and the server list.                                          *)

\* pthread_mutex_lock: blocks until nobody holds the mutex.
Acquire(t) == owner = "none" /\ owner' = t

\* pthread_mutex_unlock.  Unlocking a mutex the thread does not hold is
\* undefined: the default mutex of glibc and musl releases it whoever
\* holds it, an error-checking mutex refuses and leaves it held.
Release(t) ==
    IF owner = t THEN owner' = "none" ELSE owner' \in {"none", owner}

get_server(gs, s) == s \in Range(gs)

\* add_server refuses an address already in the list (EALREADY).
add_server(gs, s) == IF get_server(gs, s) THEN gs ELSE Append(gs, s)

\* rm_server: when the server is the first node the list is set to NULL,
\* not to the node after it.
rm_server(gs, s) ==
    CASE gs = <<>>    -> gs
      [] Head(gs) = s -> <<>>
      [] OTHER        -> Remove(gs, s)

-----------------------------------------------------------------------------
(* The listener thread: listen_for_status and process_command.             *)

\* select() returns and recvfrom() reads the next datagram.  Multicast
\* loses, repeats and reorders, so any broadcast may come next.
Receive ==
    /\ pcL = "select"
    /\ \E m \in Msg : msg' = m
    /\ pcL' = "lookup"
    /\ UNCHANGED <<g_servers, devices, owner, pcD, heardFrom>>

\* get_server, without the mutex: only this thread writes g_servers.
Lookup ==
    /\ pcL = "lookup"
    /\ pcL' = IF get_server(g_servers, msg.from) THEN "heard_lock"
                                                 ELSE "add_lock"
    /\ UNCHANGED <<g_servers, devices, owner, pcD, msg, heardFrom>>

AddLock ==
    /\ pcL = "add_lock"
    /\ Acquire("L")
    /\ pcL' = "add"
    /\ UNCHANGED <<g_servers, devices, pcD, msg, heardFrom>>

\* add_server of a fresh server_t (devices_controlled = NULL), signal the
\* condition, unlock.  A signal with no waiter is lost.
Add ==
    /\ pcL = "add"
    /\ g_servers' = add_server(g_servers, msg.from)
    /\ devices' = [devices EXCEPT ![msg.from] = NoDevices]
    /\ pcD' = IF pcD = "waiting" THEN "reacquire" ELSE pcD
    /\ Release("L")
    /\ pcL' = "heard_lock"
    /\ UNCHANGED <<msg, heardFrom>>

HeardLock ==
    /\ pcL = "heard_lock"
    /\ Acquire("L")
    /\ pcL' = "heard"
    /\ UNCHANGED <<g_servers, devices, pcD, msg, heardFrom>>

\* last_heard_from = time (NULL), unlock, then branch on the prefix.
Heard ==
    /\ pcL = "heard"
    /\ Release("L")
    /\ pcL' = CASE msg.kind = "INIT"   -> "init_lock"
                [] msg.kind = "QUIT"   -> "quit_lock"
                [] msg.kind = "STATUS" -> "status_unlock"
    /\ heardFrom' = IF msg.kind = "QUIT" THEN heardFrom
                                         ELSE heardFrom \cup {msg.from}
    /\ UNCHANGED <<g_servers, devices, pcD, msg>>

InitLock ==
    /\ pcL = "init_lock"
    /\ Acquire("L")
    /\ pcL' = "init"
    /\ UNCHANGED <<g_servers, devices, pcD, msg, heardFrom>>

\* "while (new_server->devices_controlled) rm_device (..., its head)".
RECURSIVE DropDevices(_)
DropDevices(list) ==
    IF list = NoDevices THEN list ELSE DropDevices(rm_device(list, Head(list)))

\* BROADCAST INIT: rm_device every device of the server, unlock.
ProcessInit ==
    /\ pcL = "init"
    /\ devices' = [devices EXCEPT ![msg.from] = DropDevices(@)]
    /\ Release("L")
    /\ pcL' = "select"
    /\ UNCHANGED <<g_servers, pcD, msg, heardFrom>>

QuitLock ==
    /\ pcL = "quit_lock"
    /\ Acquire("L")
    /\ pcL' = "quit"
    /\ UNCHANGED <<g_servers, devices, pcD, msg, heardFrom>>

\* Mutant: returns from the QUIT branch without unlocking.
ProcessQuit_keeps_lock ==
    /\ pcL = "quit"
    /\ g_servers' = rm_server(g_servers, msg.from)
    /\ heardFrom' = heardFrom \ {msg.from}
    /\ UNCHANGED owner
    /\ pcL' = "select"
    /\ UNCHANGED <<devices, pcD, msg>>

\* BROADCAST QUIT: rm_server, unlock.
ProcessQuit ==
    /\ pcL = "quit"
    /\ g_servers' = rm_server(g_servers, msg.from)
    /\ heardFrom' = heardFrom \ {msg.from}
    /\ Release("L")
    /\ pcL' = "select"
    /\ UNCHANGED <<devices, pcD, msg>>

\* BROADCAST STATUS starts with an unlock of a mutex the listener does not
\* hold.
StatusUnlock ==
    /\ pcL = "status_unlock"
    /\ Release("L")
    /\ pcL' = "status"
    /\ UNCHANGED <<g_servers, devices, pcD, msg, heardFrom>>

\* The outcomes of process_command for the current BROADCAST STATUS.
StatusOutcome == ReceiveStatus(devices[msg.from], msg.rcv)

\* process_status_message on what recvfrom kept of the broadcast text.  No
\* mutex is taken.  A fault on the way ends the process, both threads
\* with it.
ProcessStatus ==
    /\ pcL = "status"
    /\ \E r \in StatusOutcome :
         IF r.crash
         THEN /\ pcL' = "dead"
              /\ pcD' = "dead"
              /\ UNCHANGED devices
         ELSE /\ devices' = [devices EXCEPT ![msg.from] = r.list]
              /\ pcL' = "status_unlock2"
              /\ UNCHANGED pcD
    /\ UNCHANGED <<g_servers, owner, msg, heardFrom>>

\* ... and ends with a second unlock of it.
StatusUnlock2 ==
    /\ pcL = "status_unlock2"
    /\ Release("L")
    /\ pcL' = "select"
    /\ UNCHANGED <<g_servers, devices, pcD, msg, heardFrom>>

-----------------------------------------------------------------------------
(* The main thread: the display loop and wait_for_servers.                 *)

\* "if (g_servers == NULL)", read without the mutex.
Check ==
    /\ pcD = "check"
    /\ pcD' = IF g_servers = <<>> THEN "wait_lock" ELSE "lock"
    /\ UNCHANGED <<g_servers, devices, owner, pcL, msg, heardFrom>>

WaitLock ==
    /\ pcD = "wait_lock"
    /\ Acquire("D")
    /\ pcD' = "wait_test"
    /\ UNCHANGED <<g_servers, devices, pcL, msg, heardFrom>>

\* "while (g_servers == NULL)"; on leaving the loop, unlock.
WaitTest ==
    /\ pcD = "wait_test"
    /\ IF g_servers = <<>>
       THEN pcD' = "wait_call" /\ UNCHANGED owner
       ELSE pcD' = "lock" /\ Release("D")
    /\ UNCHANGED <<g_servers, devices, pcL, msg, heardFrom>>

\* pthread_cond_timedwait releases the mutex and sleeps on the condition.
WaitCall ==
    /\ pcD = "wait_call"
    /\ Release("D")
    /\ pcD' = "waiting"
    /\ UNCHANGED <<g_servers, devices, pcL, msg, heardFrom>>

\* The one-second timeout expires without a signal.
Timeout ==
    /\ pcD = "waiting"
    /\ pcD' = "timed_out"
    /\ UNCHANGED <<g_servers, devices, owner, pcL, msg, heardFrom>>

\* pthread_cond_timedwait takes the mutex back before it returns.  After a
\* signal it returns 0 and the loop tests g_servers again.  After a timeout
\* it returns ETIMEDOUT but leaves errno alone, so "switch (errno)" sees
\* whatever an earlier call left there, never ETIMEDOUT or EINTR, and
\* wait_for_servers returns -1 with the mutex still held; main prints
\* "wait_for_servers()" and calls exit (EXIT_FAILURE), ending both threads.
Reacquire ==
    /\ pcD \in {"reacquire", "timed_out"}
    /\ Acquire("D")
    /\ IF pcD = "reacquire"
       THEN pcD' = "wait_test" /\ UNCHANGED pcL
       ELSE pcD' = "dead" /\ pcL' = "dead"
    /\ UNCHANGED <<g_servers, devices, msg, heardFrom>>

Lock ==
    /\ pcD = "lock"
    /\ Acquire("D")
    /\ pcD' = "show"
    /\ UNCHANGED <<g_servers, devices, pcL, msg, heardFrom>>

\* Print every server and device, unlock, sleep (5).
Show ==
    /\ pcD = "show"
    /\ Release("D")
    /\ pcD' = "check"
    /\ UNCHANGED <<g_servers, devices, pcL, msg, heardFrom>>

-----------------------------------------------------------------------------
Listener ==
    \/ Receive \/ Lookup \/ AddLock \/ Add \/ HeardLock \/ Heard
    \/ InitLock \/ ProcessInit \/ QuitLock \/ ProcessQuit
    \/ StatusUnlock \/ ProcessStatus \/ StatusUnlock2

Display ==
    \/ Check \/ WaitLock \/ WaitTest \/ WaitCall \/ Timeout \/ Reacquire
    \/ Lock \/ Show

\* After exit the process is gone: nothing changes any more.
Exited ==
    /\ pcD = "dead"
    /\ UNCHANGED vars

Next == Listener \/ Display \/ Exited

\* Both threads keep running once they can.  Nothing makes the servers
\* broadcast, so Receive has no fairness.  A mutex that is free again and
\* again is eventually granted to a thread blocked on it (strong fairness
\* on the lock steps); the listener holds it only for a few statements and
\* the display thread sleeps between its turns.
Fairness ==
    /\ WF_vars(Lookup) /\ WF_vars(Add) /\ WF_vars(Heard)
    /\ WF_vars(ProcessInit) /\ WF_vars(ProcessQuit)
    /\ WF_vars(StatusUnlock) /\ WF_vars(ProcessStatus)
    /\ WF_vars(StatusUnlock2)
    /\ SF_vars(AddLock) /\ SF_vars(HeardLock) /\ SF_vars(InitLock)
    /\ SF_vars(QuitLock)
    /\ WF_vars(Check) /\ WF_vars(WaitTest) /\ WF_vars(WaitCall)
    /\ WF_vars(Timeout) /\ WF_vars(Show)
    /\ SF_vars(WaitLock) /\ SF_vars(Reacquire) /\ SF_vars(Lock)

Spec == Init /\ [][Next]_vars

LiveSpec == Spec /\ Fairness

-----------------------------------------------------------------------------
(* Properties.                                                             *)

\* Every variable has its type, and whoever the mutex names as its holder
\* is inside one of its own locked regions: no path of process_command or
\* of the display loop leaves g_servers_mutex locked behind it.
TypeOK ==
    /\ g_servers \in Seq(Server)
    /\ DOMAIN devices = Server
    /\ \A s \in Server : \A e \in Range(devices[s]) :
         /\ DOMAIN e = {"name", "status", "connect_time", "no_users"}
         /\ e.name # <<>>
         /\ e.status \in DevStatus
         /\ {e.connect_time, e.no_users} \subseteq Nat \cup {Garbage}
    /\ owner \in {"none", "L", "D"}
    /\ msg \in Msg
    /\ heardFrom \subseteq Server
    /\ owner = "L" => pcL \in LInside
    /\ owner = "D" => pcD \in DInside

\* While the display thread prints g_servers under the mutex, the listener
\* never writes a server or device entry.
DisplayReadsConsistent ==
    ~(pcD = "show" /\ pcL \in LInside \cup {"status"})

\* What a server's device looks like in the client's list once the
\* broadcast that carries it has been read: its name, its status and, for
\* an UP device, the uptime and user count.
Shown(e) ==
    [name |-> <<e.name>>, status |-> e.status,
     connect_time |-> IF e.status = "UP" THEN e.uptime ELSE 0,
     no_users |-> IF e.status = "UP" THEN e.users ELSE 0]

\* Once process_status_message has read a BROADCAST STATUS, the client's
\* list for that server holds every device of the broadcast as the server
\* printed it (print_device_status), and no device under a name the server
\* does not have.
ClientShowsBroadcast ==
    pcL = "status_unlock2" =>
        /\ \A i \in 1..Len(msg.devs) : Shown(msg.devs[i]) \in Range(devices[msg.from])
        /\ \A e \in Range(devices[msg.from]) :
               \E t \in Tables : \E i \in 1..Len(t) : e.name = <<t[i].name>>

\* A server that has broadcast and has not quit stays in g_servers:
\* removing one server (BROADCAST QUIT) keeps the others.
ServersKept ==
    pcL = "select" => heardFrom \subseteq Range(g_servers)

\* Once some server stays known, the display keeps showing: the main thread
\* neither sleeps on g_servers_cond nor waits for the mutex forever, and
\* a wait for the first server that times out only sends it round the
\* "while (g_servers == NULL)" loop again (the comment and the ETIMEDOUT
\* case of wait_for_servers).
DisplayKeepsShowing ==
    <>[](g_servers # <<>>) => []<>(pcD = "show")
=============================================================================
