----------------------------- MODULE LinkServer -----------------------------
(***************************************************************************)
(* The link server's reactor (src/server/server.c main loop), its command  *)
(* processors (process_client.c, process_peer.c) and its timeout sweeps    *)
(* (timeout_old_clients, timeout_old_devices in list_fns.c).               *)
(*                                                                         *)
(* One loop iteration is: select() returns, at most one datagram is        *)
(* handled, then broadcast_status_message (reads state only, not           *)
(* modelled), timeout_old_clients and timeout_old_devices run.  pc says    *)
(* where in the iteration the server is; todo holds what a sweep has still *)
(* to visit.  Each handler and each visit of one client or one device by a *)
(* sweep is one action: it is a whole C call, run to completion.           *)
(*                                                                         *)
(* Time: the clock is read only to compare an age with a timeout, so each  *)
(* client and device keeps the age of its time stamp, counted in poll     *)
(* intervals and saturating at MaxAge, one past the largest timeout.       *)
(***************************************************************************)
EXTENDS RelationshipGraph, SequencesExt

CONSTANTS
    ClientTimeout,      \* g_client_timeout, in poll intervals
    ConnectTimeout,     \* g_connect_timeout, in poll intervals
    DisconnectTimeout,  \* g_disconnect_timeout, in poll intervals
    Signals             \* whether SIGTERM or SIGINT may be delivered

ASSUME {ClientTimeout, ConnectTimeout, DisconnectTimeout} \subseteq Nat
ASSUME Signals \in BOOLEAN

MaxAge ==
    LET m == IF ClientTimeout > ConnectTimeout THEN ClientTimeout
                                               ELSE ConnectTimeout
    IN  (IF m > DisconnectTimeout THEN m ELSE DisconnectTimeout) + 1

VARIABLES
    dev,        \* [Device -> device_t]
    cli,        \* [Client -> client_t]; meaningful for registered clients
    g_clients,  \* the global client list, in insertion order
    pc,         \* "select", "clients", "devices" or "exited"
    todo,       \* clients or devices the running sweep has yet to visit
    g_keep_going

vars == <<dev, cli, g_clients, pc, todo, g_keep_going>>

Registered == Range(g_clients)

\* A freshly malloc'd and memset device_t from parse_device_section:
\* status LINK_DOWN, retries 0, connect_time 0 (the epoch), no clients.
NoDevice == [status |-> DOWN, retries |-> 0, ctime |-> MaxAge,
             clients |-> {}, attempts |-> 0]

NoClient == [heard |-> 0, devices |-> {}]

W == [rc |-> 0, dev |-> dev, cli |-> cli]

Older(a) == IF a < MaxAge THEN a + 1 ELSE a

Init ==
    /\ dev = [d \in Device |-> NoDevice]
    /\ cli = [c \in Client |-> NoClient]
    /\ g_clients = <<>>
    /\ pc = "select"
    /\ todo = <<>>
    /\ g_keep_going = TRUE

-----------------------------------------------------------------------------
(* The sweeps' tests of an age against a timeout.                          *)

\* time (NULL) > (client->last_heard_from + g_client_timeout)
Stale(c, cl) == cl[c].heard > ClientTimeout

\* (connect_time + g_connect_timeout) < time (NULL), and the same for
\* DISCONNECTING with g_disconnect_timeout.
TimedOut(dv) ==
    \/ dv.status = CONNECTING /\ dv.ctime > ConnectTimeout
    \/ dv.status = DISCONNECTING /\ dv.ctime > DisconnectTimeout

\* After the handler (result r, client list gc) the iteration goes on to
\* timeout_old_clients, which will visit the stale clients of gc in order.
Dispatched(r, gc) ==
    /\ dev' = r.dev
    /\ cli' = r.cli
    /\ g_clients' = gc
    /\ pc' = "clients"
    /\ todo' = SelectSeq(gc, LAMBDA c : Stale(c, r.cli))
    /\ UNCHANGED g_keep_going

-----------------------------------------------------------------------------
(* select() and the datagram handlers.                                     *)

\* Time passes while the server is blocked in select().
Tick ==
    /\ pc = "select"
    /\ dev' = [d \in Device |-> [dev[d] EXCEPT !.ctime = Older(@)]]
    /\ cli' = [c \in Client |->
                 IF c \in Registered THEN [cli[c] EXCEPT !.heard = Older(@)]
                                     ELSE cli[c]]
    /\ UNCHANGED <<g_clients, pc, todo, g_keep_going>>

\* select() timed out, or the datagram had neither prefix (ENOTSUP).
SelectTimeout ==
    /\ pc = "select"
    /\ Dispatched(W, g_clients)

\* get_client: the clients are told apart by IP address alone.
get_client(gc, c) == c \in Range(gc)

\* Mutant: adds the sender without looking it up first.
Joined_no_lookup(c) == Append(g_clients, c)

\* process_client, before the command: find the client by address, or
\* malloc a new one and add_client it at the end of g_clients.
Joined(c) == IF get_client(g_clients, c) THEN g_clients
                                          ELSE Append(g_clients, c)

\* update_client: last_heard_from = time (NULL).

Heard(c) == [W EXCEPT !.cli[c].heard = 0]

\* CLIENT PING, DEVICES, STATUS <d> and CLIENT_STATUS, and any command
\* naming an unknown device: the only state change is the refresh.
ClientPing(c) ==
    /\ pc = "select"
    /\ Dispatched(Heard(c), Joined(c))

\* CLIENT UP <d>
ClientUp(c, d) ==
    /\ pc = "select"
    /\ \E o \in Outcome :
         Dispatched(connect_client_to_device(Heard(c), c, d, o,
                                             Range(Joined(c))),
                    Joined(c))

\* CLIENT DOWN <d>: the device is looked up in the client's own list.
ClientDown(c, d) ==
    /\ pc = "select"
    /\ \E o \in Outcome :
         LET w == Heard(c) IN
         Dispatched(IF d \notin w.cli[c].devices THEN w
                    ELSE disconnect_client_from_device(w, c, d, o,
                                                       Range(Joined(c))),
                    Joined(c))

\* CLIENT FORCE_DOWN <d>: request LINK_DOWN, then clear the device's list.
ClientForceDown(c, d) ==
    /\ pc = "select"
    /\ \E o \in Outcome :
         LET a == alter_device_status(Heard(c), d, DOWN, o, Range(Joined(c)))
         IN  Dispatched(IF a.rc < 0 THEN a
                        ELSE remove_all_clients_from_device(a, d),
                        Joined(c))

\* NOTIFY ISUP <d>: the result of alter_device_status is ignored.
PeerIsUp(d) ==
    /\ pc = "select"
    /\ \E o \in Outcome :
         Dispatched(alter_device_status(W, d, UP, o, Registered), g_clients)

\* NOTIFY ISDOWN <d>
PeerIsDown(d) ==
    /\ pc = "select"
    /\ \E o \in Outcome :
         Dispatched(alter_device_status(W, d, DOWN, o, Registered),
                    g_clients)

-----------------------------------------------------------------------------
(* timeout_old_clients and timeout_old_devices.                            *)

\* Disconnecting never runs link_up, so one link_up result stands for all.
DisconnectOutcome ==
    [up : {CHOOSE x \in UpResult : TRUE}, down : DownResult,
     force : ForceResult]

\* Mutant: ignores the result of remove_client_from_all_devices.
EvictionAborts_never(rc) == FALSE

\* "if (remove_client_from_all_devices (client) < 0) return (-1);"
EvictionAborts(rc) == rc < 0

\* Visit the next stale client: disconnect it from every device, then
\* rm_client and free it.  A failure ends the whole sweep with the client
\* still registered.
SweepClient ==
    /\ pc = "clients"
    /\ todo # <<>>
    /\ \E O \in [Device -> DisconnectOutcome] :
         LET c == Head(todo)
             r == remove_client_from_all_devices(W, c, O, Registered)
         IN  IF EvictionAborts(r.rc)
             THEN /\ dev' = r.dev
                  /\ cli' = r.cli
                  /\ todo' = <<>>
                  /\ UNCHANGED g_clients
             ELSE /\ dev' = r.dev
                  /\ cli' = [r.cli EXCEPT ![c] = NoClient]
                  /\ g_clients' = Remove(g_clients, c)
                  /\ todo' = Tail(todo)
    /\ UNCHANGED <<pc, g_keep_going>>

StartDeviceSweep ==
    /\ pc = "clients"
    /\ todo = <<>>
    /\ pc' = "devices"
    /\ todo' = SelectSeq(DeviceList, LAMBDA d : TimedOut(dev[d]))
    /\ UNCHANGED <<dev, cli, g_clients, g_keep_going>>

\* Visit the next timed-out device: request the state it is already in.
SweepDevice ==
    /\ pc = "devices"
    /\ todo # <<>>
    /\ \E o \in Outcome :
         LET d == Head(todo)
             r == alter_device_status(W, d, dev[d].status, o, Registered)
         IN  /\ dev' = r.dev
             /\ cli' = r.cli
             /\ todo' = IF r.rc < 0 THEN <<>> ELSE Tail(todo)
    /\ UNCHANGED <<g_clients, pc, g_keep_going>>

\* "while (g_keep_going)" at the top of the next iteration; once it fails,
\* broadcast_quit_message (its failure only printed) and return.
LoopEnd == IF g_keep_going THEN "select" ELSE "exited"

EndDeviceSweep ==
    /\ pc = "devices"
    /\ todo = <<>>
    /\ pc' = LoopEnd
    /\ UNCHANGED <<dev, cli, g_clients, todo, g_keep_going>>

\* termination_handler: SIGTERM or SIGINT clears g_keep_going.  The flag
\* is read only by the loop test, so the signal is taken just before it:
\* one delivered earlier in the iteration is the same behaviour with the
\* flag cleared sooner.  Delivered while the server is blocked in select(),
\* it makes select() fail with EINTR, which clears the flag again and goes
\* on like a timeout (SelectTimeout); delivered between the loop test and
\* select(), select() still waits and may return a datagram.
termination_handler ==
    /\ Signals
    /\ g_keep_going
    /\ pc = "devices"
    /\ todo = <<>>
    /\ g_keep_going' = FALSE
    /\ UNCHANGED <<dev, cli, g_clients, pc, todo>>

\* The process has returned from main.
Exited ==
    /\ pc = "exited"
    /\ UNCHANGED vars

-----------------------------------------------------------------------------
Next ==
    \/ Tick
    \/ SelectTimeout
    \/ \E c \in Client : ClientPing(c)
    \/ \E c \in Client, d \in Device : ClientUp(c, d)
    \/ \E c \in Client, d \in Device : ClientDown(c, d)
    \/ \E c \in Client, d \in Device : ClientForceDown(c, d)
    \/ \E d \in Device : PeerIsUp(d)
    \/ \E d \in Device : PeerIsDown(d)
    \/ SweepClient
    \/ StartDeviceSweep
    \/ SweepDevice
    \/ EndDeviceSweep
    \/ termination_handler
    \/ Exited

\* The reactor never stops between two calls, and select() returns once
\* the poll interval has passed.  Clients and peers owe nothing: no
\* fairness on their datagrams.  Time passing is strongly fair: the server
\* is back in select() infinitely often and the clock does not stop.
Fairness ==
    /\ WF_vars(SelectTimeout)
    /\ WF_vars(SweepClient)
    /\ WF_vars(StartDeviceSweep)
    /\ WF_vars(SweepDevice)
    /\ WF_vars(EndDeviceSweep)
    /\ SF_vars(Tick)

Spec == Init /\ [][Next]_vars

LiveSpec == Spec /\ Fairness

-----------------------------------------------------------------------------
(* Properties.                                                             *)

\* Every variable has its type, and g_clients holds an address at most once
\* (process_client looks the sender up before it adds a client).
TypeOK ==
    /\ dev \in [Device -> [status : Status, retries : -1 .. Retries,
                           ctime : 0 .. MaxAge, clients : SUBSET Client,
                           attempts : 0 .. AttemptCap]]
    /\ cli \in [Client -> [heard : 0 .. MaxAge, devices : SUBSET Device]]
    /\ g_clients \in Seq(Client) /\ IsInjective(g_clients)
    /\ pc \in {"select", "clients", "devices", "exited"}
    /\ todo \in Seq(Client \cup Device)
    /\ g_keep_going \in BOOLEAN

\* Edge symmetry: after every call, a device is in a client's
\* devices_connected exactly when the client is in the device's
\* clients_connected (connect, disconnect, force-down and eviction each
\* update the two halves in separate steps).
EdgeSymmetry ==
    \A c \in Client, d \in Device :
        d \in cli[c].devices <=> c \in dev[d].clients

\* A device is held up (CONNECTING or UP) exactly while some client uses
\* it: the first connect starts it, the last disconnect, an eviction,
\* FORCE_DOWN, ISDOWN and retry exhaustion must all leave the two in step.
InUseIffActive ==
    \A d \in Device :
        dev[d].clients # {} <=> dev[d].status \in {CONNECTING, UP}

\* Retry budget: from entering CONNECTING until it leaves it, link_up runs
\* at most g_retries + 1 times (the first attempt and g_retries retries by
\* the connect-timeout sweep).
RetryBudget ==
    \A d \in Device : dev[d].attempts <= Retries + 1

\* No device keeps a client that timeout_old_clients has freed: an
\* eviction that fails part-way must keep the client registered.
NoDanglingClient ==
    \A d \in Device : dev[d].clients \subseteq Registered

\* A device stuck CONNECTING is eventually retried to exhaustion or comes
\* up: the connect-timeout sweep does not let it stay CONNECTING forever
\* while the server runs.
ConnectingResolves ==
    \A d \in Device :
        dev[d].status = CONNECTING ~> dev[d].status # CONNECTING \/ pc = "exited"

\* A device left DISCONNECTING eventually reaches DOWN (the disconnect
\* timeout forces it) unless a new client restarts it or the server exits.
DisconnectingResolves ==
    \A d \in Device :
        dev[d].status = DISCONNECTING
            ~> dev[d].status \in {DOWN, CONNECTING} \/ pc = "exited"


\* Refinement: the server implements LinkUsage.  A device's users are its
\* clients_connected and its link is held up while it is CONNECTING or UP;
\* every handler and sweep visit is one abstract step (use, release,
\* eviction, drop) or leaves the usage alone.
Usage == INSTANCE LinkUsage WITH
             users <- [d \in Device |-> dev[d].clients],
             active <- [d \in Device |-> dev[d].status \in {CONNECTING, UP}]

UsageRefinement == Usage!Spec
=============================================================================
