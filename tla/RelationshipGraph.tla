------------------------- MODULE RelationshipGraph -------------------------
(***************************************************************************)
(* The client <-> device edges of the link server (src/server/list_fns.c:  *)
(* connect_client_to_device, disconnect_client_from_device and the         *)
(* remove_* bulk functions).  An edge is kept twice, once in the device's  *)
(* clients_connected and once in the client's devices_connected; the code  *)
(* updates the two halves in separate steps, which is why they are two     *)
(* sets here and not one relation.  The lists are sets: membership is all  *)
(* any caller reads of them, and add_client/add_device refuse a duplicate. *)
(***************************************************************************)
EXTENDS LinkStateMachine

\* rm_device (&client->devices_connected, device); ENODEV is ignored.
RmDevice(w, c, d) == [w EXCEPT !.rc = 0, !.cli[c].devices = rm_device(@, d)]

\* The first client of a device starts the link: reset the retry budget and
\* request CONNECTING; only when that succeeds is the edge added on both
\* sides (EALREADY from add_client/add_device is ignored, so a second
\* connect changes nothing).
connect_client_to_device(w, c, d, o, reg) ==
    LET first == w.dev[d].clients = {}
        a     == IF first
                 THEN alter_device_status(ResetRetries(w, d), d, CONNECTING,
                                          o, reg)
                 ELSE Ret(w, 0)
    IN  IF a.rc < 0 THEN a
        ELSE [a EXCEPT !.rc = 0,
                       !.dev[d].clients = add_client(@, c),
                       !.cli[c].devices = add_device(@, d)]

\* Mutant: tests for an empty device before removing the client.
disconnect_empty_before_remove(w, c, d, o, reg) ==
    IF c \notin w.dev[d].clients
    THEN RmDevice(w, c, d)
    ELSE LET w1 == [w EXCEPT !.dev[d].clients = rm_client(@, c)]
             a  == IF w.dev[d].clients = {}
                   THEN alter_device_status(w1, d, DISCONNECTING, o, reg)
                   ELSE Ret(w1, 0)
         IN  IF a.rc < 0 THEN a ELSE RmDevice(a, c, d)

\* Remove the device's half of the edge first; when that empties the device
\* request DISCONNECTING, and return -1 at once if the request fails, before
\* the client's half is removed.
disconnect_client_from_device(w, c, d, o, reg) ==
    IF c \notin w.dev[d].clients
    THEN RmDevice(w, c, d)
    ELSE LET w1 == [w EXCEPT !.dev[d].clients = rm_client(@, c)]
             a  == IF w1.dev[d].clients = {}
                   THEN alter_device_status(w1, d, DISCONNECTING, o, reg)
                   ELSE Ret(w1, 0)
         IN  IF a.rc < 0 THEN a ELSE RmDevice(a, c, d)

\* Disconnect the client from every device, in g_devices order, stopping at
\* the first failure.  O gives the command results per device.
RECURSIVE DisconnectEach(_, _, _, _, _)
DisconnectEach(w, c, ds, O, reg) ==
    IF ds = <<>> THEN Ret(w, 0)
    ELSE LET r == disconnect_client_from_device(w, c, Head(ds),
                                                O[Head(ds)], reg)
         IN  IF r.rc < 0 THEN r ELSE DisconnectEach(r, c, Tail(ds), O, reg)

remove_client_from_all_devices(w, c, O, reg) ==
    DisconnectEach(w, c, DeviceList, O, reg)
=============================================================================
