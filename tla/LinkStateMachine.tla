-------------------------- MODULE LinkStateMachine --------------------------
(***************************************************************************)
(* The per-device link state machine of the link server                    *)
(* (src/server/list_fns.c: link_up, link_down, link_force_down and         *)
(* alter_device_status).                                                   *)
(*                                                                         *)
(* The server is single threaded and these are plain C functions called    *)
(* one after another inside a handler, so they are written as operators    *)
(* from a server state w to a server state, not as actions: a handler      *)
(* (module LinkServer) chains them the way the C code chains the calls.    *)
(* A server state is a record                                              *)
(*   [rc  |-> the return code of the last call,                            *)
(*    dev |-> [Device -> device_t],  cli |-> [Client -> client_t]]         *)
(* where a device_t keeps status, retries, the age of connect_time and     *)
(* the set clients_connected, and a client_t keeps the age of              *)
(* last_heard_from and the set devices_connected.  Times are ages counted  *)
(* in poll intervals and saturate at MaxAge (see LinkServer).              *)
(*                                                                         *)
(* Every call of an external command goes through system(); its result is *)
(* one of                                                                  *)
(*   "ok"    the command exited 0:           system() returns 0            *)
(*   "fail"  the command exited non-zero:    system() returns a positive   *)
(*                                           wait status                   *)
(*   "error" no command could be run:        system() returns -1           *)
(* An Outcome fixes the result of each of the three commands for one call  *)
(* of alter_device_status; UpResult, DownResult and ForceResult say which  *)
(* results a run lets the environment produce.                             *)
(***************************************************************************)
EXTENDS Integers, Sequences, Functions

CONSTANTS
    DeviceList,   \* g_devices, in configuration order
    Client,       \* client addresses (model values)
    Retries,      \* g_retries
    UpResult,     \* results link_up_command may have
    DownResult,   \* results link_down_command may have
    ForceResult   \* results link_force_down_command may have

Device == Range(DeviceList)

\* add_device refuses a second device of the same name.
ASSUME /\ IsInjective(DeviceList)
       /\ Retries \in Nat

DOWN == "DOWN"
UP == "UP"
CONNECTING == "CONNECTING"
DISCONNECTING == "DISCONNECTING"
Status == {DOWN, UP, CONNECTING, DISCONNECTING}

SysResult == {"ok", "fail", "error"}
ASSUME UpResult \cup DownResult \cup ForceResult \subseteq SysResult

Outcome == [up : UpResult, down : DownResult, force : ForceResult]

\* The value system() returns for a result: the wait status of a command
\* that exited non-zero is positive, so only "error" is negative.
system(x) == CASE x = "ok" -> 0 [] x = "fail" -> 1 [] x = "error" -> -1

\* retries counts down below zero only while a give-up is under way and is
\* reset before it is read again, so every negative value behaves as -1.
Dec(r) == IF r > -1 THEN r - 1 ELSE -1

\* attempts is a history field, not in device_t: how many times link_up
\* has run since the device last entered CONNECTING from another state.
AttemptCap == Retries + 2

Ret(w, rc) == [w EXCEPT !.rc = rc]

SetStatus(w, d, s) == [w EXCEPT !.rc = 0, !.dev[d].status = s]

\* The list primitives on a device's clients_connected or a client's
\* devices_connected.  add_* refuses a duplicate (EALREADY) and rm_* an
\* absent element (ENODEV); every caller ignores both, so a list is a set.
add_client(S, c) == S \cup {c}
rm_client(S, c) == S \ {c}
add_device(S, d) == S \cup {d}
rm_device(S, d) == S \ {d}

\* Clears only the device's half of every edge of d.
remove_all_clients_from_device(w, d) ==
    [w EXCEPT !.rc = 0, !.dev[d].clients = {}]

\* rm_device of d from every registered client's list (reg is g_clients).
remove_device_from_all_clients(w, d, reg) ==
    [w EXCEPT !.rc = 0,
              !.cli = [c \in DOMAIN @ |->
                         IF c \in reg
                         THEN [@[c] EXCEPT !.devices = rm_device(@, d)]
                         ELSE @[c]]]

-----------------------------------------------------------------------------
(* The three command wrappers.                                             *)

link_up(w, d, o) ==
    LET rc == system(o.up) IN
    [w EXCEPT !.rc = rc,
              !.dev[d].ctime = IF rc = 0 THEN 0 ELSE @,
              !.dev[d].attempts =
                  IF w.dev[d].status = CONNECTING
                  THEN IF @ < AttemptCap THEN @ + 1 ELSE @
                  ELSE 1]

link_down(w, d, o) ==
    LET rc == system(o.down) IN
    [w EXCEPT !.rc = rc, !.dev[d].ctime = IF rc = 0 THEN 0 ELSE @]

\* On success the device is severed from every client on both sides:
\* remove_all_clients_from_device, then remove_device_from_all_clients over
\* the registered clients reg (g_clients).
link_force_down(w, d, o, reg) ==
    LET rc == system(o.force) IN
    IF rc # 0 THEN Ret(w, rc)
    ELSE remove_device_from_all_clients(
             remove_all_clients_from_device(w, d), d, reg)

-----------------------------------------------------------------------------
(* alter_device_status, one operator per requested state.                  *)

\* Mutant: gives up one retry late.
RetryExhausted_late(old) == old < -1

\* "if (device->retries-- < 0)": the test reads the value before the
\* decrement.
RetryExhausted(old) == old < 0

\* Mutant: the reset also runs for a retry from CONNECTING.
FreshAttempt_always(st) == st \in {DOWN, DISCONNECTING, CONNECTING}

\* The states from which a CONNECTING request falls through to the
\* "device->retries = g_retries" of case LINK_DOWN.
FreshAttempt(st) == st \in {DOWN, DISCONNECTING}

ResetRetries(w, d) == [w EXCEPT !.dev[d].retries = Retries]

\* Requested state LINK_DOWN.
ToDown(w, d, o, reg) ==
    IF w.dev[d].status = DISCONNECTING
    THEN SetStatus(w, d, DOWN)
    ELSE LET f == link_force_down(w, d, o, reg) IN
         IF f.rc < 0 THEN Ret(f, -1) ELSE SetStatus(f, d, DOWN)

\* Requested state LINK_CONNECTING: from DISCONNECTING force the link down
\* first, from DOWN or DISCONNECTING reset the retry budget, then spend one
\* retry; when the budget was already spent give up with a LINK_DOWN
\* request (the recursive call).
ToConnecting(w, d, o, reg) ==
    LET st  == w.dev[d].status
        f   == IF st = DISCONNECTING THEN link_force_down(w, d, o, reg)
                                     ELSE Ret(w, 0)
        w1  == IF FreshAttempt(st) THEN ResetRetries(f, d) ELSE f
        old == w1.dev[d].retries
        w2  == [w1 EXCEPT !.dev[d].retries = Dec(old)]
        u   == link_up(w2, d, o)
    IN  CASE st = UP                -> Ret(w, -1)
          [] f.rc < 0               -> Ret(f, -1)
          [] RetryExhausted(old)    -> ToDown(w2, d, o, reg)
          [] u.rc < 0               -> Ret(u, -1)
          [] OTHER -> [SetStatus(u, d, CONNECTING) EXCEPT !.dev[d].ctime = 0]

\* Mutant: the disconnect timeout forces the link but stays DISCONNECTING.
ToDisconnecting_no_down(w, d, o, reg) ==
    LET st == w.dev[d].status
        f  == link_force_down(w, d, o, reg)
        l  == link_down(w, d, o)
    IN  CASE st \in {CONNECTING, DISCONNECTING} ->
                 IF f.rc < 0 THEN Ret(f, -1) ELSE SetStatus(f, d, DISCONNECTING)
          [] st = UP   -> IF l.rc < 0 THEN Ret(l, -1)
                          ELSE SetStatus(l, d, DISCONNECTING)
          [] st = DOWN -> Ret(w, -1)

\* Requested state LINK_DISCONNECTING.  A second request while already
\* DISCONNECTING is the disconnect timeout: force the link and end DOWN.
ToDisconnecting(w, d, o, reg) ==
    LET st == w.dev[d].status
        f  == link_force_down(w, d, o, reg)
        l  == link_down(w, d, o)
    IN  CASE st = CONNECTING    -> IF f.rc < 0 THEN Ret(f, -1)
                                   ELSE SetStatus(f, d, DISCONNECTING)
          [] st = DISCONNECTING -> IF f.rc < 0 THEN Ret(f, -1)
                                   ELSE SetStatus(f, d, DOWN)
          [] st = UP            -> IF l.rc < 0 THEN Ret(l, -1)
                                   ELSE SetStatus(l, d, DISCONNECTING)
          [] st = DOWN          -> Ret(w, -1)

\* Requested state LINK_UP: only a CONNECTING device may become UP.
ToUp(w, d) ==
    IF w.dev[d].status = CONNECTING
    THEN [SetStatus(w, d, UP) EXCEPT !.dev[d].ctime = 0]
    ELSE Ret(w, -1)

alter_device_status(w, d, new, o, reg) ==
    CASE new = CONNECTING    -> ToConnecting(w, d, o, reg)
      [] new = DISCONNECTING -> ToDisconnecting(w, d, o, reg)
      [] new = UP            -> ToUp(w, d)
      [] new = DOWN          -> ToDown(w, d, o, reg)
=============================================================================
