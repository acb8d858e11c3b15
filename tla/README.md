# TLA+ models of the link server

This directory holds TLA+ models of the link broker in `src/`. The broker lets
network clients share a few named links ("devices"). Each device is brought up
and down by external commands. The server tracks which client uses which
device. It keeps a device up only while someone uses it, retries a connection
that does not come up, forces links down, and broadcasts the status.

## The system

| Part | Code | State | Operations |
|---|---|---|---|
| Registry | `server/list_fns.c` add/rm/get_device, add/rm/get_client | `g_devices` (fixed at start-up), `g_clients` (ordered) | add, remove, look up |
| RelationshipGraph | `server/list_fns.c` 377-507 | `device->clients_connected`, `client->devices_connected` | connect, disconnect, remove a client from all devices, force-clear a device |
| LinkStateMachine | `server/list_fns.c` 509-706 | `status`, `retries`, `connect_time` per device | `alter_device_status`, `link_up`, `link_down`, `link_force_down` |
| CommandProcessor | `server/server.c` process_command, `process_client.c`, `process_peer.c` | none of its own | CLIENT PING/DEVICES/UP/DOWN/FORCE_DOWN/STATUS/CLIENT_STATUS, NOTIFY ISUP/ISDOWN |
| Sweeper | `timeout_old_clients`, `timeout_old_devices` | `client->last_heard_from`, `device->connect_time` | evict silent clients, retry or force timed-out devices |
| Reactor | `server/server.c` main | `g_keep_going` | select with `g_poll_time`, one datagram, broadcast, the two sweeps |
| StatusBroadcaster | `poll_clients.c`, `send_message.c` | none | format and send status datagrams; the display client parses BROADCAST STATUS back into its device list |
| Config loaders | `*/read_config.c` | the tunables | parse files at start-up |
| Notification peer | `peer/notify.c` | none | send one NOTIFY datagram and exit |
| Display client | `linux_client/` | `g_servers`, guarded by a mutex and a condition variable | listener thread and display thread |

How the parts interact: the server is one thread. Each loop iteration waits
in `select()` for at most the poll time. It handles at most one datagram. Then
it broadcasts the status and runs `timeout_old_clients` and then
`timeout_old_devices`. A client command goes through the RelationshipGraph,
which calls `alter_device_status` when a device gains its first user or loses
its last one. Commands and sweeps call external programs through `system()`.

What makes the code hard:
- A handler changes the two halves of an edge in separate steps, with a
  call that can fail in between.
- A sweep stops at the first failure, with part of its work already done.
- `system()` returns a wait status, not the exit code. Callers test `< 0`, so
  a command that exits non-zero counts as success.
- Time is checked only by comparing a time stamp with a timeout, in the sweeps.
- Clients and peers send in any order. A NOTIFY can arrive long after the
  event it reports.

## Modules

- **`LinkStateMachine.tla`** models the link state machine and the list
  primitives. The C functions are plain calls inside one handler, so each is
  an operator from a server state `w = [rc, dev, cli]` to a server state, and
  handlers chain them like the C calls.
  - `link_up`, `link_down` and `link_force_down` are the three wrappers.
  - `ToConnecting`, `ToDisconnecting`, `ToUp` and `ToDown` are the four
    branches of `alter_device_status`, which dispatches on the requested state.
  - `system(x)` maps a command result to the value `system()` returns:
    "ok" is 0, "fail" (non-zero exit) is positive, and "error" is -1.
  - `attempts` is a history field. It counts link_up calls since the device
    entered CONNECTING. It is used only by `RetryBudget`.
- **`RelationshipGraph.tla`** models `connect_client_to_device`,
  `disconnect_client_from_device` and `remove_client_from_all_devices`. The last
  is a RECURSIVE operator over `g_devices` that stops at the first failure.
- **`LinkServer.tla`** holds the variables and the actions.
  - Variables:
    - `dev` and `cli` are the records.
    - `g_clients` is the client list, in order.
    - `pc` is the point in the loop iteration: "select", "clients" or
      "devices", or "exited" once main has returned.
    - `g_keep_going` is the flag the signal handler clears.
    - `todo` holds what the running sweep has still to visit.
  - Actions:
    - `Tick` is time passing while the server is blocked in select.
    - `SelectTimeout` is a timeout or an unknown prefix.
    - `ClientPing`, `ClientUp`, `ClientDown`, `ClientForceDown`, `PeerIsUp`
      and `PeerIsDown` are the datagram handlers. Each also runs
      `process_client`'s lookup-or-create and refresh.
    - `SweepClient` and `SweepDevice` each visit one element of a sweep.
      `StartDeviceSweep` and `EndDeviceSweep` move between the phases.
    - `termination_handler` is SIGTERM or SIGINT (only when the constant
      `Signals` is TRUE). It clears `g_keep_going`. The flag is read only
      by the `while (g_keep_going)` test (`LoopEnd`), so the model delivers
      the signal just before that test. A signal delivered earlier in the
      iteration gives the same behaviour with the flag cleared sooner. One
      delivered inside `select()` makes it fail with EINTR, which clears
      the flag again and goes on like a timeout. After the loop the server
      broadcasts QUIT and returns, and `Exited` stutters.
  - Each handler and each sweep visit is one atomic step. The server has one
    thread and runs each call to completion.
  - Every action that runs commands picks an `Outcome`: the result of the up,
    down and force command for that call. That way, every combination of
    command failures is explored.
- **`LinkUsage.tla`** is the abstract specification: what the server
  promises about usage, with no commands, retries, timers or edge halves.
  - Each device has a set of `users` and an `active` flag (its link is held
    up).
  - The steps are: a client starts using a device (`Use`), stops using it
    (`Release`), or is evicted from all devices (`Evict`); a device is
    dropped from under its users (`Drop`).
  - After every step, a device is active exactly when it has users.
  - `LinkServer` maps onto it with `Usage == INSTANCE LinkUsage WITH users
    <- clients_connected, active <- status \in {CONNECTING, UP}`. The
    property `UsageRefinement == Usage!Spec` says the server implements it.
- **`MCLinkServer.tla`** instantiates the model with two devices and two
  clients. It also defines the client symmetry and `ServerView`, which drops
  the history field and the unused time stamp of DOWN devices.

- **`DisplayClient.tla`** models the display client in `linux_client/`.
  - Variables: `g_servers`, each server's `devices`, the mutex `owner`, the
    two threads' program counters `pcL` and `pcD`, the datagram `msg`, and a
    history set `heardFrom`.
  - A step runs between two points where the other thread could see a
    difference: a mutex operation, or an unlocked read or write of
    `g_servers`. For example, the display thread's `while (g_servers ==
    NULL)` test (`WaitTest`) and its `pthread_cond_timedwait` (`WaitCall`)
    are two steps.
  - `Release` models the unlock of a mutex the thread does not hold. That is
    undefined behaviour, so it is a choice between the two outcomes builds
    produce: the default glibc/musl mutex is released whoever holds it, and
    an error-checking mutex stays held.
  - A STATUS datagram carries a server's device table (`msg.devs`) and
    what the client receives of its text (`msg.rcv`, from `StatusMessage`).
    `ProcessStatus` applies one outcome of `ReceiveStatus` to the server's
    device list. An outcome is either the new list, or a fault, which ends
    the process (`pcL` and `pcD` become "dead").
  - INIT empties the list by calling `rm_device` on its head until it is
    empty (`DropDevices`).
  - `wait_for_servers` has two ways to wake. The listener's signal (`Add`)
    moves `pcD` from "waiting" to "reacquire". The one-second timeout
    (`Timeout`) moves it to "timed_out". `Reacquire` takes the mutex back.
    After a signal it goes on to the loop test. After a timeout it ends the
    process, as the code's errno test does, and `Exited` stutters.
  - `MCDisplayClient.tla` uses two servers and two devices. There are three
    device tables between which each device changes status, with names of
    4 and 5 bytes. `MCLongTables` gives the first device a 366-byte name.

- **`StatusMessage.tla`** models the text of a BROADCAST STATUS datagram.
  The server writes it (`broadcast_status_message`, `print_device_status`)
  and the display client parses it back (`process_command`,
  `process_status_message`, with `get_device`, `add_device` and
  `rm_device` of `linux_client/list_fns.c`).
  - Text is a sequence of pieces, as in `ConfigText`: a word, a number, a
    tab, a newline or a blank, each with its width in bytes.
  - `FirstBytes` is `recvfrom` on a datagram socket: it keeps 400 bytes and
    drops the rest. A cut word becomes a different string. A cut number
    keeps the value of its leading digits.
  - `strtok` splits the text at tabs and newlines, as the `"\n\t"` delims do.
  - `UpOutcomes` parses `UP x y` with `x_str = device_status + 3` and
    `strchr(x_str, ' ') + 1`. Two of its cases are undefined behaviour,
    modelled as a choice of outcomes:
    - A token that is exactly `UP` reads past the NUL: either a crash, or
      the value `Garbage`.
    - A token with no second blank gives `strtoul(1)`: a crash.
  - `ReceiveStatus` adds one more fault outcome for a datagram of 400
    bytes or more. `recv_buffer[400] = 0` lands on the saved register
    above the buffer in the compiled frame.

- **`ConfigText.tla`** holds the configuration text and the parsing that the
  three `read_config.c` files share (their code is copied between them).
  - A file is a sequence of tokens. Each token stands for a run of bytes
    that the C string functions treat alike: a newline, a blank, `=`, a
    quote, a stray `[`, a section header, a word, or a run of digits. Each
    token keeps its width in bytes, because `get_next_device_section`
    works with byte offsets (`Offset`).
  - `GetSection` is `get_server_section`: `strstr` for the header, then
    `strchr` for the next `[`.
  - `SectionLines`/`LinesFrom` reproduce the line loop, which searches for
    the next newline from `prev_pos + 1`. A blank line is therefore glued
    onto the following line.
  - `parse_line` keeps its three outcomes. It may assign nothing (no
    separator), only the name (no value, or no closing quote), or both.
  - `ParseSection` runs the loop and returns the `<<name, value>>` pairs the
    option chain sees, in order. A line parse_line leaves unassigned reuses
    the previous line's pointers. With none yet, the pointers are
    uninitialised, which is undefined behaviour: either a crash or no match.
  - `DocLines` and `DocOption` are the reference: the format that the
    comment at the top of `server/read_config.c` describes.
- **`ServerConfig.tla`** models the server's start-up. The actions are
  `ParseArgs`, `OpenConfig` (a missing file keeps the defaults, an
  unreadable one fails), `ServerSection`, `DeviceSection` (one pass of
  `read_config`'s device loop, with `get_next_device_section`,
  `parse_device_section` and `add_device`), and `DevicesDone`.
  - `cur_pos` is the static offset of `get_next_device_section`. It is set
    to `(end - start) + 1` as in the code.
  - `parse_device_section` frees `name` and `value` on every pass.
    `DeviceStep` turns a free of an unassigned pointer into an abort.
- **`NotifyPeer.tla`** models the notification peer (`peer/notify.c`,
  `peer/read_config.c`) and the server's receipt of its datagram.
  - The actions are `ParseArgs`, `OpenConfig`, `PeerSection`, `Notify`
    (strcpy, strcat and sendto), `Lose` (the network drops the datagram) and
    `ServerReceive` (`recvfrom` and the terminator in `process_command`).
  - A device name is a word with a length. `SendBuffer` computes what is in
    the 400-byte array after `strcat`. An overrun is undefined behaviour:
    the peer either crashes before `sendto`, or sends the array and dies
    on return.
- **`ClientConfig.tla`** models the display client's start-up
  (`linux_client/read_config.c`), with the same structure.
- **`StartUps.tla`** runs the start-up of one of the three programs, chosen
  in Init. The programs share nothing at start-up, so the state space is
  the sum of theirs, not the product.
- **`ConfigInputs.tla`** builds the bounded inputs for the start-up runs.
  **`MCStartUps.tla`** and **`MCServerConfig.tla`** pick the inputs for
  each run.

Time is abstracted to ages. Each time stamp is kept as its age in poll
intervals, saturating at `MaxAge` (one past the largest timeout). The code reads
the clock only to compare an age with a timeout, so the ages are exact for
every comparison it makes. `retries` saturates at -1, because every negative
value takes the same branch and is reset before it is read again.

## Runs

| Run | cfg | Expect | Checks |
|---|---|---|---|
| core | `MCLinkServer_core.cfg` | pass | TypeOK, RetryBudget, UsageRefinement |
| errors | `MCLinkServer_errors.cfg` | pass | NoDanglingClient |
| live | `MCLinkServer_live.cfg` | pass | ConnectingResolves, DisconnectingResolves |
| forcefail | `MCLinkServer_forcefail.cfg` | violation | InUseIffActive |
| dc_live | `MCDisplayClient_live.cfg` | pass | TypeOK, ClientShowsBroadcast |
| dc_wait | `MCDisplayClient_wait.cfg` | violation | DisplayKeepsShowing |
| dc_race | `MCDisplayClient_race.cfg` | violation | DisplayReadsConsistent |
| dc_quit | `MCDisplayClient_quit.cfg` | violation | ServersKept |
| dc_cut | `MCDisplayClient_cut.cfg` | violation | ClientShowsBroadcast |
| startup | `MCStartUps_sound.cfg` | pass | DeviceNamesFromFile, NotifyAsAsked |
| cfg_hang | `MCServerConfig_hang.cfg` | violation | DeviceSectionsOnce |
| cfg_blank | `MCServerConfig_blank.cfg` | violation | ServerOptionsAsWritten |

- **core** lets link_up fail or error and link_down fail, and keeps the
  force-down command successful. Under these results, the server
  implements `LinkUsage`: every step is a use, a release, an eviction, a
  drop, or leaves the usage alone, and a device is CONNECTING or UP exactly
  while it has clients. `InUseIffActive` follows from this. Edge symmetry
  is not checked: with these results the code never leaves an edge
  one-sided, and with the results that do (link_down returning -1,
  force-down exiting non-zero) it fails, as described below.
  Retry exhaustion runs link_up at most `retries + 1` times. The run reaches
  114,088 distinct states.
- **errors** lets link_down and force-down return -1 (`system()` itself failing), so
  sweeps abort part-way. The run shows that no device keeps a client that the
  eviction freed. Other invariants do not hold here (see the link_down
  result below).
- **live** checks, under fairness, that CONNECTING and DISCONNECTING are
  always left while the server runs. In this run SIGTERM may come at any
  iteration, so the properties allow the server to exit instead.
- **forcefail** lets the force-down command exit non-zero. TLC finds this
  trace: c1 brings d1 up, then ISDOWN makes `alter_device_status` run
  force-down. The command fails, but the positive return counts as success.
  So d1 becomes DOWN while c1 is still among its clients. The next CLIENT UP
  from anyone will not start the link, because the device already has a user.
- **dc_live** checks two things.
  - Every path leaves the mutex released. The exception is a thread that
    holds it when the process exits.
  - After a STATUS broadcast that fits the buffer, the client's list for
    that server shows every device with the status, connect time and users
    that the server sent. Every entry in the list is a device the server
    has.
- **dc_wait** checks, with fair threads, that once some server stays known
  the display thread prints again and again. It does not hold.
  `pthread_cond_timedwait` returns ETIMEDOUT as its result and does not set
  errno. `wait_for_servers` switches on errno, so a timed-out wait returns
  -1 and main exits (`client.c:181`). The loop is meant to retry.
  TLC's trace:
  1. The display thread waits for the first server.
  2. The listener takes the mutex to add s1.
  3. The second runs out.
  4. The display thread takes the mutex back with s1 in the list and exits.
  More simply, a client that hears no server within one second of starting
  exits, and so does one whose last server quits. The compiled client with
  no server running exits with status 1, printing "wait_for_servers(): No
  such file or directory" (no config file) or "wait_for_servers():
  Success". The lost wakeup of `client.c:176` leads to the same exit:
  1. The listener's stray unlock frees the mutex the display thread holds.
  2. A server is added and signalled between the thread's test and its wait.
  3. The timeout that follows ends the client.
- **dc_race**: the display thread locks and starts printing. The listener
  then takes the STATUS branch, which unlocks and writes a device entry
  without the mutex (`listen_status.c:167`).
- **dc_quit**: INIT from s1, then INIT from s2, then QUIT from s1. Because
  `rm_server` sets the list to NULL when it removes the head, s2 is lost
  as well (`linux_client/list_fns.c:203`).
- **dc_cut**: the broadcast has no length bound, but the client keeps 400
  bytes and parses the rest as if it were whole. In the trace, n1 (366
  bytes) is UP, and the cut leaves n2's status token as exactly `UP`. Then
  `x_str` reads past the string.
  Other positions of the cut, which TLC reaches as well, do this:
  - In the name: n2 is dropped ("Unbalanced device name/status").
  - After `U`: n2 is added with the memset defaults, so an UP device shows
    as DOWN.
  - In `UP 75`: `strchr` returns NULL and the client crashes.

  These outcomes were reproduced by running the client's own
  `listen_status.c` and `list_fns.c` on a 400-byte cut of such a
  broadcast. With first names of 364 to 366 bytes the parser segfaults.
  With 367 bytes it reports "Unknown status" and records DOWN. With 368
  bytes or more it reports "Unbalanced".

- **startup** starts the server, the peer or the client over the inputs
  below. Every loaded device was named in a `[Device]` section. A NOTIFY the server
  receives names the device and the one `-U`/`-D` command of a command
  line that follows the usage. The run reaches 195,442 distinct states.
- **cfg_hang**: `[Server]\npoll_time = 3\n` (23 bytes) before two 21-byte
  device sections. After the first section `cur_pos` is 21, which is
  before that section's start at 23, so `get_next_device_section` returns
  it again and `read_config` never returns. Without a `[Server]` section
  the same arithmetic skips the second device. The compiled server loops
  on this file.
- **cfg_blank**: in `[Server]\n\npoll_time = 3\n` the blank line is glued
  onto the next one, so `parse_line` sees the name `""` and `poll_time`
  stays 5. The compiled code prints "Invalid server option".

The model also shows this defect, but no run checks it any more:
- With link_down returning -1 (`system()` itself failing), TLC finds a
  one-sided edge (`EdgeSymmetry`, `list_fns.c:494`). On c1's CLIENT DOWN of
  an UP device, the device loses c1 and the DISCONNECTING request fails.
  The handler then returns before c1's own list is updated. d1 stays UP with
  no users, and nobody will ever take it down.

These defects were also found in the configuration code and reproduced
with the compiled programs, but no run checks them:
- The section loops keep `name` and `value` from earlier lines. A line with
  a name but no quoted or numeric value (`srv_inaddr = localhost`) makes
  `parse_line` return -1 after assigning the name only. A following line
  with no separator (`x`) assigns nothing and returns 0, so the option
  chain runs on the new name and the old value. After `poll_time = 3`,
  `srv_inaddr = localhost`, `x`, the server's `parse_server_section` sets
  `srv_inaddr` to "3", and `multicast_group` likewise. The peer and the
  client have the same loop, for `serv_addr` and `multicast_group`.
  `SectionStep` models this reuse. The startup run's files do not contain
  such a line pair, and no property of it is about option values.
- `parse_device_section` frees `name` and `value` on every pass. A `[Device]`
  line with no `=` or no value after a valid line is a double free, and
  glibc aborts.
- `if (++i > argc)` lets a trailing `-c` (or `-p` in the server) read
  `argv[argc]`, which is NULL. The same test is in all three programs.
- `notify` with no arguments, or with `-U`/`-D` and no device, calls
  `strcat(send_buffer, NULL)` and crashes.
- A device name of 387 bytes or more overruns `send_buffer`. Then the
  server reads a shortened name.
- The peer always sends `MAX_SEND_BUFFER` (400) bytes. So
  `recv_buffer[recv_size] = 0` in `server.c:216` writes at index 400, one
  past `recv_buffer`, for every NOTIFY. The client makes the same write
  for a full STATUS datagram. The model includes that one, as a fault
  outcome of `ReceiveStatus`.
- The option table in `server/read_config.c` lists `multicast_port`, but
  `parse_server_section` never parses it. The display client does.

Bounds:
- Two devices and two clients are enough to give a device two users, to
  give a client two devices, and to give each sweep two elements.
- `Retries = 1` gives a first attempt, a retry, and exhaustion.
- Timeouts of one or two poll intervals make every timeout fire and also
  let a client be heard again before it goes stale.
- Config files have sections of up to two option lines, which is enough for
  a blank line between two options and for a line with no separator after
  a valid one. The server's files have up to three `[Device]` sections:
  `cur_pos` goes wrong from the second one on, and three sections show
  whether the search recovers. Argument vectors have up to three words,
  which is enough for `-U -D`, for `-c file` and for two device names. Device
  names of 2 and 386 bytes: 386 is the longest name the peer sends whole
  with either prefix. Any longer name makes `NotifyAsAsked` fail, as
  described above.
- The display client has two servers, which is enough for one to outlive
  the other in `g_servers`. Each server has two devices, so a broadcast
  updates one entry while the other keeps its own. The three tables change
  every device's status between any two broadcasts, and they cover all
  four status words. The UP numbers 75 and 2 differ in width and value.
  The cut run's 366-byte name puts the 400th byte in n2's name, in its
  status word or in UP's numbers, depending on n1's status.

## Fairness

`LiveSpec` has these fairness conditions:
- Weak fairness on `SelectTimeout`, on the sweep steps and on the phase
  changes. The reactor never blocks outside `select()`, and `select()` has a
  timeout.
- Strong fairness on `Tick`. The clock does not stop, and the server is back
  in select once per iteration.

Clients and peers get no fairness. A client may go silent, and a peer may
never report.

Only `live` uses the LinkServer fairness. SIGTERM gets no fairness: a
server may run for ever.

For the display client, `LiveSpec` has weak fairness on every step of both
threads, except receiving a broadcast, because servers owe nothing. It has
strong fairness on the lock steps. The listener holds the mutex for a few
statements at a time and the display thread sleeps between turns, so a
mutex that is free again and again is eventually granted to a blocked
thread.

## Not modelled

- The replies to CLIENT commands (`send_device_list`,
  `send_device_status`, `send_client_status`). They read the state and change
  none of it, and the client that reads them is not in this repository.
  The BROADCAST STATUS text is modelled, because the display client
  parses it.
- The multicast socket helpers (`common/mcast.c`). They are socket set-up
  calls with no state of the program's own. Five of them only return -1
  with ENOTSUP. No program in the repository calls any of them.
- Configuration parsing, in the LinkServer model, whose Init starts from its
  result. Parsing is modelled by the start-up modules.
- `strtoul` results above `INT_MAX` stored into an `int`. TLC's integers are
  32-bit.
- SIGINT lost while `system()` runs a link command: `system()` ignores it
  in the server. A signal that never arrives is already a behaviour of the
  model.
- `select()` failing with anything but EINTR (exit without QUIT). With a
  valid socket and timeout this does not happen.
- The QUIT broadcast's effect on clients, in LinkServer. The display client
  model receives QUIT as one of its datagrams.
- The DEBUG dumps.
- In the notification peer: `socket()` failing, and `inet_aton` with a bad
  address (its result is ignored).
- In the display client:
  - `timeout_old_servers`, which nothing calls;
  - malloc failures.

## Plan

Modules and runs to add, in this order:
1. An environment model of the physical link, with delayed NOTIFY messages
   and a server restart. It covers the stale-ISDOWN and restart hazards in
   PROJECT.json.
2. Command accounting: which external commands each request runs. It would
   show the DOWN->DOWN force-down that spec.md calls an invalid transition.
