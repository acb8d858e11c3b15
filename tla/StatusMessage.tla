---------------------------- MODULE StatusMessage ----------------------------
(***************************************************************************)
(* The text of a BROADCAST STATUS datagram: how the server writes it       *)
(* (broadcast_status_message, src/server/poll_clients.c, and               *)
(* print_device_status, src/server/send_message.c) and how the display     *)
(* client reads it back (process_command and process_status_message,      *)
(* src/linux_client/listen_status.c, with the device list of               *)
(* src/linux_client/list_fns.c).                                           *)
(*                                                                         *)
(* Text is a sequence of pieces: a run of bytes that the string functions  *)
(* treat alike (a word, a number, a tab, a newline, a blank), with its     *)
(* width in bytes.  A word cut short is a different string from the word.  *)
(***************************************************************************)
EXTENDS Integers, Sequences, SequencesExt

\* MAX_RECV_BUFFER of src/include/cliserv.h
MAX_RECV_BUFFER == 400

Piece(k, v, len) == [k |-> k, v |-> v, len |-> len]
Tab == Piece("tab", "", 1)
Nl == Piece("nl", "", 1)
Sp == Piece("sp", "", 1)
Word(v, len) == Piece("word", v, len)

\* The width of "%d" of a number that is not negative.
RECURSIVE Digits(_)
Digits(n) == IF n < 10 THEN 1 ELSE 1 + Digits(n \div 10)

Num(n) == Piece("num", n, Digits(n))

\* BROADCAST_STATUS of src/include/protocol.h
BROADCAST_STATUS == Piece("prefix", "BROADCAST STATUS ", 17)

\* g_link_status_message (server.c): "\tUP ", "\tDOWN", "\tCONNECTING" and
\* "\tDISCONNECTING"; the tab and UP's blank are pieces of their own.
StatusWord ==
    [UP |-> Word("UP", 2), DOWN |-> Word("DOWN", 4),
     CONNECTING |-> Word("CONNECTING", 10),
     DISCONNECTING |-> Word("DISCONNECTING", 13)]

-----------------------------------------------------------------------------
(* The server side.  A device is [name, status, uptime, users]: its name  *)
(* as a word, its status, time (NULL) - connect_time and the length of     *)
(* its clients_connected.                                                  *)

\* print_device_status: the name, the status message and, for an UP
\* device, sprintf ("%d %d", uptime, users).
print_device_status(e) ==
    <<e.name, Tab, StatusWord[e.status]>>
    \o (IF e.status = "UP" THEN <<Sp, Num(e.uptime), Sp, Num(e.users)>>
                           ELSE <<>>)

\* broadcast_status_message: BROADCAST_STATUS, then each device of
\* g_devices in order followed by "\n"; broadcast_message sends strlen
\* bytes of it.
broadcast_status_message(devs) ==
    <<BROADCAST_STATUS>>
    \o FlattenSeq([i \in 1..Len(devs) |-> Append(print_device_status(devs[i]), Nl)])

-----------------------------------------------------------------------------
(* The client side.                                                        *)

\* The first n bytes of piece p: a word becomes another string, a number
\* the value of its first n digits.
CutPiece(p, n) ==
    [p EXCEPT !.len = n,
              !.v = IF p.k = "num" THEN p.v \div 10^(p.len - n) ELSE <<@, n>>]

\* The bytes before piece i + 1 of t.
Offsets(t) ==
    LET off[i \in 0..Len(t)] == IF i = 0 THEN 0 ELSE off[i - 1] + t[i].len
    IN  off

Bytes(t) == Offsets(t)[Len(t)]

\* recvfrom (..., MAX_RECV_BUFFER, ...) on a datagram socket: the first n
\* bytes; the rest of the datagram is discarded.
FirstBytes(t, n) ==
    LET off == Offsets(t)
        k == CHOOSE i \in 0..Len(t) : off[i] <= n /\ (i = Len(t) \/ off[i + 1] > n)
    IN  SubSeq(t, 1, k) \o (IF k < Len(t) /\ off[k] < n THEN <<CutPiece(t[k + 1], n - off[k])>> ELSE <<>>)

Delimiter(p) == p.k \in {"tab", "nl"}

\* strtok with delims "\n\t": the maximal runs of pieces that are not a
\* delimiter, in order; runs of delimiters produce no empty token.
strtok(t) ==
    LET starts == {i \in 1..Len(t) : ~Delimiter(t[i]) /\ (i = 1 \/ Delimiter(t[i - 1]))}
        End(i) == CHOOSE j \in i..Len(t) : (j = Len(t) \/ Delimiter(t[j + 1]))
                                          /\ \A m \in i..j : ~Delimiter(t[m])
        order == SetToSortSeq(starts, <)
    IN  [x \in 1..Len(order) |-> SubSeq(t, order[x], End(order[x]))]

\* A client device_t: the name as the token it was read from.  A new one
\* is memset to zero: status LINK_DOWN, connect_time 0, no_users 0.
NewDevice(name) == [name |-> name, status |-> "DOWN", connect_time |-> 0, no_users |-> 0]

\* What strtoul reads past the end of the string: a value the server never
\* sends (it sends no negative numbers).
Garbage == -1

\* get_device: strcmp over the list.
get_device(list, name) == \E i \in 1..Len(list) : list[i].name = name

\* add_device: appended at the end of devices_controlled.
add_device(list, name) == Append(list, NewDevice(name))

\* rm_device: the first entry that is dev is unlinked; ENODEV (the list
\* unchanged) when there is none.
rm_device(list, dev) ==
    IF \E i \in 1..Len(list) : list[i] = dev
    THEN RemoveAt(list, CHOOSE i \in 1..Len(list) : list[i] = dev /\ \A j \in 1..i - 1 : list[j] # dev)
    ELSE list

DeviceIndex(list, name) == CHOOSE i \in 1..Len(list) : list[i].name = name

\* Mutant: y_str taken as x_str, so users reads as the connect time.
UpOutcomes_y_from_x(st) ==
    LET Val(i) == IF Len(st) >= i THEN st[i].v ELSE 0
    IN  CASE Len(st) = 1 ->
               {[crash |-> TRUE, x |-> 0, y |-> 0],
                [crash |-> FALSE, x |-> Garbage, y |-> Garbage]}
          [] Len(st) <= 3 -> {[crash |-> TRUE, x |-> 0, y |-> 0]}
          [] OTHER -> {[crash |-> FALSE, x |-> Val(3), y |-> Val(3)]}

\* The status token "UP x y": x_str = device_status + 3 and
\* y_str = strchr (x_str, ' ') + 1.  Outcomes are [crash, x, y]:
\*  - "UP" ends the token: x_str is past its terminator, and strtoul
\*    and strchr read whatever follows (undefined);
\*  - no second blank: strchr returns NULL, and strtoul ((char *)1)
\*    faults;
\*  - a blank with nothing after it reads as 0.
UpOutcomes(st) ==
    LET Val(i) == IF Len(st) >= i THEN st[i].v ELSE 0
    IN  CASE Len(st) = 1 ->
               {[crash |-> TRUE, x |-> 0, y |-> 0],
                [crash |-> FALSE, x |-> Garbage, y |-> Garbage]}
          [] Len(st) <= 3 -> {[crash |-> TRUE, x |-> 0, y |-> 0]}
          [] OTHER -> {[crash |-> FALSE, x |-> Val(3), y |-> Val(5)]}

\* The outcomes of one <device_name, device_status> pair on the list.
StatusOutcomes(list, name, st) ==
    LET l == IF get_device(list, name) THEN list ELSE add_device(list, name)
        i == DeviceIndex(l, name)
        Set(s, x, y) == [l EXCEPT ![i].status = s, ![i].connect_time = x,
                                  ![i].no_users = y]
        Plain == {w \in DOMAIN StatusWord \ {"UP"} : st = <<StatusWord[w]>>}
    IN  CASE st[1] = StatusWord.UP ->
               {[crash |-> o.crash, list |-> Set("UP", o.x, o.y)] : o \in UpOutcomes(st)}
          [] Plain # {} ->
               {[crash |-> FALSE, list |-> Set(CHOOSE w \in Plain : TRUE, 0, 0)]}
          [] OTHER -> {[crash |-> FALSE, list |-> l]}

\* process_status_message: name and status tokens in pairs; a name with no
\* status after it ends the loop ("Unbalanced device name/status").
RECURSIVE process_status_message(_, _)
process_status_message(list, toks) ==
    IF Len(toks) < 2 THEN {[crash |-> FALSE, list |-> list]}
    ELSE UNION {IF r.crash THEN {r}
                ELSE process_status_message(r.list, SubSeq(toks, 3, Len(toks))) :
                  r \in StatusOutcomes(list, toks[1], toks[2])}

\* What process_command has in recv_buffer for a datagram of text t:
\* recvfrom keeps MAX_RECV_BUFFER bytes, recv_buffer[recv_size] = 0, and
\* the status message after the prefix is split by strtok.
Received(t) ==
    [toks |-> strtok(Tail(FirstBytes(t, MAX_RECV_BUFFER))),
     full |-> Bytes(t) >= MAX_RECV_BUFFER]

\* process_status_message on what was received, r.  A full buffer has put
\* the terminator one byte past recv_buffer, on the saved register above
\* it in the compiled frame: harmless, or fatal when process_command
\* returns.
ReceiveStatus(list, r) ==
    process_status_message(list, r.toks)
    \cup (IF r.full THEN {[crash |-> TRUE, list |-> list]} ELSE {})
=============================================================================
