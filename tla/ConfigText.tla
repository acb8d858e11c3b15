------------------------------ MODULE ConfigText ------------------------------
(***************************************************************************)
(* The configuration text as the three read_config.c files read it.  A     *)
(* file is a sequence of tokens, each standing for a run of bytes the C    *)
(* string functions treat alike: a newline, a blank (' ' or '\t'), '=', a  *)
(* double quote, a stray '[', a section header such as "[Device]", a word  *)
(* of letters, or a run of digits.  Each token keeps its width in bytes,   *)
(* because get_next_device_section works with byte offsets.                *)
(*                                                                         *)
(* The operators follow the server's read_config.c; the peer's and the     *)
(* display client's copies have the same text.                            *)
(***************************************************************************)
EXTENDS Integers, Sequences, SequencesExt

Token(k, v, n, w) == [k |-> k, v |-> v, n |-> n, w |-> w]
NL == Token("nl", "", 0, 1)
SP == Token("sp", "", 0, 1)
EQ == Token("eq", "", 0, 1)
QT == Token("q", "", 0, 1)
LB == Token("lb", "", 0, 1)
Word(s, width) == Token("word", s, 0, width)
Num(x, digits) == Token("num", "", x, digits)
Hdr(s, width) == Token("hdr", s, 0, width)

\* A command-line argument: a switch ("-x"), or a plain word with the value
\* atoi gives it and its length.
Switch(s) == [s |-> s, sw |-> TRUE, n |-> 0, len |-> 2]
Plain(s, n, len) == [s |-> s, sw |-> FALSE, n |-> n, len |-> len]

\* A char * that parse_line has not assigned on this call.
Unset == <<Token("unset", "", 0, 0)>>

\* The C offset (from 0) of token i.
Offset(f, i) ==
    LET off[j \in 1..i] == IF j = 1 THEN 0 ELSE off[j - 1] + f[j - 1].w
    IN  off[i]

IsBracket(t) == t.k \in {"hdr", "lb"}
IsNewline(t) == t = NL

(***************************************************************************)
(* get_server_section: strstr for the header, then strchr(start + 1, '[')  *)
(* for its end; without one, the section runs to the end of the file.      *)
(***************************************************************************)
GetSection(f, hdr) ==
    LET start == SelectInSeq(f, LAMBDA t : t = hdr)
        end   == SelectInSubSeq(f, start + 1, Len(f), IsBracket)
    IN  IF start = 0 THEN [found |-> FALSE, text |-> <<>>]
        ELSE [found |-> TRUE,
              text  |-> SubSeq(f, start, IF end = 0 THEN Len(f) ELSE end - 1)]

(***************************************************************************)
(* The loop of parse_server_section.  After the header line, each line     *)
(* runs from prev_pos to the next '\n' searched from prev_pos + 1, so a    *)
(* line that is only '\n' is glued onto the line after it, and the         *)
(* "empty line" branch is never taken.  The loop ends when no '\n' follows *)
(* (a last line without one is dropped).  After the final '\n' the search  *)
(* starts one past the copy's last byte; the model takes that byte to be   *)
(* NUL.                                                                    *)
(***************************************************************************)
RECURSIVE LinesFrom(_, _)
LinesFrom(sec, prev) ==
    LET nl == SelectInSubSeq(sec, prev + 1, Len(sec), IsNewline)
    IN  IF nl = 0 THEN <<>>
        ELSE <<SubSeq(sec, prev, nl - 1)>> \o LinesFrom(sec, nl + 1)

SectionLines(sec) == LinesFrom(sec, SelectInSeq(sec, IsNewline) + 1)

(***************************************************************************)
(* parse_line: the name ends at the first ' ', '\t' or '='; the value is   *)
(* the first quoted string or the rest of the line from the first digit,   *)
(* searched from that separator.  Without a separator it returns 0 and     *)
(* assigns nothing.  Without a value, or without a closing quote (the      *)
(* malloc of end_pos - pos + 1 bytes with end_pos NULL fails), it returns  *)
(* -1 with only the name assigned.                                        *)
(***************************************************************************)
parse_line(line) ==
    LET sep   == SelectInSeq(line, LAMBDA t : t.k \in {"sp", "eq"})
        pos   == SelectInSubSeq(line, sep, Len(line), LAMBDA t : t.k \in {"q", "num"})
        close == SelectInSubSeq(line, pos + 1, Len(line), LAMBDA t : t = QT)
        name  == SubSeq(line, 1, sep - 1)
    IN  CASE sep = 0 -> [rc |-> 0, name |-> Unset, value |-> Unset]
          [] pos = 0 \/ (line[pos] = QT /\ close = 0) ->
                [rc |-> -1, name |-> name, value |-> Unset]
          [] line[pos] = QT ->
                [rc |-> 0, name |-> name, value |-> SubSeq(line, pos + 1, close - 1)]
          [] OTHER ->
                [rc |-> 0, name |-> name, value |-> SubSeq(line, pos, Len(line))]

\* strcasecmp(name, o) == 0 for the option word o.
OptionName(name) == IF Len(name) = 1 /\ name[1].k = "word" THEN name[1].v ELSE ""

\* strtoul(value, &end_ptr, 0) with *value != '\0' and *end_ptr == '\0':
\* blanks, then one run of digits that ends the value.
number_valid(value) ==
    /\ value # <<>>
    /\ Last(value).k = "num"
    /\ \A j \in 1..Len(value) - 1 : value[j] = SP

numeric_value(value) == Last(value).n

(***************************************************************************)
(* The body of the loop of parse_server_section.  name and value are        *)
(* pointers the loop never frees: a line parse_line leaves unassigned      *)
(* reuses the ones of an earlier line, or, before any, uninitialised ones; *)
(* using those is undefined, and either crashes or matches no option.      *)
(* A state of the loop is [pairs, name, value, aborted], where pairs are   *)
(* the <<name, value>> the option chain is run on, in order; the result is *)
(* the set of states the loop can end in.                                  *)
(***************************************************************************)
SectionStep(s, line) ==
    LET r  == parse_line(line)
        nm == IF r.name = Unset THEN s.name ELSE r.name
        vl == IF r.value = Unset THEN s.value ELSE r.value
        t  == [s EXCEPT !.name = nm, !.value = vl]
    IN  CASE s.aborted -> {s}
          [] r.rc = -1 -> {t}
          [] nm = Unset \/ vl = Unset -> {t, [t EXCEPT !.aborted = TRUE]}
          [] OTHER -> {[t EXCEPT !.pairs = Append(@, <<nm, vl>>)]}

ParseSection(sec) ==
    LET ls == SectionLines(sec)
        out[j \in 0..Len(ls)] ==
            IF j = 0 THEN {[pairs |-> <<>>, name |-> Unset, value |-> Unset, aborted |-> FALSE]}
            ELSE UNION {SectionStep(s, ls[j]) : s \in out[j - 1]}
    IN  {[pairs |-> s.pairs, aborted |-> s.aborted] : s \in out[Len(ls)]}

(***************************************************************************)
(* Reference: the lines of a section as the format comment describes them, *)
(* split at every '\n', and the value of a line "name = value" or          *)
(* "name = \"string value\"" for option o, if it is one.                  *)
(***************************************************************************)
DocLines(sec) ==
    LET ends == SelectSeq([i \in 1..Len(sec) |-> IF sec[i] = NL THEN i ELSE 0], LAMBDA i : i > 0)
    IN  [j \in 1..Len(ends) - 1 |-> SubSeq(sec, ends[j] + 1, ends[j + 1] - 1)]

DocOption(line) ==
    IF /\ Len(line) >= 5
       /\ line[1].k = "word"
       /\ SubSeq(line, 2, 4) = <<SP, EQ, SP>>
       /\ \/ Len(line) = 5 /\ line[5].k = "num"
          \/ Len(line) >= 6 /\ line[5] = QT /\ Last(line) = QT
             /\ QT \notin ToSet(SubSeq(line, 6, Len(line) - 1))
    THEN [o |-> line[1].v,
          value |-> IF line[5] = QT THEN SubSeq(line, 6, Len(line) - 1) ELSE <<line[5]>>]
    ELSE [o |-> "", value |-> <<>>]
=============================================================================
