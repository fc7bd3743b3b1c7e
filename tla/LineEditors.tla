------------------------------ MODULE LineEditors ------------------------------
(***************************************************************************)
(* The line a command is typed into: the local console's, which decides    *)
(* in one function what to echo and in another what to keep, and telnet's. *)
(* A terminal is external: it shows on its row what it is sent.            *)
(* Characters are single bytes; what a command does is left to others.     *)
(***************************************************************************)
EXTENDS SequencesExt, Integers

CONSTANTS
  Chars,             \* bytes that are not control characters
  LINE_BUFFER_LEN,
  MaxShown           \* bound on the row a terminal shows

ASSUME LinesAssumption ==
  /\ LINE_BUFFER_LEN \in Nat \ {0}
  /\ Chars \cap {"cr", "lf", "bs", "nul", "iac", "row", "erase", "none", "prompt"} = {}

Terminators == {<<"cr">>, <<"lf">>, <<"cr", "lf">>, <<"cr", "nul">>}
\* A negotiation of three bytes, which may look like any others.
Negotiations == {<<"iac", b, b>> : b \in Chars \cup {"cr", "lf", "bs"}}

VARIABLES
  peer,               \* "console" or "telnet"
  enter,              \* what its terminal sends for Enter
  pressed,            \* history: the last key pressed is "enter" or some "other"
  sent,               \* the bytes of that key still to be read
  line,
  last_was_cr,
  telnet_bytes_left,
  terminal,           \* the row that shows
  dropped,            \* history: what it shows of lines that are no more
  begun,              \* history: rows begun since the key was pressed
  runs                \* history: commands run since

lineVars == <<peer, enter, pressed, sent, line, last_was_cr, telnet_bytes_left,
              terminal, dropped, begun, runs>>

Prompt == IF peer = "telnet" THEN <<"prompt">> ELSE <<>>

\* Cli::new, or a connection accepted.
LinesInit ==
  /\ peer \in {"console", "telnet"} /\ enter \in Terminators /\ pressed = "other"
  /\ sent = <<>> /\ line = <<>> /\ last_was_cr = FALSE /\ telnet_bytes_left = 0
  /\ terminal = Prompt /\ dropped = <<>> /\ begun = 0 /\ runs = 0

PressKey(bytes, name) ==
  /\ sent = <<>> /\ sent' = bytes /\ pressed' = name
  /\ begun' = 0 /\ runs' = 0
  /\ UNCHANGED <<peer, enter, line, last_was_cr, telnet_bytes_left, terminal, dropped>>

TypeChar == Len(terminal) < MaxShown /\ \E c \in Chars : PressKey(<<c>>, "other")
TypeControl == \E b \in {"bs", "nul"} : PressKey(<<b>>, "other")
TypeEnter == PressKey(enter, "enter")
Negotiate == peer = "telnet" /\ \E n \in Negotiations : PressKey(n, "other")

\* What a terminal makes of an echo.
Display(echo) ==
  /\ terminal' = CASE echo = "row" -> Prompt
                [] echo = "erase" -> IF terminal = <<>> THEN terminal ELSE Front(terminal)
                [] echo = "none" -> terminal
                [] OTHER -> Append(terminal, echo)
  /\ begun' = begun + (IF echo = "row" THEN 1 ELSE 0)

Fits == Len(line) < LINE_BUFFER_LEN

\* The guard on the length is missing.
EchoAnyErase(byte) ==
  CASE byte = "cr" \/ (byte = "lf" /\ ~last_was_cr) -> "row"
    [] byte = "bs" -> "erase"
    [] byte \in Chars /\ Fits -> byte
    [] OTHER -> "none"

\* echo_for_byte
EchoForByte(byte) ==
  CASE byte = "cr" \/ (byte = "lf" /\ ~last_was_cr) -> "row"
    [] byte = "bs" /\ line # <<>> -> "erase"
    [] byte \in Chars /\ Fits -> byte
    [] OTHER -> "none"

\* submit, which returns from an empty line.
Submit ==
  /\ line' = <<>> /\ dropped' = <<>>
  /\ runs' = runs + (IF line = <<>> THEN 0 ELSE 1)

\* accept_byte: a line too long is given up, and what follows begins another.
AcceptByte(byte) ==
  \/ byte \in {"cr", "lf"} /\ Submit
  \/ /\ byte \notin {"cr", "lf"}
     /\ line' = CASE byte = "bs" -> IF line = <<>> THEN line ELSE Front(line)
                  [] byte \in Chars -> IF Fits THEN Append(line, byte) ELSE <<>>
                  [] OTHER -> line
     /\ dropped' = IF byte \in Chars /\ ~Fits THEN dropped \o line ELSE dropped
     /\ UNCHANGED runs

\* serve_console
ConsoleByte ==
  /\ peer = "console" /\ sent # <<>> /\ sent' = Tail(sent)
  /\ Display(EchoForByte(Head(sent)))
  /\ last_was_cr' = (Head(sent) = "cr")
  /\ AcceptByte(Head(sent))
  /\ UNCHANGED <<peer, enter, pressed, telnet_bytes_left>>

\* A line feed after the carriage return that has ended its row.
Paired(byte) == byte = "lf" /\ last_was_cr

\* handle_connection, for a byte that is typed: an empty line is run as well.
TypedByte(byte) ==
  \/ /\ byte \in {"cr", "lf"} /\ ~Paired(byte)
     /\ Display("row") /\ line' = <<>> /\ runs' = runs + 1
     /\ last_was_cr' = (byte = "cr")
  \/ /\ byte = "bs" /\ line # <<>>
     /\ Display("erase") /\ line' = Front(line)
     /\ last_was_cr' = FALSE /\ UNCHANGED runs
  \/ /\ byte \in Chars /\ Fits
     /\ Display(byte) /\ line' = Append(line, byte)
     /\ last_was_cr' = FALSE /\ UNCHANGED runs
  \/ /\ \/ Paired(byte)
        \/ byte = "nul"
        \/ byte = "bs" /\ line = <<>>
        \/ byte \in Chars /\ ~Fits
     /\ last_was_cr' = FALSE
     /\ UNCHANGED <<terminal, begun, line, runs>>

\* handle_connection: what follows an IAC is skipped, two bytes.
TelnetByte ==
  /\ peer = "telnet" /\ sent # <<>> /\ sent' = Tail(sent)
  /\ \/ /\ (telnet_bytes_left > 0 \/ Head(sent) = "iac")
        /\ telnet_bytes_left' = IF telnet_bytes_left > 0 THEN telnet_bytes_left - 1
                                ELSE 2
        /\ UNCHANGED <<terminal, begun, line, runs, last_was_cr>>
     \/ /\ telnet_bytes_left = 0 /\ Head(sent) # "iac"
        /\ TypedByte(Head(sent))
        /\ UNCHANGED telnet_bytes_left
  /\ UNCHANGED <<peer, enter, pressed, dropped>>

\* The node reboots, or the connection is lost: at the console's terminal the row
\* stays, a telnet client begins anew.
RestartEditor ==
  /\ line' = <<>> /\ last_was_cr' = FALSE /\ telnet_bytes_left' = 0 /\ sent' = <<>>
  /\ pressed' = "other" /\ begun' = 0 /\ runs' = 0
  /\ IF peer = "telnet" THEN terminal' = Prompt /\ UNCHANGED dropped
     ELSE dropped' = dropped \o line /\ UNCHANGED terminal
  /\ UNCHANGED <<peer, enter>>

LinesNext ==
  \/ TypeChar \/ TypeControl \/ TypeEnter \/ Negotiate
  \/ ConsoleByte \/ TelnetByte \/ RestartEditor

LinesSpec == LinesInit /\ [][LinesNext]_lineVars

-------------------------------------------------------------------------------
(* Properties *)

\* The types of the variables; no line is longer than its buffer.
LinesTypeOK ==
  /\ peer \in {"console", "telnet"} /\ enter \in Terminators /\ pressed \in {"enter", "other"}
  /\ sent \in Seq(Chars \cup {"cr", "lf", "bs", "nul", "iac"})
  /\ line \in Seq(Chars) /\ Len(line) <= LINE_BUFFER_LEN
  /\ last_was_cr \in BOOLEAN /\ telnet_bytes_left \in 0..2
  /\ dropped \in Seq(Chars) /\ begun \in 0..2 /\ runs \in 0..2

\* What a terminal shows is the line that Enter will run, however it is edited, next to
\* the prompt and to what the row still shows of a line given up as too long or lost
\* in a reboot: the echo never disagrees with the buffer.  At a telnet client it is
\* exactly that line.
ShownIsRun ==
  /\ terminal = Prompt \o dropped \o line
  /\ peer = "telnet" => dropped = <<>>

\* A press of Enter begins one row and runs one command at most, whether the terminal
\* sends a carriage return, a line feed, or both for it.
EnterOnce ==
  pressed = "enter" /\ sent = <<>> => begun = 1 /\ runs <= 1

\* What the user sees is what is run, and once.
LinesAreTrue == LinesTypeOK /\ ShownIsRun /\ EnterOnce
==============================================================================
