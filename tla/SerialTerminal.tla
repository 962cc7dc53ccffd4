--------------------------- MODULE SerialTerminal ---------------------------
(***************************************************************************)
(* The interactive terminal of serial-tool (terminal_run, terminal.c).     *)
(* Ordinary keys are numbered as they are typed; 0 is the newline that     *)
(* ends a line, -1 stands for the characters sent by commands, -2 for the  *)
(* content of a file.  hex_mode, timestamp and local_echo only change what *)
(* is printed and are left out.                                            *)
(***************************************************************************)
EXTENDS Integers, SequencesExt

CONSTANTS
    LineSize,   \* sizeof(line_buf)
    MaxKeys     \* bound on the keys typed

VARIABLES
    running, escape, lineMode,   \* term->running, escape_mode, line_mode
    line,       \* line_buf up to line_pos, which outlives a change of mode
    port,       \* "ok" or "broken"
    tty,        \* "cooked" or "raw"
    where,      \* "loop", "restore" or "returned"
    sent,       \* what went out by the port, one element per serial_send
    keys,       \* keys typed so far
    fileSent, mixed   \* history: a file was asked for; line mode was left within a line

vars == <<running, escape, lineMode, line, port, tty, where, sent, keys, fileSent, mixed>>

\* terminal_run up to its loop.
Init ==
    /\ running = TRUE /\ escape = FALSE /\ lineMode = FALSE
    /\ line = <<>> /\ port = "ok" /\ tty = "raw" /\ where = "loop"
    /\ sent = <<>> /\ keys = 0 /\ fileSent = FALSE /\ mixed = FALSE

\* serial_send; its failure is not looked at.
SerialSend(data) == sent' = IF port = "ok" THEN Append(sent, data) ELSE sent

\* The next turn of the loop with the next key read.
Key ==
    /\ where = "loop" /\ running
    /\ keys < MaxKeys
    /\ keys' = keys + 1
    /\ UNCHANGED <<port, where>>

-----------------------------------------------------------------------------
(* Ctrl+A, and the key after it                                            *)

Prefix ==
    /\ Key /\ ~escape
    /\ escape' = TRUE
    /\ UNCHANGED <<running, lineMode, line, tty, sent, fileSent, mixed>>

Escaped == Key /\ escape /\ escape' = FALSE

Quit ==
    /\ Escaped
    /\ running' = FALSE
    /\ UNCHANGED <<lineMode, line, tty, sent, fileSent, mixed>>

ToggleLine ==
    /\ Escaped
    /\ lineMode' = ~lineMode
    /\ mixed' = (mixed \/ line # <<>>)
    /\ UNCHANGED <<running, line, tty, sent, fileSent>>

\* Ctrl+A c, d and a.
SendControl ==
    /\ Escaped
    /\ SerialSend(<<-1>>)
    /\ UNCHANGED <<running, lineMode, line, tty, fileSent, mixed>>

\* The settings of printing, help and unknown commands.
Display ==
    /\ Escaped
    /\ UNCHANGED <<running, lineMode, line, tty, sent, fileSent, mixed>>

\* Ctrl+A s: set_raw_mode(&saved) overwrites saved with the settings it finds,
\* the original ones, and they are then put back.
SendFile ==
    /\ Escaped
    /\ SerialSend(<<-2>>) \/ UNCHANGED sent
    /\ tty' = "cooked" /\ fileSent' = TRUE
    /\ UNCHANGED <<running, lineMode, line, mixed>>

-----------------------------------------------------------------------------
(* Other keys                                                              *)

RawKey ==
    /\ Key /\ ~escape /\ ~lineMode
    /\ SerialSend(<<keys + 1>>)
    /\ UNCHANGED <<running, escape, lineMode, line, tty, fileSent, mixed>>

\* Mutant: the line is kept after it is sent.
EnterKeeps ==
    /\ Key /\ ~escape /\ lineMode
    /\ SerialSend(Append(line, 0))
    /\ UNCHANGED <<running, escape, lineMode, line, tty, fileSent, mixed>>

Enter ==
    /\ Key /\ ~escape /\ lineMode
    /\ SerialSend(Append(line, 0))
    /\ line' = <<>>
    /\ UNCHANGED <<running, escape, lineMode, tty, fileSent, mixed>>

Backspace ==
    /\ Key /\ ~escape /\ lineMode
    /\ line' = IF line = <<>> THEN line ELSE Front(line)
    /\ UNCHANGED <<running, escape, lineMode, tty, sent, fileSent, mixed>>

LineKey ==
    /\ Key /\ ~escape /\ lineMode
    /\ line' = IF Len(line) < LineSize - 1 THEN Append(line, keys + 1) ELSE line
    /\ UNCHANGED <<running, escape, lineMode, tty, sent, fileSent, mixed>>

-----------------------------------------------------------------------------
(* The port, and the end                                                   *)

\* The device disappears.
Unplug ==
    /\ port = "ok" /\ where = "loop"
    /\ port' = "broken"
    /\ UNCHANGED <<running, escape, lineMode, line, tty, where, sent, keys, fileSent, mixed>>

\* The loop ends: running was cleared, or serial_recv failed.
EndLoop ==
    /\ where = "loop" /\ (~running \/ port = "broken")
    /\ where' = "restore"
    /\ UNCHANGED <<running, escape, lineMode, line, port, tty, sent, keys, fileSent, mixed>>

Restore ==
    /\ where = "restore"
    /\ tty' = "cooked"
    /\ where' = "returned"
    /\ UNCHANGED <<running, escape, lineMode, line, port, sent, keys, fileSent, mixed>>

Next ==
    \/ Prefix \/ Quit \/ ToggleLine \/ SendControl \/ Display \/ SendFile
    \/ RawKey \/ Enter \/ Backspace \/ LineKey
    \/ Unplug \/ EndLoop \/ Restore

Spec == Init /\ [][Next]_vars

-----------------------------------------------------------------------------
\* Keys go out in the order typed and each at most once, unless line mode is
\* switched while a line is unfinished: its keys then follow later ones.
KeysInOrder ==
    LET out == SelectSeq(FlattenSeq(sent) \o line, LAMBDA c : c > 0)
    IN  ~mixed => \A x, y \in DOMAIN out : x < y => out[x] < out[y]
=============================================================================
