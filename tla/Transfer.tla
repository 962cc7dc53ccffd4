------------------------------ MODULE Transfer ------------------------------
(***************************************************************************)
(* The transfer protocol of the file server: client.c and the handlers of  *)
(* server.c over one TCP connection per session, all sessions working on   *)
(* the same remote name.  A stream carries request headers, response       *)
(* headers and units of file data, in order; a reader takes whatever comes *)
(* next, as recv does.  A file is a sequence of units, unit i of the       *)
(* uploader's file being the number i, so a file that was put together     *)
(* wrongly is recognised by its content.  A session is one run of the      *)
(* client program; a client that was cut off comes back in a new one.      *)
(***************************************************************************)
EXTENDS Integers, FiniteSets, SequencesExt

CONSTANTS
    Sessions,      \* numbers, in the order in which a client uses its own
    Owner,         \* the client that runs a session
    Uploader,      \* the client that owns the original file
    May,           \* the commands a client gives
    Sizes,         \* sizes the original may have
    LenMod,        \* 2^32 in the code: lengths on the wire are uint32_t
    MaxCalls,      \* bound on the commands given in a session
    Faults,        \* local opens and writes, and the server, may fail
    Overlap        \* a client may come back before its old handler has ended

VARIABLES
    entry,         \* what the remote name is: an inode number, Absent or Dir
    data,          \* the content of each inode
    local,         \* the local file of each client
    cl,            \* where the client program of a session is
    sv,            \* where server_handle_client of a session is
    up, down,      \* the two directions of the connection
    calls,         \* commands given so far in a session
    spoiled        \* history: a known cause has put the two sides out of step

vars == <<entry, data, local, cl, sv, up, down, calls, spoiled>>

Absent == 0
Dir == -1
Inodes == 1 .. Cardinality(Sessions) + 1
Hole == 0        \* what a file holds where nothing was written
Junk == -1       \* bytes of a header that were taken for data
DirSize == 1     \* st_size of a directory, in units

Clients == {Owner[k] : k \in Sessions}
Wire(n) == n % LenMod
Original == local[Uploader]

(***************************************************************************)
(* Messages.                                                               *)
(***************************************************************************)
Request(cmd, len, off, bad) ==
    [t |-> "request", cmd |-> cmd, len |-> len, off |-> off, bad |-> bad]
Response(status, len) == [t |-> "response", st |-> status, len |-> len]
Unit(v) == [t |-> "data", v |-> v]

Statuses == {"OK", "ERROR", "NOT_FOUND", "DENIED", "PARTIAL"}

\* What a response header read from the stream says; data that is taken for
\* one says anything.
AsResponse(m) == IF m.t = "response" THEN {m}
                 ELSE {Response(st, n) : st \in Statuses, n \in 0 .. LenMod - 1}
AsUnit(m) == IF m.t = "data" THEN m.v ELSE Junk

NoCall == [pc |-> "new", cmd |-> "none", left |-> 0, off |-> 0, bad |-> FALSE]
NoTransfer == [pc |-> "new", ino |-> Absent, left |-> 0, off |-> 0, fresh |-> FALSE]

Init ==
    /\ entry = Absent
    /\ data = [i \in Inodes |-> <<>>]
    \* a client may have part of the file from an earlier transfer
    /\ \E n \in Sizes :
        /\ local \in [Clients -> {[i \in 1 .. m |-> i] : m \in 0 .. n}]
        /\ Len(local[Uploader]) = n
    /\ cl = [k \in Sessions |-> NoCall]
    /\ sv = [k \in Sessions |-> NoTransfer]
    /\ up = [k \in Sessions |-> <<>>]
    /\ down = [k \in Sessions |-> <<>>]
    /\ calls = [k \in Sessions |-> 0]
    /\ spoiled = [k \in Sessions |-> FALSE]

files == <<entry, data>>
client == <<local, cl, calls>>

At(k, pc) == cl[k].pc = pc
Serving(k, pc) == sv[k].pc = pc
ClientAt(k, pc) == cl' = [cl EXCEPT ![k].pc = pc]

ServerAt(k, pc) == sv' = [sv EXCEPT ![k] = [NoTransfer EXCEPT !.pc = pc]]
Say(k, m) == up' = IF Serving(k, "closed") THEN up ELSE [up EXCEPT ![k] = Append(@, m)]
Reply(k, m) == down' = IF At(k, "gone") THEN down ELSE [down EXCEPT ![k] = Append(@, m)]
Heard(k) == up' = [up EXCEPT ![k] = Tail(@)]
Read(k) == down' = [down EXCEPT ![k] = Tail(@)]

\* close() at either end: what that end has not read is discarded.
ClientEnds(k) ==
    /\ cl' = [cl EXCEPT ![k] = [NoCall EXCEPT !.pc = "gone"]]
    /\ down' = [down EXCEPT ![k] = <<>>]
Spoil(k, why) == spoiled' = [spoiled EXCEPT ![k] = @ \/ why]

-----------------------------------------------------------------------------
(***************************************************************************)
(* The client program.  Its pc: "await" a response, "get" file data,       *)
(* "list" or "skip" data, "put" file data, wait for the "ack" of an        *)
(* upload, "idle" between commands.                                        *)
(***************************************************************************)
Connect(k) ==
    /\ At(k, "new")
    /\ \A j \in Sessions : Owner[j] = Owner[k] /\ j < k =>
            At(j, "gone") /\ (Overlap \/ Serving(j, "closed"))
    /\ ClientAt(k, "idle")
    /\ ServerAt(k, "header")
    /\ UNCHANGED <<files, local, calls, up, down, spoiled>>

Mine(k) == local[Owner[k]]

\* Mutant: the announced length is one too large.
PutHeaderLong(k, off, bad) ==
    /\ Say(k, Request("upload", Wire(Len(Mine(k)) - off) + 1, off, bad))
    /\ Spoil(k, Len(Mine(k)) - off >= LenMod)

\* The tail of client_upload and client_upload_resume starts with a header
\* whose 32-bit length stands for all that is sent after it.
PutHeader(k, off, bad) ==
    /\ Say(k, Request("upload", Wire(Len(Mine(k)) - off), off, bad))
    /\ Spoil(k, Len(Mine(k)) - off >= LenMod)

Call(k) ==
    /\ At(k, "idle")
    /\ ~Serving(k, "closed")
    /\ calls[k] < MaxCalls
    /\ calls' = [calls EXCEPT ![k] = @ + 1]
    /\ \E cmd \in May[Owner[k]], bad \in {FALSE, Faults} :
        /\ cl' = [cl EXCEPT ![k] = [pc |-> IF cmd = "upload" THEN "put" ELSE "await",
                                    cmd |-> cmd, left |-> 0, off |-> 0, bad |-> bad]]
        /\ \/ /\ cmd = "upload"
              /\ PutHeader(k, 0, bad)
           \/ /\ cmd \in {"download", "download_resume", "upload_resume"}
              /\ Say(k, Request("download", 0,
                                IF cmd = "download_resume" THEN Len(Mine(k)) ELSE 0, bad))
              /\ UNCHANGED spoiled
           \/ /\ cmd \in {"list", "delete", "mkdir", "rmdir", "pwd"}
              /\ Say(k, Request(cmd, 0, 0, bad))
              /\ UNCHANGED spoiled
    /\ UNCHANGED <<files, local, sv, down>>

\* client_delete_file, client_mkdir, client_rmdir and client_pwd return
\* whatever the status; client_list_files goes on to the listing.
AnswerPlain(k) ==
    /\ At(k, "await")
    /\ cl[k].cmd \in {"list", "delete", "mkdir", "rmdir", "pwd"}
    /\ down[k] # <<>>
    /\ \E r \in AsResponse(Head(down[k])) :
         cl' = [cl EXCEPT ![k].pc = IF cl[k].cmd = "list" /\ r.st = "OK" THEN "list" ELSE "idle",
                          ![k].left = IF cl[k].cmd = "list" /\ r.st = "OK" THEN r.len ELSE 0]
    /\ Read(k)
    /\ UNCHANGED <<files, local, calls, sv, up, spoiled>>

\* client_download and client_download_resume up to the receive loop.  When
\* the local file cannot be opened the announced data stays in the stream.
AnswerDownload(k) ==
    /\ At(k, "await")
    /\ cl[k].cmd \in {"download", "download_resume"}
    /\ down[k] # <<>>
    /\ \E r \in AsResponse(Head(down[k])) :
        LET accepted == r.st = "OK" \/ (r.st = "PARTIAL" /\ cl[k].cmd = "download_resume")
            append == r.st = "PARTIAL" /\ Mine(k) # <<>>
        IN  \/ /\ ~accepted
               /\ ClientAt(k, "idle")
               /\ UNCHANGED <<local, spoiled>>
            \/ /\ accepted /\ Faults
               /\ ClientAt(k, "idle")
               /\ Spoil(k, r.len > 0)
               /\ UNCHANGED local
            \/ /\ accepted
               /\ cl' = [cl EXCEPT ![k].pc = "get", ![k].left = r.len]
               /\ local' = [local EXCEPT ![Owner[k]] = IF append THEN @ ELSE <<>>]
               /\ UNCHANGED spoiled
    /\ Read(k)
    /\ UNCHANGED <<files, calls, sv, up>>

\* Mutant: the data of the probing download is not skipped.
AnswerSizeNoSkip(k) ==
    /\ At(k, "await")
    /\ cl[k].cmd = "upload_resume"
    /\ down[k] # <<>>
    /\ \E r \in AsResponse(Head(down[k])) :
        LET off == IF r.st = "OK" /\ r.len < Len(Mine(k)) THEN r.len ELSE 0
        IN  /\ cl' = [cl EXCEPT ![k].pc = "put", ![k].off = off]
            /\ PutHeader(k, off, cl[k].bad)
    /\ Read(k)
    /\ UNCHANGED <<files, local, calls, sv>>

\* The first half of client_upload_resume: the announced length of a download
\* that is not wanted tells the size of the remote file.
AnswerSize(k) ==
    /\ At(k, "await")
    /\ cl[k].cmd = "upload_resume"
    /\ down[k] # <<>>
    /\ \E r \in AsResponse(Head(down[k])) :
        \/ /\ r.st = "OK" /\ r.len > 0
           /\ cl' = [cl EXCEPT ![k].pc = "skip", ![k].left = r.len, ![k].off = r.len]
           /\ UNCHANGED <<up, spoiled>>
        \/ /\ ~(r.st = "OK" /\ r.len > 0)
           /\ ClientAt(k, "put")
           /\ PutHeader(k, 0, cl[k].bad)
    /\ Read(k)
    /\ UNCHANGED <<files, local, calls, sv>>

\* One unit in any of the three receive loops.
GetUnit(k) ==
    /\ cl[k].pc \in {"get", "list", "skip"}
    /\ cl[k].left > 0
    /\ down[k] # <<>>
    /\ cl' = [cl EXCEPT ![k].left = @ - 1]
    /\ local' = IF At(k, "get")
                THEN [local EXCEPT ![Owner[k]] = Append(@, AsUnit(Head(down[k])))]
                ELSE local
    /\ Read(k)
    /\ UNCHANGED <<files, calls, sv, up, spoiled>>

\* write() fails: the loop is left and the rest stays in the stream.
GetWriteFails(k) ==
    /\ Faults
    /\ At(k, "get")
    /\ cl[k].left > 0
    /\ down[k] # <<>>
    /\ cl' = [cl EXCEPT ![k].pc = "idle", ![k].left = 0]
    /\ Read(k)
    /\ Spoil(k, cl[k].left > 1)
    /\ UNCHANGED <<files, local, calls, sv, up>>

GetDone(k) ==
    /\ cl[k].pc \in {"get", "list"}
    /\ cl[k].left = 0
    /\ ClientAt(k, "idle")
    /\ UNCHANGED <<files, local, calls, sv, up, down, spoiled>>

\* client_upload_resume has skipped the data: resume, or there is nothing to
\* send.
SkipDone(k) ==
    /\ At(k, "skip")
    /\ cl[k].left = 0
    /\ \/ /\ cl[k].off < Wire(Len(Mine(k)))
          /\ ClientAt(k, "put")
          /\ PutHeader(k, cl[k].off, cl[k].bad)
       \/ /\ cl[k].off >= Wire(Len(Mine(k)))
          /\ ClientAt(k, "idle")
          /\ UNCHANGED <<up, spoiled>>
    /\ UNCHANGED <<files, local, calls, sv, down>>

PutUnit(k) ==
    /\ At(k, "put")
    /\ ~Serving(k, "closed")
    /\ \/ /\ cl[k].off < Len(Mine(k))
          /\ Say(k, Unit(Mine(k)[cl[k].off + 1]))
          /\ cl' = [cl EXCEPT ![k].off = @ + 1]
       \/ /\ cl[k].off = Len(Mine(k))
          /\ ClientAt(k, "ack")
          /\ UNCHANGED up
    /\ UNCHANGED <<files, local, calls, sv, down, spoiled>>

\* The status of an upload is printed, not looked at.
Ack(k) ==
    /\ At(k, "ack")
    /\ down[k] # <<>>
    /\ Read(k)
    /\ ClientAt(k, "idle")
    /\ UNCHANGED <<files, local, calls, sv, up, spoiled>>

\* The server has closed and everything it sent is read: a receive fails and
\* the command returns; a send raises SIGPIPE, which the client does not ignore.
ServerGone(k) ==
    /\ Serving(k, "closed")
    /\ \/ /\ cl[k].pc \in {"await", "ack"} \/ (cl[k].pc \in {"get", "list"} /\ cl[k].left > 0)
          /\ down[k] = <<>>
          /\ ClientAt(k, "idle")
          /\ UNCHANGED down
       \/ /\ At(k, "put") \/ (At(k, "skip") /\ cl[k].left > 0 /\ down[k] = <<>>)
          /\ ClientEnds(k)
    /\ UNCHANGED <<files, local, calls, sv, up, spoiled>>

\* client_disconnect.
Leave(k) ==
    /\ At(k, "idle")
    /\ ClientEnds(k)
    /\ Say(k, Request("quit", 0, 0, FALSE))
    /\ UNCHANGED <<files, local, calls, sv, spoiled>>

\* The client is killed or cut off, anywhere; what is still under way towards
\* the server may be lost from some point on.
CutOff(k) ==
    /\ cl[k].pc \notin {"new", "gone"}
    /\ ClientEnds(k)
    /\ \E n \in 0 .. Len(up[k]) : up' = [up EXCEPT ![k] = SubSeq(@, 1, n)]
    /\ UNCHANGED <<files, local, calls, sv, spoiled>>

-----------------------------------------------------------------------------
(***************************************************************************)
(* server_handle_client.  Its pc: "header" at the top of the loop,         *)
(* "sending" and "recving" in the loops of server_send_file and            *)
(* server_recv_file, "closed" after remove_client.                         *)
(***************************************************************************)
Asked(k, cmd) ==
    /\ Serving(k, "header")
    /\ up[k] # <<>>
    /\ Head(up[k]).t = "request"
    /\ Head(up[k]).cmd = cmd

Free == Inodes \ ({entry} \cup {sv[j].ino : j \in Sessions})

\* unlink() of the name removes a file, whoever has it open, never a directory.
Unlink == entry' = IF entry = Dir THEN Dir ELSE Absent

\* server_list_files answers with a text that is never empty.
ServeList(k) ==
    /\ Asked(k, "list")
    /\ down' = IF At(k, "gone") THEN down
               ELSE [down EXCEPT ![k] = @ \o <<Response("OK", 1), Unit(Junk)>>]
    /\ Heard(k)
    /\ UNCHANGED <<files, client, sv, spoiled>>

ServeName(k) ==
    /\ \/ /\ Asked(k, "delete")
          /\ Unlink
       \/ /\ Asked(k, "mkdir")
          /\ entry' = IF entry = Absent THEN Dir ELSE entry
       \/ /\ Asked(k, "rmdir")
          /\ entry' = IF entry = Dir THEN Absent ELSE entry
       \/ /\ Asked(k, "pwd")
          /\ UNCHANGED entry
    /\ Head(up[k]).bad => Head(up[k]).cmd = "pwd"
    /\ Reply(k, Response(IF entry' # entry \/ Head(up[k]).cmd = "pwd" THEN "OK"
                         ELSE IF Head(up[k]).cmd = "delete" THEN "NOT_FOUND" ELSE "ERROR", 0))
    /\ Heard(k)
    /\ UNCHANGED <<data, client, sv, spoiled>>

\* A name with ".." or "/" is refused.  The data of a refused upload is not
\* read: it will be taken for the next header.
ServeDenied(k) ==
    /\ \E cmd \in {"delete", "mkdir", "rmdir", "download", "upload"} : Asked(k, cmd)
    /\ Head(up[k]).bad
    /\ Reply(k, Response("DENIED", 0))
    /\ Heard(k)
    /\ Spoil(k, Head(up[k]).len > 0)
    /\ UNCHANGED <<files, client, sv>>

\* server_send_file up to its loop.  open() and fstat() succeed on a directory.
ServeDownload(k) ==
    /\ Asked(k, "download")
    /\ ~Head(up[k]).bad
    /\ LET off == Head(up[k]).off
           size == IF entry = Dir THEN DirSize ELSE Len(data[entry])
       IN  \/ /\ entry = Absent
              /\ Reply(k, Response("NOT_FOUND", 0))
              /\ UNCHANGED <<sv, spoiled>>
           \/ /\ entry # Absent /\ off > size
              /\ Reply(k, Response("ERROR", 0))
              /\ UNCHANGED <<sv, spoiled>>
           \/ /\ entry # Absent /\ off <= size
              /\ Reply(k, Response(IF off > 0 THEN "PARTIAL" ELSE "OK", Wire(size - off)))
              /\ sv' = [sv EXCEPT ![k] = [pc |-> "sending", ino |-> entry, left |-> size - off,
                                          off |-> off, fresh |-> FALSE]]
              /\ Spoil(k, size - off >= LenMod)
    /\ Heard(k)
    /\ UNCHANGED <<files, client>>

\* The loop sends what the file holds when it is read, not what was announced.
\* It ends at the end of the file, at once for a directory (EISDIR), or when
\* the peer is gone.
SendUnit(k) ==
    /\ Serving(k, "sending")
    /\ LET i == sv[k].ino
           more == i # Dir /\ sv[k].off < Len(data[i]) /\ ~At(k, "gone")
       IN  \/ /\ more
              /\ Reply(k, Unit(data[i][sv[k].off + 1]))
              /\ sv' = [sv EXCEPT ![k].off = @ + 1, ![k].left = @ - 1]
              /\ Spoil(k, sv[k].left = 0)
           \/ /\ ~more
              /\ ServerAt(k, "header")
              /\ Spoil(k, sv[k].left > 0)
              /\ UNCHANGED down
    /\ UNCHANGED <<files, client, up>>

\* Mutant: the seek to the offset of a resumed upload is missing.
ServeUploadNoSeek(k) ==
    /\ Asked(k, "upload")
    /\ ~Head(up[k]).bad
    /\ entry # Dir
    /\ LET i == IF entry = Absent THEN Min(Free) ELSE entry
       IN  /\ entry' = i
           /\ data' = [data EXCEPT ![i] = IF Head(up[k]).off = 0 THEN <<>> ELSE @]
           /\ sv' = [sv EXCEPT ![k] = [pc |-> "recving", ino |-> i, left |-> Head(up[k]).len,
                                       off |-> 0, fresh |-> Head(up[k]).off = 0]]
    /\ Heard(k)
    /\ UNCHANGED <<client, down, spoiled>>

\* server_recv_file up to its loop.
ServeUpload(k) ==
    /\ Asked(k, "upload")
    /\ ~Head(up[k]).bad
    /\ LET off == Head(up[k]).off
           i == IF entry = Absent THEN Min(Free) ELSE entry
       IN  \/ /\ entry = Dir
              /\ Reply(k, Response("ERROR", 0))
              /\ Spoil(k, Head(up[k]).len > 0)
              /\ UNCHANGED <<files, sv>>
           \/ /\ entry # Dir
              /\ entry' = i
              /\ data' = [data EXCEPT ![i] = IF off = 0 \/ entry = Absent THEN <<>> ELSE @]
              /\ sv' = [sv EXCEPT ![k] = [pc |-> "recving", ino |-> i, left |-> Head(up[k]).len,
                                          off |-> off, fresh |-> off = 0]]
              /\ UNCHANGED <<down, spoiled>>
    /\ Heard(k)
    /\ UNCHANGED client

\* write() at an offset; a gap before it reads as zeros.
WriteAt(s, off, v) ==
    [i \in 1 .. Max({Len(s), off + 1}) |->
        IF i = off + 1 THEN v ELSE IF i <= Len(s) THEN s[i] ELSE Hole]

RecvUnit(k) ==
    /\ Serving(k, "recving")
    /\ sv[k].left > 0
    /\ up[k] # <<>>
    /\ data' = [data EXCEPT ![sv[k].ino] = WriteAt(@, sv[k].off, AsUnit(Head(up[k])))]
    /\ sv' = [sv EXCEPT ![k].off = @ + 1, ![k].left = @ - 1]
    /\ Heard(k)
    /\ UNCHANGED <<entry, client, down, spoiled>>

\* Mutant: the loop stops one unit early.
RecvDoneEarly(k) ==
    /\ Serving(k, "recving")
    /\ sv[k].left <= 1
    /\ Reply(k, Response("OK", 0))
    /\ ServerAt(k, "header")
    /\ UNCHANGED <<files, client, up, spoiled>>

RecvDone(k) ==
    /\ Serving(k, "recving")
    /\ sv[k].left = 0
    /\ Reply(k, Response("OK", 0))
    /\ ServerAt(k, "header")
    /\ UNCHANGED <<files, client, up, spoiled>>

\* An error in the loop: a fresh upload is removed again, by name.  There is
\* no response, and what is left of the data stays in the stream.
RecvCleanup(k) ==
    /\ IF sv[k].fresh THEN Unlink ELSE UNCHANGED entry
    /\ ServerAt(k, "header")

RecvFails(k) ==
    /\ Serving(k, "recving")
    /\ sv[k].left > 0
    /\ \/ /\ At(k, "gone") /\ up[k] = <<>>
          /\ UNCHANGED <<up, spoiled>>
       \/ /\ Faults /\ up[k] # <<>>
          /\ Heard(k)
          /\ Spoil(k, TRUE)
    /\ RecvCleanup(k)
    /\ UNCHANGED <<data, client, down>>

\* CMD_QUIT, and the end of the stream in the middle of a header or before it.
ServeQuit(k) ==
    /\ \/ /\ Asked(k, "quit")
          /\ Reply(k, Response("OK", 0))
       \/ /\ Serving(k, "header") /\ At(k, "gone")
          /\ up[k] # <<>> => Head(up[k]).t = "data"
          /\ UNCHANGED down
    /\ ServerAt(k, "closed")
    /\ up' = [up EXCEPT ![k] = <<>>]
    /\ UNCHANGED <<files, client, spoiled>>

\* Data in the place of a header fails the test of the magic number, if enough
\* of it comes to fill a header.
ServeBadMagic(k) ==
    /\ Serving(k, "header")
    /\ up[k] # <<>> /\ Head(up[k]).t = "data"
    /\ Reply(k, Response("ERROR", 0))
    /\ ServerAt(k, "closed")
    /\ up' = [up EXCEPT ![k] = <<>>]
    /\ UNCHANGED <<files, client, spoiled>>

\* The server process dies; files stay as they are.
Crash ==
    /\ Faults
    /\ \E k \in Sessions : sv[k].pc \notin {"new", "closed"}
    /\ sv' = [k \in Sessions |-> IF Serving(k, "new") THEN sv[k]
                                 ELSE [NoTransfer EXCEPT !.pc = "closed"]]
    /\ up' = [k \in Sessions |-> <<>>]
    /\ spoiled' = [k \in Sessions |-> spoiled[k] \/ Serving(k, "recving")]
    /\ UNCHANGED <<files, client, down>>

ClientStep(k) ==
    \/ AnswerPlain(k) \/ AnswerDownload(k) \/ AnswerSize(k) \/ GetUnit(k) \/ GetDone(k)
    \/ SkipDone(k) \/ PutUnit(k) \/ Ack(k) \/ ServerGone(k)
ServerStep(k) ==
    \/ ServeList(k) \/ ServeName(k) \/ ServeDenied(k) \/ ServeDownload(k) \/ SendUnit(k)
    \/ ServeUpload(k) \/ RecvUnit(k) \/ RecvDone(k) \/ RecvFails(k) \/ ServeQuit(k)

Next ==
    \/ \E k \in Sessions :
        \/ Connect(k) \/ Call(k) \/ Leave(k) \/ CutOff(k) \/ GetWriteFails(k)
        \/ ClientStep(k) \/ ServerStep(k) \/ ServeBadMagic(k)
    \/ Crash

Spec == Init /\ [][Next]_vars

-----------------------------------------------------------------------------
\* The two sides of a session stay in step: each finds in its stream what it is
\* about to read (a header, a response, data), and between two commands both
\* streams are empty, unless one of these has happened: an upload was refused,
\* a local open or write failed, a length did not fit 32 bits, a directory was
\* downloaded, or the file changed size while it was being sent.  No other mix
\* of commands, resumes, errors and lost connections does it.
StayInStep ==
    \A k \in Sessions : ~spoiled[k] =>
        /\ up[k] # <<>> /\ Serving(k, "header") => Head(up[k]).t = "request" \/ At(k, "gone")
        /\ up[k] # <<>> /\ Serving(k, "recving") => Head(up[k]).t = "data"
        /\ down[k] # <<>> /\ cl[k].pc \in {"await", "ack"} => Head(down[k]).t = "response"
        /\ down[k] # <<>> /\ cl[k].pc \in {"get", "skip", "list"} /\ cl[k].left > 0 =>
                Head(down[k]).t = "data"
        /\ At(k, "idle") /\ ~Serving(k, "closed") => up[k] = <<>> /\ down[k] = <<>>

\* With one client that uploads, every copy is at every moment a prefix of the
\* original, however transfers are cut off, resumed, or overtaken by each
\* other and by a crash of the server: so resuming at the size of what is
\* there, which is all the code looks at, is right.
CopiesArePrefixes ==
    /\ entry \in Inodes => IsPrefix(data[entry], Original)
    /\ \A k \in Sessions : ~At(k, "new") /\ ~spoiled[k] => IsPrefix(Mine(k), Original)

\* An OK for an upload, fresh or resumed, reaches the client only when the
\* remote file is the whole local file.
AckedIsComplete ==
    \A k \in Sessions :
        At(k, "ack") /\ down[k] # <<>> /\ ~spoiled[k] /\ Head(down[k]) = Response("OK", 0) =>
            entry \in Inodes /\ data[entry] = Mine(k)

\* The two sides never wait for each other: while the client waits for a
\* response or for data, the server is not waiting for the client, unless they
\* are out of step.
NeverBothWait ==
    \A k \in Sessions :
        /\ ~spoiled[k]
        /\ \/ cl[k].pc \in {"await", "ack"}
           \/ cl[k].pc \in {"get", "skip", "list"} /\ cl[k].left > 0
        /\ down[k] = <<>>
        => \/ up[k] # <<>>
           \/ ~Serving(k, "header") /\ ~(Serving(k, "recving") /\ sv[k].left > 0)
=============================================================================
