----------------------------- MODULE WebRequest -----------------------------
(***************************************************************************)
(* One request to the web server: handle_client, http_send_file and        *)
(* http_response_send (http.c).  The path asked for may be a file, a       *)
(* directory with or without an index file, or nothing, and may change     *)
(* between any two system calls, the index file independently of the       *)
(* directory; fstat does not fail; the client may leave at any time.       *)
(* Bodies are counted in units; Room is what the response buffer has for a *)
(* body.                                                                   *)
(***************************************************************************)
EXTENDS Integers, Sequences

CONSTANTS Sizes, Room, MaxEdits

VARIABLES
    request,    \* "none", "bad", "route" or "path"
    path, index,   \* what the path and its index file are: None, Dir or a size
    use,        \* which of the two file_path names: "path" or "index"
    pc,
    client,     \* "here" or "left"
    answers,    \* status codes sent
    announced, body,   \* Content-Length, and units of body sent
    opened,     \* the size of the open file (its content may change), Dir or Closed
    clientOpen, \* the connection's descriptor
    edits, touched     \* touched: a directory was opened, or the file changed after fstat

files == <<path, index, opened, edits, touched>>
vars == <<request, path, index, use, pc, client, answers, announced, body, opened, clientOpen, edits, touched>>

None == -2
Dir == -1
Closed == -3
Kinds == {None, Dir} \cup Sizes
Named == IF use = "path" THEN path ELSE index

Init ==
    /\ request \in {"none", "bad", "route", "path"}
    /\ path \in Kinds /\ index \in Kinds
    /\ use = "path" /\ pc = "recv" /\ client = "here"
    /\ answers = <<>> /\ announced = 0 /\ body = 0
    /\ opened = Closed /\ clientOpen = TRUE
    /\ edits = 0 /\ touched = FALSE

-----------------------------------------------------------------------------
(* Others.                                                                 *)

\* Somebody replaces the path or the index, or changes the file in place.
Edit ==
    /\ edits < MaxEdits /\ pc # "done"
    /\ edits' = edits + 1
    /\ \/ path' \in Kinds /\ UNCHANGED <<index, opened, touched>>
       \/ index' \in Kinds /\ UNCHANGED <<path, opened, touched>>
       \/ /\ opened >= 0 /\ opened' \in Sizes
          /\ touched' = (touched \/ pc # "fstat")
          /\ UNCHANGED <<path, index>>
    /\ UNCHANGED <<request, use, pc, client, answers, announced, body, clientOpen>>

ClientLeaves ==
    /\ client = "here" /\ pc # "done"
    /\ client' = "left"
    /\ UNCHANGED <<request, use, pc, answers, announced, body, clientOpen, files>>

-----------------------------------------------------------------------------
(* handle_client                                                           *)

Close ==
    /\ pc' = "done" /\ clientOpen' = FALSE /\ opened' = Closed

\* A whole short response: it is sent, or the client has left.
Answer(status) == answers' = Append(answers, status)

\* recv and http_request_parse
Receive ==
    /\ pc = "recv"
    /\ \/ /\ request = "none" /\ client = "left"
          /\ Close
          /\ UNCHANGED <<answers, announced, body>>
       \/ /\ request = "bad"
          /\ Answer(400) /\ Close
          /\ UNCHANGED <<announced, body>>
       \/ /\ request \in {"route", "path"}
          /\ pc' = IF request = "route" THEN "route" ELSE "stat"
          /\ UNCHANGED <<answers, announced, body, opened, clientOpen>>
    /\ UNCHANGED <<request, path, index, use, client, edits, touched>>

\* A route's handler fills in a body; http_response_build cuts it to the buffer.
Route ==
    /\ pc = "route"
    /\ \E n \in Sizes :
           announced' = n /\ body' = IF n > Room THEN Room ELSE n
    /\ Answer(200) /\ Close
    /\ UNCHANGED <<request, path, index, use, client, edits, touched>>

\* The first stat, and for a directory that of its index file.
Stat ==
    /\ pc = "stat"
    /\ pc' = IF path = Dir THEN "index" ELSE "again"
    /\ UNCHANGED <<request, use, client, answers, announced, body, clientOpen, files>>

StatIndex ==
    /\ pc = "index"
    /\ IF index # None THEN use' = "index" /\ UNCHANGED answers
       ELSE Answer(403) /\ UNCHANGED use
    /\ pc' = "again"
    /\ UNCHANGED <<request, client, announced, body, clientOpen, files>>

\* The second stat of file_path.
StatAgain ==
    /\ pc = "again"
    /\ IF Named >= 0 THEN pc' = "open" /\ UNCHANGED <<answers, clientOpen, opened>>
       ELSE Answer(404) /\ Close
    /\ UNCHANGED <<request, path, index, use, client, announced, body, edits, touched>>

\* http_send_file; a directory that has taken the name opens too.
Open ==
    /\ pc = "open"
    /\ IF Named = None THEN Answer(404) /\ Close
       ELSE /\ opened' = Named
            /\ pc' = "fstat"
            /\ UNCHANGED <<answers, clientOpen>>
    /\ UNCHANGED <<request, path, index, use, client, announced, body, edits, touched>>

\* Mutant: the length announced is the one seen by the first stat.
FstatStale ==
    /\ pc = "fstat"
    /\ announced' = IF path >= 0 THEN path ELSE 1
    /\ touched' = (opened = Dir)
    /\ pc' = "header"
    /\ UNCHANGED <<request, path, index, use, client, answers, body, opened, clientOpen, edits>>

\* A directory has a size too, though nothing can be read from it.
Fstat ==
    /\ pc = "fstat"
    /\ announced' = IF opened = Dir THEN 1 ELSE opened
    /\ touched' = (opened = Dir)
    /\ pc' = "header"
    /\ UNCHANGED <<request, path, index, use, client, answers, body, opened, clientOpen, edits>>

\* send of the header, which fails only if the client has left.
Header ==
    /\ pc = "header"
    /\ \/ Answer(200) /\ pc' = "body" /\ UNCHANGED <<clientOpen, opened>>
       \/ client = "left" /\ Close /\ UNCHANGED answers
    /\ UNCHANGED <<request, path, index, use, client, announced, body, edits, touched>>

\* The loop of read and send, up to the end of the file as it is then.
Body ==
    /\ pc = "body"
    /\ \/ body < opened /\ body' = body + 1 /\ UNCHANGED <<pc, clientOpen, opened>>
       \/ body >= opened /\ Close /\ UNCHANGED body
       \/ client = "left" /\ Close /\ UNCHANGED body
    /\ UNCHANGED <<request, path, index, use, client, answers, announced, edits, touched>>

Worker == Receive \/ Route \/ Stat \/ StatIndex \/ StatAgain \/ Open \/ Fstat \/ Header \/ Body
Next == Worker \/ Edit \/ ClientLeaves

Spec == Init /\ [][Next]_vars

-----------------------------------------------------------------------------
\* The body is as long as announced, unless the file is changed in place after
\* that or a directory takes its name, or a route's body exceeds the buffer.
BodyAsAnnounced ==
    pc = "done" /\ client = "here" /\ ~touched /\ announced <= Room => body = announced
=============================================================================
