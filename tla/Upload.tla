------------------------------- MODULE Upload -------------------------------
(***************************************************************************)
(* One upload of a converted video: UploadConvertedVideo and its attempts  *)
(* in internal/client/master_client.go, against UploadVideo of the         *)
(* master's internal/server/http.go.                                       *)
(*                                                                         *)
(* The body is a multipart form written by a goroutine into a pipe that    *)
(* the request reads.  A form is a part header, the blocks of the file and *)
(* a closing boundary; a reader that meets the end of the body inside a    *)
(* part does not take the form.  What the master does to the jobs table on *)
(* success is in MasterServer.                                             *)
(***************************************************************************)
EXTENDS Naturals, Sequences

CONSTANTS
  Blocks,    \* size of the output, in blocks: a natural number
  MaxTries   \* maxRetries of UploadConvertedVideo, at least 1

VARIABLES
  client,   \* the upload loop: "starting", "sending", "done", "failed"
  try,      \* which attempt of the loop this is
  writer,   \* the goroutine that writes the form
  pipe,     \* the pipe it writes to: "open" or "closed"
  body,     \* what the master has been sent
  told,     \* what the goroutine has put into errChan
  answer    \* the master's answer, 0 if there is none yet

vars == <<client, try, writer, pipe, body, told, answer>>

\* The form's pieces; the blocks of a file need not be told apart.
Pieces == {"header", "block", "boundary"}
WholeFile == <<"header">> \o [k \in 1 .. Blocks |-> "block"]
Form == Append(WholeFile, "boundary")

TypeOK ==
  /\ client \in {"starting", "sending", "done", "failed"}
  /\ try \in 1 .. MaxTries
  /\ writer \in {"none", "header", "copy", "pipe", "form", "ended"}
  /\ pipe \in {"open", "closed"}
  /\ body \in Seq(Pieces)
  /\ told \in {"nothing", "ok", "error"}
  /\ answer \in {0, 200, 400, 409, 500}

Init ==
  /\ client = "starting"
  /\ try = 1
  /\ writer = "none"
  /\ pipe = "open"
  /\ body = <<>>
  /\ told = "nothing"
  /\ answer = 0

-----------------------------------------------------------------------------
(* The client.                                                             *)

\* A pipe, the goroutine, the request.
StartAttempt ==
  /\ client = "starting"
  /\ client' = "sending"
  /\ writer' = "header"
  /\ pipe' = "open"
  /\ body' = <<>>
  /\ told' = "nothing"
  /\ answer' = 0
  /\ UNCHANGED try

\* After a failed attempt there is another one, or the upload has failed.
TryAgain ==
  IF try < MaxTries
    THEN client' = "starting" /\ try' = try + 1
    ELSE client' = "failed" /\ UNCHANGED try

\* No answer: the connection broke, the timeout struck, the context was
\* cancelled.  (The pipe is not used again; its goroutine is left to itself.)
RequestFails ==
  /\ client = "sending"
  /\ answer = 0
  /\ TryAgain
  /\ writer' = "none"
  /\ UNCHANGED <<pipe, body, told, answer>>

\* The answer is looked at once the goroutine has told how it went; a 4xx is
\* permanent.
ReadAnswer ==
  /\ client = "sending"
  /\ answer # 0
  /\ told # "nothing"
  /\ CASE told = "error"     -> TryAgain
       [] answer = 200       -> client' = "done" /\ UNCHANGED try
       [] answer = 500       -> TryAgain
       [] OTHER              -> client' = "failed" /\ UNCHANGED try
  /\ UNCHANGED <<writer, pipe, body, told, answer>>

-----------------------------------------------------------------------------
(* The goroutine that writes the form.                                     *)

write == <<client, try, answer>>

Send(piece) == body' = Append(body, piece)

CreateFormFile ==
  /\ writer = "header"
  /\ Send("header")
  /\ writer' = "copy"
  /\ UNCHANGED <<pipe, told, write>>

CopyBlock ==
  /\ writer = "copy"
  /\ Len(body) <= Blocks
  /\ Send("block")
  /\ UNCHANGED <<writer, pipe, told, write>>

\* io.Copy returns, with an error if the file could not be read; errChan has
\* room for what is told, and the deferred calls are next.
EndCopy ==
  /\ writer = "copy"
  /\ \/ Len(body) = Blocks + 1 /\ told' = "ok"
     \/ told' = "error"
  /\ writer' = "pipe"
  /\ UNCHANGED <<pipe, body, write>>

\* The first deferred call to run is the one deferred last.
ClosePipe ==
  /\ writer = "pipe"
  /\ pipe' = "closed"
  /\ writer' = "form"
  /\ UNCHANGED <<body, told, write>>

\* multipartWriter.Close writes the closing boundary, if the pipe takes it; if
\* not the error is logged.
CloseForm ==
  /\ writer = "form"
  /\ IF pipe = "open" THEN Send("boundary") ELSE UNCHANGED body
  /\ writer' = "ended"
  /\ UNCHANGED <<pipe, told, write>>

-----------------------------------------------------------------------------
(* The master.                                                             *)

\* The job is not processing any more: refused before the body is read.
RefuseJob ==
  /\ client = "sending"
  /\ answer = 0
  /\ answer' = 400
  /\ UNCHANGED <<client, try, writer, pipe, body, told>>

\* The body has ended.  ParseMultipartForm wants all of the form; with it the
\* file is stored and the row updated, unless the disk or the row prevents it.
AnswerUpload ==
  /\ client = "sending"
  /\ answer = 0
  /\ pipe = "closed"
  /\ answer' \in IF body = Form THEN {200, 409, 500} ELSE {400}
  /\ UNCHANGED <<client, try, writer, pipe, body, told>>

Next ==
  \/ StartAttempt
  \/ RequestFails
  \/ ReadAnswer
  \/ CreateFormFile
  \/ CopyBlock
  \/ EndCopy
  \/ ClosePipe
  \/ CloseForm
  \/ RefuseJob
  \/ AnswerUpload

Spec == Init /\ [][Next]_vars

-----------------------------------------------------------------------------
(* Properties.                                                             *)

\* "Workers upload converted videos to master" (TESTING_DISTRIBUTED.md:23): a
\* body that carries the whole file and has ended is one the master can take.
WholeUploadParses ==
  told = "ok" /\ pipe = "closed" /\ writer = "ended" => body = Form

=============================================================================
