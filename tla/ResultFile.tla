----------------------------- MODULE ResultFile -----------------------------
(***************************************************************************)
(* The file checkResult.txt: DevicePermissionActivity appends the report   *)
(* of a check to it, MainActivity sends it to a server and removes it      *)
(* whenever it is left, through ResultHandler.  The two activities are     *)
(* never in front together, and the one that checks kills the process as   *)
(* soon as it is left; the file outlives the process.                      *)
(*                                                                         *)
(* Sending is a request and an answer on the UI thread.  The server may    *)
(* have taken the report although the answer is lost, or is not the one    *)
(* that removes the file.                                                  *)
(***************************************************************************)
EXTENDS Naturals

CONSTANT MaxChecks      \* bound: checks that are made

ASSUME MaxChecksAssumption == MaxChecks \in Nat

VARIABLES
    activity,   \* in front: "main", "check" or another one
    asked,      \* the dialog of the check waits for its button
    checks,     \* checks made so far: each has a number
    file,       \* the reports in checkResult.txt: [check, whole]
    network,
    upload,     \* upLoadResult: outside, about to send, waiting for the answer
    taken,      \* the server took what waits for an answer
    server,     \* the reports the server took
    doubtful,   \* reports the server took and that stayed in the file
    message     \* the dialog shown after upLoadResult

vars == <<activity, asked, checks, file, network, upload, taken, server, doubtful, message>>

Reports == [check : 1..MaxChecks, whole : BOOLEAN]

TypeOK ==
    /\ activity \in {"main", "check", "other"}
    /\ asked \in BOOLEAN /\ network \in BOOLEAN /\ taken \in BOOLEAN
    /\ checks \in 0..MaxChecks
    /\ file \subseteq Reports /\ server \subseteq Reports /\ doubtful \subseteq Reports
    /\ upload \in {"idle", "send", "answer"}
    /\ message \in {"none", "uploaded", "failed"}
    /\ upload # "idle" => activity = "main"

\* The application as it is installed.
Init ==
    /\ activity = "main" /\ asked = FALSE
    /\ checks = 0 /\ file = {}
    /\ network \in BOOLEAN
    /\ upload = "idle" /\ taken = FALSE /\ server = {} /\ doubtful = {}
    /\ message = "none"

-----------------------------------------------------------------------------

NetworkChange ==
    /\ network' = ~network
    /\ UNCHANGED <<activity, asked, checks, file, upload, taken, server, doubtful, message>>

\* Removed, if it exists; an error in that goes unnoticed.
removeResultFile == file' = {}

\* Variants: the file is not removed; the activity can be left while it is sent.
LeaveMainSending(next) ==
    /\ activity = "main"
    /\ activity' = next
    /\ asked' = (next = "check")
    /\ removeResultFile
    /\ message' = "none"
    /\ UNCHANGED <<checks, network, upload, taken, server, doubtful>>

LeaveMainKeeps(next) ==
    /\ activity = "main" /\ upload = "idle"
    /\ activity' = next
    /\ asked' = (next = "check")
    /\ message' = "none"
    /\ UNCHANGED <<checks, file, network, upload, taken, server, doubtful>>

\* A button of MainActivity, or the user goes elsewhere: onPause removes the file.
LeaveMain(next) ==
    /\ activity = "main" /\ upload = "idle"
    /\ activity' = next
    /\ asked' = (next = "check")
    /\ removeResultFile
    /\ message' = "none"
    /\ UNCHANGED <<checks, network, upload, taken, server, doubtful>>

\* The button of the dialog: the check is made and its report appended. The file may not
\* open, or the disk be full before the report is complete.
Report ==
    /\ activity = "check" /\ asked /\ checks < MaxChecks
    /\ asked' = FALSE
    /\ checks' = checks + 1
    /\ \/ \E whole \in BOOLEAN : file' = file \cup {[check |-> checks', whole |-> whole]}
       \/ UNCHANGED file
    /\ UNCHANGED <<activity, network, upload, taken, server, doubtful, message>>

\* The process dies: by onPause of the check, or at any time. The system comes back to
\* MainActivity in a new one.
ProcessDeath ==
    /\ activity' = "main" /\ asked' = FALSE
    /\ upload' = "idle" /\ taken' = FALSE /\ message' = "none"
    /\ doubtful' = IF taken THEN doubtful \cup file ELSE doubtful
    /\ UNCHANGED <<checks, file, network, server>>

\* Another activity is left without the process dying.
BackToMain ==
    /\ activity = "other"
    /\ activity' = "main"
    /\ UNCHANGED <<asked, checks, file, network, upload, taken, server, doubtful, message>>

-----------------------------------------------------------------------------
(* upLoadResult. *)

\* isWifiConnected or isNetworkConnected: one of the two kinds of connection is available.
Connected == network

UpLoadResult ==
    /\ activity = "main" /\ upload = "idle"
    /\ IF Connected THEN upload' = "send" /\ message' = "none"
                  ELSE message' = "failed" /\ UNCHANGED upload
    /\ UNCHANGED <<activity, asked, checks, file, network, taken, server, doubtful>>

\* client.execute sends the file, if there is one and there still is a network; the
\* server takes it or refuses it.
Send ==
    /\ upload = "send" /\ Connected /\ file # {}
    /\ upload' = "answer"
    /\ taken' \in BOOLEAN
    /\ server' = IF taken' THEN server \cup file ELSE server
    /\ UNCHANGED <<activity, asked, checks, file, network, doubtful, message>>

\* Variant: the file is kept for another attempt.
SendErrorKeeps ==
    /\ upload # "idle"
    /\ upload' = "idle" /\ taken' = FALSE
    /\ message' = "failed"
    /\ UNCHANGED <<activity, asked, checks, file, network, server, doubtful>>

\* An IOException, while sending or waiting, and for want of a file: the file is removed.
SendError ==
    /\ upload # "idle"
    /\ upload' = "idle" /\ taken' = FALSE
    /\ file' = {}
    /\ message' = "failed"
    /\ UNCHANGED <<activity, asked, checks, network, server, doubtful>>

\* HttpStatus.SC_OK removes the file; any other status, and an answer that is no HTTP,
\* keeps it and is reported to the caller like the first. None of them says whether the
\* server took the report.
Answer ==
    /\ upload = "answer"
    /\ upload' = "idle" /\ taken' = FALSE
    /\ \/ file' = {} /\ UNCHANGED doubtful
       \/ /\ doubtful' = IF taken THEN doubtful \cup file ELSE doubtful
          /\ UNCHANGED file
    /\ message' = "uploaded"
    /\ UNCHANGED <<activity, asked, checks, network, server>>

Next ==
    \/ NetworkChange
    \/ \E next \in {"check", "other"} : LeaveMain(next)
    \/ Report \/ ProcessDeath \/ BackToMain
    \/ UpLoadResult \/ Send \/ SendError \/ Answer

Spec == Init /\ [][Next]_vars

-----------------------------------------------------------------------------
(* What makes the handling of the file correct. *)

\* Reports are appended, and the file is removed so that they do not mix: the file never
\* holds a report of any check but the last, however the activities follow one another,
\* the process dies and sending fails.
OnlyLatest == \A r \in file : r.check = checks

\* A report the server took is not sent to it a second time, although its answer may be
\* lost and the user told that sending failed: only an answer other than SC_OK, or the
\* death of the process between request and answer, makes that possible.
TakenOnce == upload = "send" => file \cap server \subseteq doubtful

\* The application implements ReportDelivery. A report the server took no longer waits to
\* be delivered, although its file is still there until the answer comes. If that does not
\* remove it, or the process dies first, the report is back.
Delivery == INSTANCE ReportDelivery WITH
    made      <- checks,
    pending   <- IF taken THEN {} ELSE file,
    delivered <- server,
    doubtful  <- doubtful

ImplementsDelivery == Delivery!Spec
=============================================================================
