----------------------------- MODULE TerminalRelay -----------------------------
(***************************************************************************)
(* One terminal session (api.py, docker_runtime.py, terminal.js): a web    *)
(* socket, the socket of a Docker exec, and two relay tasks on the event   *)
(* loop, of which the first to end takes the other with it.                *)
(*                                                                         *)
(* A step goes from one await to the next.  Docker calls of the handler    *)
(* and of resize are made on the loop's thread, so nothing else runs       *)
(* meanwhile.  Where the exec's socket is not a plain one, reads and       *)
(* writes are calls in threads of a pool that nothing can cancel, but that *)
(* time out: a relay that is cancelled leaves its call behind.             *)
(***************************************************************************)
EXTENDS Naturals, Sequences

CONSTANTS
  MaxInput,   \* bound: messages of the client
  MaxOutput,  \* bound: chunks of output of the exec
  Room        \* bytes messages the exec's side holds while nothing reads them

ASSUME SizeAssumption == MaxInput \in Nat /\ MaxOutput \in Nat /\ Room \in Nat

VARIABLES
  client,    \* "new", "open" or "left"
  inbox,     \* messages of the client that the server has not taken
  ws,        \* the server's side of the web socket
  pc,        \* next step of the handler
  reader,    \* _relay_terminal_output
  writer,    \* _relay_terminal_input
  raw,       \* whether the exec's socket is a plain one
  threads,   \* relays with a call in a thread
  socket,    \* the server's side of the exec's socket
  exec,      \* "none", "runs" or "ended"
  typed,     \* bytes messages the client has sent
  fed,       \* of these, given to the exec's socket
  held,      \* of these, not yet read by the exec
  produced,  \* chunks of output of the exec
  got,       \* of these, taken by the reader
  shown,     \* of these, sent to the client
  reset      \* whether reading the exec's socket failed

exchange == <<typed, fed, held, produced, got, shown>>
vars == <<client, inbox, ws, pc, reader, writer, raw, threads, socket, exec,
          exchange, reset>>

\* What a client sends: keys, a size, a size Docker is not asked for or text
\* that is no request, and JSON that is not an object.
Message  == {"bytes", "resize", "bad", "list"}
PC       == {"new", "require", "create", "refuse", "wait", "close", "done"}
Finished == {"ended", "raised", "cancelled"}
Reader   == {"none", "recv", "send"} \cup Finished
Writer   == {"none", "receive", "feed", "answer"} \cup Finished

Init ==
  /\ client = "new" /\ inbox = <<>>
  /\ ws = "none" /\ pc = "new"
  /\ reader = "none" /\ writer = "none"
  /\ raw \in BOOLEAN /\ threads = {}
  /\ socket = "none" /\ exec = "none"
  /\ typed = 0 /\ fed = 0 /\ held = 0 /\ produced = 0 /\ got = 0 /\ shown = 0
  /\ reset = FALSE

-----------------------------------------------------------------------------
(* The client, and the process that the exec runs.                         *)

Client_Connect ==
  /\ client = "new"
  /\ client' = "open"
  /\ UNCHANGED <<inbox, ws, pc, reader, writer, raw, threads, socket, exec, exchange, reset>>

Client_Send(m) ==
  /\ client = "open" /\ ws = "accepted"
  /\ Len(inbox) < MaxInput
  /\ typed < MaxInput
  /\ inbox' = Append(inbox, m)
  /\ typed' = IF m = "bytes" THEN typed + 1 ELSE typed
  /\ UNCHANGED <<client, ws, pc, reader, writer, raw, threads, socket, exec,
                 fed, held, produced, got, shown, reset>>

Client_Leave ==
  /\ client = "open"
  /\ client' = "left"
  /\ UNCHANGED <<inbox, ws, pc, reader, writer, raw, threads, socket, exec, exchange, reset>>

Exec_Write ==
  /\ exec = "runs"
  /\ produced < MaxOutput
  /\ produced' = produced + 1
  /\ UNCHANGED <<client, inbox, ws, pc, reader, writer, raw, threads, socket, exec,
                 typed, fed, held, got, shown, reset>>

Exec_Read ==
  /\ exec = "runs"
  /\ held > 0
  /\ held' = held - 1
  /\ UNCHANGED <<client, inbox, ws, pc, reader, writer, raw, threads, socket, exec,
                 typed, fed, produced, got, shown, reset>>

\* The process ends, or its container is stopped.
Exec_End ==
  /\ exec = "runs"
  /\ exec' = "ended"
  /\ UNCHANGED <<client, inbox, ws, pc, reader, writer, raw, threads, socket, exchange, reset>>

-----------------------------------------------------------------------------
(* The handler: terminal, compose_terminal and _serve_terminal.            *)

\* A send to a client that has left raises, or goes nowhere.
Handler_Accept ==
  /\ pc = "new" /\ client # "new"
  /\ \/ ws' = "closed" /\ pc' = "done"      \* a foreign origin
     \/ ws' = "accepted" /\ pc' = "require"
  /\ UNCHANGED <<client, inbox, reader, writer, raw, threads, socket, exec, exchange, reset>>

\* An error that is none of Docker's, such as a lost connection, is not caught.
Handler_Require ==
  /\ pc = "require"
  /\ \/ pc' \in {"create", "refuse"} /\ UNCHANGED ws
     \/ pc' = "done" /\ ws' = "closed"
  /\ UNCHANGED <<client, inbox, reader, writer, raw, threads, socket, exec, exchange, reset>>

Handler_Create ==
  /\ pc = "create"
  /\ \/ /\ socket' = "open" /\ exec' = "runs"
        /\ reader' = "recv" /\ writer' = "receive"
        /\ pc' = "wait"
        /\ UNCHANGED ws
     \/ /\ pc' = "refuse"
        /\ UNCHANGED <<socket, exec, reader, writer, ws>>
     \/ /\ pc' = "done" /\ ws' = "closed"   \* such an error, or shlex.split raises
        /\ UNCHANGED <<socket, exec, reader, writer>>
  /\ UNCHANGED <<client, inbox, raw, threads, exchange, reset>>

\* send_json with the error; it raises when the client has left or the server
\* shuts down.
Handler_Refuse ==
  /\ pc = "refuse"
  /\ \/ pc' = "close" /\ UNCHANGED ws
     \/ pc' = "done" /\ ws' = "closed"
  /\ UNCHANGED <<client, inbox, reader, writer, raw, threads, socket, exec, exchange, reset>>

\* Mutant: the relay that still runs is not cancelled.
Mut_NoCancel(task) == task

\* task.cancel() and gather.
Cancelled(task) == IF task \in Finished THEN task ELSE "cancelled"

\* Mutant: nothing is closed for a client that has left.
Mut_CloseForClient(s) == IF client = "left" THEN s ELSE "closed"

close_terminal(s) == "closed"

\* A relay has ended, or the server shuts down and cancels the handler; what
\* a cancelled reader was sending may have gone out.
Handler_Finally ==
  /\ pc = "wait"
  /\ socket' = close_terminal(socket)
  /\ reader' = Cancelled(reader) /\ writer' = Cancelled(writer)
  /\ pc' = "close"
  /\ shown' \in IF reader = "send" /\ client = "open" THEN {shown, got} ELSE {shown}
  /\ UNCHANGED <<client, inbox, ws, raw, threads, exec, typed, fed, held, produced, got, reset>>

\* Mutant: asyncio.wait for both.
Mut_BothEnded == reader \in Finished /\ writer \in Finished

RelayEnded == reader \in Finished \/ writer \in Finished

Handler_RelayEnded == RelayEnded /\ Handler_Finally
Server_Shutdown    == ~RelayEnded /\ Handler_Finally

Handler_Close ==
  /\ pc = "close"
  /\ ws' = "closed"
  /\ pc' = "done"
  /\ UNCHANGED <<client, inbox, reader, writer, raw, threads, socket, exec, exchange, reset>>

-----------------------------------------------------------------------------
(* _relay_terminal_output                                                  *)

ReaderFrame == UNCHANGED <<client, inbox, ws, pc, writer, raw, socket, exec, typed, fed, held, produced>>

\* Mutant: whether the process runs is looked at before its output.
Mut_AtEnd == exec = "ended"

AtEnd == exec = "ended" /\ got = produced

Reader_Recv ==
  /\ reader = "recv"
  /\ \/ raw \/ "reader" \in threads
  /\ threads' = threads \ {"reader"}
  /\ \/ got < produced /\ got' = got + 1 /\ reader' = "send" /\ UNCHANGED reset
     \/ AtEnd /\ reader' = "ended" /\ UNCHANGED <<got, reset>>
     \/ exec = "ended" /\ reader' = "ended" /\ reset' = TRUE /\ UNCHANGED got
  /\ UNCHANGED shown
  /\ ReaderFrame

\* asyncio.to_thread; a read that times out begins anew.
Reader_Thread ==
  /\ reader = "recv" /\ ~raw /\ "reader" \notin threads
  /\ threads' = threads \cup {"reader"}
  /\ UNCHANGED <<reader, got, shown, reset>>
  /\ ReaderFrame

Reader_Send ==
  /\ reader = "send"
  /\ \/ client = "open" /\ shown' = got /\ reader' = "recv"
     \/ client = "left" /\ reader' \in {"recv", "raised"} /\ UNCHANGED shown
  /\ UNCHANGED <<threads, got, reset>>
  /\ ReaderFrame

-----------------------------------------------------------------------------
(* _relay_terminal_input                                                   *)

WriterFrame == UNCHANGED <<client, ws, pc, reader, raw, socket, exec, typed, produced, got, shown, reset>>

\* A resize may fail, above all when the exec has just ended; JSON that is no
\* object has no "get".
Handle(m) ==
  CASE m = "bytes"  -> {"feed"}
    [] m = "resize" -> {"receive", "raised"}
    [] m = "bad"    -> {"answer"}
    [] m = "list"   -> {"raised"}

Writer_Receive ==
  /\ writer = "receive"
  /\ inbox # <<>>
  /\ inbox' = Tail(inbox)
  /\ writer' \in Handle(Head(inbox))
  /\ UNCHANGED <<threads, fed, held>>
  /\ WriterFrame

Writer_Disconnect ==
  /\ writer = "receive"
  /\ inbox = <<>> /\ client = "left"
  /\ writer' = "ended"
  /\ UNCHANGED <<inbox, threads, fed, held>>
  /\ WriterFrame

Writer_Thread ==
  /\ writer = "feed" /\ ~raw /\ "writer" \notin threads
  /\ threads' = threads \cup {"writer"}
  /\ UNCHANGED <<inbox, writer, fed, held>>
  /\ WriterFrame

\* sock_sendall, or _socket_send in a thread, which times out.
Writer_Feed ==
  /\ writer = "feed"
  /\ \/ raw \/ "writer" \in threads
  /\ threads' = threads \ {"writer"}
  /\ \/ exec = "runs" /\ held < Room /\ held' = held + 1 /\ fed' = fed + 1 /\ writer' = "receive"
     \/ exec = "ended" /\ writer' \in {"receive", "raised"} /\ UNCHANGED <<fed, held>>
     \/ exec = "runs" /\ ~raw /\ held = Room /\ writer' = "raised" /\ UNCHANGED <<fed, held>>
  /\ UNCHANGED inbox
  /\ WriterFrame

Writer_Answer ==
  /\ writer = "answer"
  /\ \/ writer' = "receive"
     \/ client = "left" /\ writer' = "raised"
  /\ UNCHANGED <<inbox, threads, fed, held>>
  /\ WriterFrame

-----------------------------------------------------------------------------
\* A thread whose relay was cancelled comes back.  What it has read is dropped;
\* what it was sending may be lost, or reach the process after all.
Thread_Return(r) ==
  /\ r \in threads
  /\ (IF r = "reader" THEN reader ELSE writer) = "cancelled"
  /\ threads' = threads \ {r}
  /\ \/ UNCHANGED <<fed, held>>
     \/ /\ r = "writer" /\ exec = "runs" /\ held < Room
        /\ fed' = fed + 1 /\ held' = held + 1
  /\ UNCHANGED <<client, inbox, ws, pc, reader, writer, raw, socket, exec, typed,
                 produced, got, shown, reset>>

Handler ==
  \/ Handler_Accept \/ Handler_Require \/ Handler_Create \/ Handler_Refuse
  \/ Handler_RelayEnded \/ Handler_Close

ReaderTask == Reader_Recv \/ Reader_Thread \/ Reader_Send

WriterTask ==
  \/ Writer_Receive \/ Writer_Disconnect \/ Writer_Thread \/ Writer_Feed \/ Writer_Answer

Others ==
  \/ Client_Connect \/ Client_Leave \/ \E m \in Message : Client_Send(m)
  \/ Exec_Write \/ Exec_Read \/ Exec_End \/ Server_Shutdown

Next ==
  \/ Handler \/ ReaderTask \/ WriterTask
  \/ \E r \in {"reader", "writer"} : Thread_Return(r)
  \/ Others

\* The loop goes on with whatever can, and calls in threads time out.
Spec ==
  /\ Init /\ [][Next]_vars
  /\ WF_vars(Handler) /\ WF_vars(ReaderTask) /\ WF_vars(WriterTask)
  /\ \A r \in {"reader", "writer"} : WF_vars(Thread_Return(r))

-----------------------------------------------------------------------------
(* Properties *)

TypeOK ==
  /\ client \in {"new", "open", "left"}
  /\ inbox \in Seq(Message) /\ Len(inbox) <= MaxInput
  /\ ws \in {"none", "accepted", "closed"}
  /\ pc \in PC /\ reader \in Reader /\ writer \in Writer
  /\ raw \in BOOLEAN /\ threads \subseteq {"reader", "writer"}
  /\ socket \in {"none", "open", "closed"}
  /\ exec \in {"none", "runs", "ended"}
  /\ typed \in 0..MaxInput /\ fed \in Nat /\ held \in 0..Room
  /\ produced \in 0..MaxOutput /\ got \in 0..produced /\ shown \in 0..got
  /\ reset \in BOOLEAN

\* When the handler is over, however it ended, the exec's socket is not open,
\* neither relay runs, and the web socket is closed.
NothingLeftOpen ==
  pc = "done" =>
    /\ socket # "open" /\ ws = "closed"
    /\ reader \in Finished \cup {"none"} /\ writer \in Finished \cup {"none"}

\* Output that was under way when the process ended still reaches the client:
\* when it was the end of the output that ended the session, all of it was sent.
OutputIsWhole ==
  reader = "ended" /\ ~reset /\ client = "open" => shown = produced

\* What a client typed before it left still reaches the process: when it was
\* the client's leaving that ended the session, all of it was passed on.
InputIsWhole ==
  writer = "ended" /\ exec = "runs" => fed = typed

\* A session that is over has lost output for a client that is still there only
\* if reading failed, the writer raised or the server shut down; and input for
\* a process that still runs only if a relay raised or the server shut down.
LossHasACause ==
  pc = "done" /\ ~(reader = "cancelled" /\ writer = "cancelled") =>
    /\ client = "open" /\ exec = "ended" /\ shown # produced => reset \/ writer = "raised"
    /\ exec = "runs" /\ fed # typed => writer = "raised" \/ reader = "raised"

\* A relay that comes to the end of its side has passed on everything from
\* there.  The relay that ends first takes the other with it, and what that one
\* has not passed on by then is lost: LossHasACause says when that can be.
RelayIsWhole == OutputIsWhole /\ InputIsWhole /\ LossHasACause

\* After the exec's socket is closed no relay takes a message, reads from the
\* process or sends to the client, and none begins a call in a thread: only a
\* message whose call was already under way may still reach the process.
QuietAfterClose ==
  [][socket = "closed" =>
       /\ UNCHANGED <<got, shown>> /\ Len(inbox') >= Len(inbox)
       /\ threads' \subseteq threads
       /\ fed' # fed =>
            /\ writer = "cancelled" /\ "writer" \in threads \ threads'
            /\ fed' = fed + 1]_vars

\* The process reads nothing, its side is full, and the writer waits on a plain
\* socket: it cannot see that the client leaves.
Stuck == writer = "feed" /\ raw /\ held = Room /\ exec = "runs"

\* When the client leaves or the process ends, the session is taken apart,
\* the exec's socket closed and every thread given back: unless the writer
\* waits for a process that reads nothing.
SessionEnds ==
  client = "left" \/ exec = "ended" ~> (pc = "done" /\ threads = {}) \/ Stuck
=============================================================================
