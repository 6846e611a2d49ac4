------------------------- MODULE TerminalRelayProofs -------------------------
(* Theorems about TerminalRelay, for every number of messages, of chunks of  *)
(* output and of messages the exec's side holds.                             *)
EXTENDS TerminalRelay, FiniteSets, SequenceTheorems, FunctionTheorems,
        FiniteSetTheorems, TLAPS

AtRest(task) == task \in Finished \cup {"none"}

\* What each step of the handler may count on: before the exec is made there
\* is nothing to close, and after the finally clause nothing is left to end.
Stages ==
  /\ pc \in {"new", "require", "create", "refuse"} =>
       socket = "none" /\ reader = "none" /\ writer = "none"
  /\ pc = "wait" => socket = "open"
  /\ pc \in {"close", "done"} => socket # "open" /\ AtRest(reader) /\ AtRest(writer)
  /\ pc = "done" => ws = "closed"

\* The bytes messages among those the server has not taken.
Keys(s)    == {i \in 1..Len(s) : s[i] = "bytes"}
Waiting(s) == Cardinality(Keys(s))

\* Where every chunk of output is: shown to a client that is there, but for
\* the one that the reader is sending.
OutputAccounted ==
  /\ reader \in {"none", "recv"} /\ client # "left" => shown = got
  /\ reader = "ended" /\ ~reset =>
       exec = "ended" /\ got = produced /\ (client # "left" => shown = got)

\* Where every bytes message is: given to the process, in the writer's hand,
\* or waiting.  Once the process has ended some are lost.
InputAccounted ==
  /\ pc \in {"new", "require", "create", "refuse"} => exec = "none"
  /\ exec # "ended" =>
       /\ writer \in {"none", "receive", "answer"} => typed = fed + Waiting(inbox)
       /\ writer = "feed" => typed = fed + Waiting(inbox) + 1
       /\ writer = "ended" => client = "left" /\ typed = fed

\* Why a relay has ended: it came to the end of its side, or the client left.
Causes ==
  /\ reader = "none" \/ writer = "none" => exec = "none"
  /\ reader = "raised" \/ writer = "ended" => client = "left"
  /\ reader = "ended" => exec = "ended"

IInv == TypeOK /\ Stages

-----------------------------------------------------------------------------
(* Counting the bytes messages of a channel.                               *)

LEMMA KeysFinite ==
  ASSUME NEW s \in Seq(Message)
  PROVE  IsFiniteSet(Keys(s)) /\ Waiting(s) \in Nat
<1>1. Len(s) \in Nat
  BY LenProperties
<1>2. IsFiniteSet(1..Len(s))
  BY <1>1, FS_Interval
<1>3. Keys(s) \in SUBSET (1..Len(s))
  BY DEF Keys
<1>4. IsFiniteSet(Keys(s))
  BY <1>2, <1>3, FS_Subset
<1> QED
  BY <1>4, FS_CardinalityType DEF Waiting

LEMMA NothingWaits == Waiting(<<>>) = 0
<1>1. Len(<<>>) = 0
  BY EmptySeq
<1>2. Keys(<<>>) = {}
  BY <1>1 DEF Keys
<1> QED
  BY <1>2, FS_EmptySet DEF Waiting

LEMMA SentWaits ==
  ASSUME NEW s \in Seq(Message), NEW m \in Message
  PROVE  Waiting(Append(s, m)) = IF m = "bytes" THEN Waiting(s) + 1 ELSE Waiting(s)
<1> DEFINE n == Len(s) + 1
<1>1. /\ Len(s) \in Nat /\ Len(Append(s, m)) = n /\ Append(s, m)[n] = m
      /\ \A i \in 1..Len(s) : Append(s, m)[i] = s[i]
  BY AppendProperties, LenProperties
<1>2. n \notin Keys(s) /\ IsFiniteSet(Keys(s))
  <2>1. Keys(s) \subseteq 1..Len(s)
    BY DEF Keys
  <2>2. n \notin 1..Len(s)
    BY <1>1
  <2> QED
    BY <2>1, <2>2, KeysFinite
<1>3. Keys(Append(s, m)) = IF m = "bytes" THEN Keys(s) \cup {n} ELSE Keys(s)
  BY <1>1 DEF Keys
<1>4. Cardinality(Keys(s) \cup {n}) = Cardinality(Keys(s)) + 1
  BY <1>2, FS_AddElement
<1> QED
  BY <1>3, <1>4 DEF Waiting

LEMMA TakenWaitsNoMore ==
  ASSUME NEW s \in Seq(Message), s # <<>>
  PROVE  Waiting(s) = IF Head(s) = "bytes" THEN Waiting(Tail(s)) + 1 ELSE Waiting(Tail(s))
<1> DEFINE t == Tail(s)
           shift == [i \in Keys(t) |-> i + 1]
<1>1. /\ t \in Seq(Message) /\ Len(s) \in Nat /\ Len(s) >= 1 /\ Len(t) = Len(s) - 1
      /\ \A i \in 1..Len(t) : t[i] = s[i + 1]
  BY HeadTailProperties, LenProperties, EmptySeq
<1>2. Head(s) = s[1]
  BY <1>1
<1>3. IsFiniteSet(Keys(t)) /\ IsFiniteSet(Keys(s)) /\ Waiting(s) \in Nat /\ Waiting(t) \in Nat
  BY <1>1, KeysFinite
<1>4. shift \in [Keys(t) -> Keys(s) \ {1}]
  BY <1>1 DEF Keys
<1>5. \A i, j \in Keys(t) : shift[i] = shift[j] => i = j
  BY <1>1 DEF Keys
<1>6. \A k \in Keys(s) \ {1} : k - 1 \in Keys(t) /\ shift[k - 1] = k
  BY <1>1 DEF Keys
<1>7. shift \in Bijection(Keys(t), Keys(s) \ {1})
  BY <1>4, <1>5, <1>6, Fun_IsBij
<1>8. Cardinality(Keys(s) \ {1}) = Cardinality(Keys(t))
  BY <1>3, <1>7, FS_Bijection DEF ExistsBijection
<1>9. Cardinality(Keys(s) \ {1}) =
        IF 1 \in Keys(s) THEN Cardinality(Keys(s)) - 1 ELSE Cardinality(Keys(s))
  BY <1>3, FS_RemoveElement
<1>10. 1 \in Keys(s) <=> Head(s) = "bytes"
  BY <1>1, <1>2 DEF Keys
<1> QED
  BY <1>3, <1>8, <1>9, <1>10 DEF Waiting

-----------------------------------------------------------------------------
LEMMA InitOK == Init => IInv
<1>1. <<>> \in Seq(Message) /\ Len(<<>>) = 0
  BY EmptySeq
<1>2. 0 \in 0..MaxInput /\ 0 \in 0..MaxOutput /\ 0 \in 0..Room /\ 0 \in 0..0 /\ 0 <= MaxInput
  BY SizeAssumption
<1>3. Init => TypeOK
  <2> SUFFICES ASSUME Init PROVE TypeOK
    OBVIOUS
  <2>1. inbox \in Seq(Message) /\ Len(inbox) <= MaxInput
    BY <1>1, <1>2 DEF Init
  <2>2. /\ typed \in 0..MaxInput /\ fed \in Nat /\ held \in 0..Room
        /\ produced \in 0..MaxOutput /\ got \in 0..produced /\ shown \in 0..got
    BY <1>2 DEF Init
  <2>3. /\ raw \in BOOLEAN /\ reset \in BOOLEAN
        /\ client \in {"new", "open", "left"} /\ ws \in {"none", "accepted", "closed"}
        /\ socket \in {"none", "open", "closed"} /\ exec \in {"none", "runs", "ended"}
        /\ threads \subseteq {"reader", "writer"}
    BY Zenon DEF Init
  <2>4. pc \in PC /\ reader \in Reader /\ writer \in Writer
    BY DEF Init, PC, Reader, Writer
  <2> QED
    BY <2>1, <2>2, <2>3, <2>4 DEF TypeOK
<1>4. Init => Stages
  BY DEF Init, Stages, AtRest
<1> QED
  BY <1>3, <1>4 DEF IInv

LEMMA NextOK == IInv /\ [Next]_vars => IInv'
<1> SUFFICES ASSUME IInv, [Next]_vars PROVE IInv'
  OBVIOUS
<1> USE SizeAssumption DEF IInv, TypeOK, Stages, AtRest, PC, Reader, Writer, Finished, exchange
<1>1. CASE Client_Connect
  BY <1>1 DEF Client_Connect
<1>2. CASE Client_Leave
  BY <1>2 DEF Client_Leave
<1>3. ASSUME NEW m \in Message, Client_Send(m) PROVE IInv'
  <2>1. inbox' \in Seq(Message) /\ Len(inbox') = Len(inbox) + 1
    BY <1>3, AppendProperties DEF Client_Send
  <2> QED
    BY <1>3, <2>1, LenProperties DEF Client_Send
<1>4. CASE Exec_Write
  BY <1>4 DEF Exec_Write
<1>5. CASE Exec_Read
  BY <1>5 DEF Exec_Read
<1>6. CASE Exec_End
  BY <1>6 DEF Exec_End
<1>7. CASE Handler_Accept
  BY <1>7 DEF Handler_Accept
<1>8. CASE Handler_Require
  BY <1>8 DEF Handler_Require
<1>9. CASE Handler_Create
  BY <1>9 DEF Handler_Create
<1>10. CASE Handler_Refuse
  BY <1>10 DEF Handler_Refuse
<1>11. CASE Handler_Finally
  <2>1. /\ reader' \in Finished /\ writer' \in Finished
        /\ shown' \in {shown, got}
    BY <1>11 DEF Handler_Finally, Cancelled
  <2> QED
    BY <1>11, <2>1 DEF Handler_Finally, close_terminal
<1>12. CASE Handler_Close
  BY <1>12 DEF Handler_Close
<1>13. CASE Reader_Recv
  <2>1. got' \in got..produced /\ got' \in Nat
    BY <1>13 DEF Reader_Recv, ReaderFrame
  <2>2. reader' \in {"send", "ended"} /\ reset' \in BOOLEAN /\ pc = "wait"
    BY <1>13 DEF Reader_Recv
  <2>3. UNCHANGED <<client, inbox, ws, pc, writer, raw, socket, exec, typed, fed, held, produced, shown>>
    BY <1>13 DEF Reader_Recv, ReaderFrame
  <2>4. threads' \subseteq {"reader", "writer"}
    BY <1>13 DEF Reader_Recv
  <2> QED
    BY <2>1, <2>2, <2>3, <2>4
<1>14. CASE Reader_Thread
  BY <1>14 DEF Reader_Thread, ReaderFrame
<1>15. CASE Reader_Send
  BY <1>15 DEF Reader_Send, ReaderFrame
<1>16. CASE Writer_Receive
  <2>1. inbox' \in Seq(Message) /\ Len(inbox') = Len(inbox) - 1
    BY <1>16, HeadTailProperties DEF Writer_Receive
  <2>2. Head(inbox) \in Message
    BY <1>16, HeadTailProperties DEF Writer_Receive
  <2>3. writer' \in {"feed", "receive", "answer", "raised"}
    BY <1>16, <2>2 DEF Writer_Receive, Handle, Message
  <2> QED
    BY <1>16, <2>1, <2>3, LenProperties DEF Writer_Receive, WriterFrame
<1>17. CASE Writer_Disconnect
  BY <1>17 DEF Writer_Disconnect, WriterFrame
<1>18. CASE Writer_Thread
  BY <1>18 DEF Writer_Thread, WriterFrame
<1>19. CASE Writer_Feed
  BY <1>19 DEF Writer_Feed, WriterFrame
<1>20. CASE Writer_Answer
  BY <1>20 DEF Writer_Answer, WriterFrame
<1>21. ASSUME NEW r \in {"reader", "writer"}, Thread_Return(r) PROVE IInv'
  BY <1>21 DEF Thread_Return
<1>22. CASE UNCHANGED vars
  BY <1>22 DEF vars
<1> QED
  BY <1>1, <1>2, <1>3, <1>4, <1>5, <1>6, <1>7, <1>8, <1>9, <1>10, <1>11, <1>12, <1>13,
     <1>14, <1>15, <1>16, <1>17, <1>18, <1>19, <1>20, <1>21, <1>22
  DEF Next, Handler, Handler_RelayEnded, Server_Shutdown, ReaderTask, WriterTask, Others

\* Every step of the session keeps what the steps of the handler count on,
\* however relays, threads, client and process run beside it.
THEOREM InductiveInvariant == Spec => []IInv
  BY InitOK, NextOK, PTL DEF Spec

-----------------------------------------------------------------------------
\* Every variable keeps its type; above all no chunk is sent to the client
\* that was not read, and none is read that the process did not write.
THEOREM TypeCorrect == Spec => []TypeOK
<1>1. IInv => TypeOK
  BY DEF IInv
<1> QED
  BY <1>1, InductiveInvariant, PTL

\* When the handler is over, both relays have ended and both sockets are
\* closed, whichever end went first and whatever raised.
THEOREM NothingLeftOpenHolds == Spec => []NothingLeftOpen
<1>1. IInv => NothingLeftOpen
  BY DEF IInv, Stages, AtRest, NothingLeftOpen
<1> QED
  BY <1>1, InductiveInvariant, PTL

\* From the moment the exec's socket is closed no relay takes a message, reads
\* from the process or sends to the client, and none begins a call in a thread;
\* the process gets at most the message whose call a cancelled writer left behind.
THEOREM QuietAfterCloseHolds == Spec => QuietAfterClose
<1> DEFINE Late == /\ writer = "cancelled" /\ "writer" \in threads \ threads'
                   /\ fed' = fed + 1
           Quiet == /\ UNCHANGED <<got, shown>> /\ Len(inbox') >= Len(inbox)
                    /\ threads' \subseteq threads
                    /\ fed' # fed => Late
<1>1. IInv /\ [Next]_vars => [socket = "closed" => Quiet]_vars
  <2> SUFFICES ASSUME IInv, Next, socket = "closed" PROVE Quiet
    OBVIOUS
  <2>0. pc \in {"close", "done"} /\ AtRest(reader) /\ AtRest(writer)
    BY DEF IInv, TypeOK, Stages, PC
  <2>a. ~Handler_Finally /\ ~ReaderTask /\ ~WriterTask
    BY <2>0 DEF AtRest, Finished, Handler_Finally, ReaderTask, Reader_Recv, Reader_Thread,
                Reader_Send, WriterTask, Writer_Receive, Writer_Disconnect, Writer_Thread,
                Writer_Feed, Writer_Answer
  <2>b. inbox \in Seq(Message) /\ Len(inbox) \in Nat
    BY LenProperties DEF IInv, TypeOK
  <2>1. ASSUME NEW m \in Message, Client_Send(m) PROVE Quiet
    <3>1. Len(inbox') = Len(inbox) + 1
      BY <2>1, <2>b, AppendProperties DEF Client_Send
    <3>2. UNCHANGED <<fed, got, shown, threads>>
      BY <2>1 DEF Client_Send
    <3> QED
      BY <2>b, <3>1, <3>2
  <2>2. ASSUME NEW t \in {"reader", "writer"}, Thread_Return(t) PROVE Quiet
    <3>1. UNCHANGED <<inbox, got, shown>> /\ threads' = threads \ {t} /\ t \in threads
      BY <2>2 DEF Thread_Return
    <3>2. fed' # fed => t = "writer" /\ writer = "cancelled" /\ fed' = fed + 1
      BY <2>2 DEF Thread_Return
    <3> QED
      BY <2>b, <3>1, <3>2
  <2>3. ASSUME \A m \in Message : ~Client_Send(m),
               \A t \in {"reader", "writer"} : ~Thread_Return(t)
        PROVE  UNCHANGED <<inbox, fed, got, shown, threads>>
    BY <2>a, <2>3 DEF Next, Handler, Others, Handler_RelayEnded, Server_Shutdown, Client_Connect,
       Client_Leave, Exec_Write, Exec_Read, Exec_End, Handler_Accept, Handler_Require,
       Handler_Create, Handler_Refuse, Handler_Close, exchange
  <2>4. UNCHANGED <<inbox, fed, got, shown, threads>> => Quiet
    BY <2>b
  <2> QED
    BY <2>1, <2>2, <2>3, <2>4
<1> QED
  BY <1>1, InductiveInvariant, PTL DEF Spec, QuietAfterClose

-----------------------------------------------------------------------------
(* What was sent, and what of it is lost.                                  *)

LEMMA OutputStep == IInv /\ OutputAccounted /\ [Next]_vars => OutputAccounted'
<1> SUFFICES ASSUME IInv, OutputAccounted, [Next]_vars PROVE OutputAccounted'
  OBVIOUS
<1> USE DEF OutputAccounted, exchange
<1>1. CASE Client_Connect
  BY <1>1 DEF Client_Connect
<1>2. CASE Client_Leave
  BY <1>2 DEF Client_Leave
<1>3. ASSUME NEW m \in Message, Client_Send(m) PROVE OutputAccounted'
  BY <1>3 DEF Client_Send
<1>4. CASE Exec_Write
  BY <1>4 DEF Exec_Write
<1>5. CASE Exec_Read
  BY <1>5 DEF Exec_Read
<1>6. CASE Exec_End
  BY <1>6 DEF Exec_End
<1>7. CASE Handler_Accept
  BY <1>7 DEF Handler_Accept
<1>8. CASE Handler_Require
  BY <1>8 DEF Handler_Require
<1>9. CASE Handler_Create
  BY <1>9 DEF Handler_Create, IInv, Stages
<1>10. CASE Handler_Refuse
  BY <1>10 DEF Handler_Refuse
<1>11. CASE Handler_Finally
  BY <1>11 DEF Handler_Finally, Cancelled, Finished
<1>12. CASE Handler_Close
  BY <1>12 DEF Handler_Close
<1>13. CASE Reader_Recv
  BY <1>13 DEF Reader_Recv, ReaderFrame, AtEnd
<1>14. CASE Reader_Thread
  BY <1>14 DEF Reader_Thread, ReaderFrame
<1>15. CASE Reader_Send
  BY <1>15 DEF Reader_Send, ReaderFrame
<1>16. CASE WriterTask
  BY <1>16 DEF WriterTask, Writer_Receive, Writer_Disconnect, Writer_Thread, Writer_Feed,
               Writer_Answer, WriterFrame
<1>17. ASSUME NEW r \in {"reader", "writer"}, Thread_Return(r) PROVE OutputAccounted'
  BY <1>17 DEF Thread_Return
<1>18. CASE UNCHANGED vars
  BY <1>18 DEF vars
<1> QED
  BY <1>1, <1>2, <1>3, <1>4, <1>5, <1>6, <1>7, <1>8, <1>9, <1>10, <1>11, <1>12, <1>13,
     <1>14, <1>15, <1>16, <1>17, <1>18
  DEF Next, Handler, Handler_RelayEnded, Server_Shutdown, ReaderTask, Others

LEMMA InputStep == IInv /\ InputAccounted /\ [Next]_vars => InputAccounted'
<1> SUFFICES ASSUME IInv, InputAccounted, [Next]_vars PROVE InputAccounted'
  OBVIOUS
<1>0. /\ inbox \in Seq(Message) /\ Waiting(inbox) \in Nat /\ typed \in Nat /\ fed \in Nat
      /\ writer \in Writer /\ pc \in PC
  BY SizeAssumption, KeysFinite DEF IInv, TypeOK
<1> USE DEF InputAccounted, exchange
<1>1. CASE Client_Connect
  BY <1>1 DEF Client_Connect
<1>2. CASE Client_Leave
  BY <1>2 DEF Client_Leave
<1>3. ASSUME NEW m \in Message, Client_Send(m) PROVE InputAccounted'
  <2>1. Waiting(inbox') = IF m = "bytes" THEN Waiting(inbox) + 1 ELSE Waiting(inbox)
    BY <1>0, <1>3, SentWaits DEF Client_Send
  <2>2. writer # "ended" \/ exec = "ended"
    BY <1>3 DEF Client_Send
  <2> QED
    BY <1>0, <1>3, <2>1, <2>2 DEF Client_Send
<1>4. CASE Exec_Write
  BY <1>4 DEF Exec_Write
<1>5. CASE Exec_Read
  BY <1>5 DEF Exec_Read
<1>6. CASE Exec_End
  BY <1>6 DEF Exec_End
<1>7. CASE Handler_Accept
  BY <1>7 DEF Handler_Accept
<1>8. CASE Handler_Require
  BY <1>8 DEF Handler_Require
<1>9. CASE Handler_Create
  BY <1>9 DEF Handler_Create, IInv, Stages
<1>10. CASE Handler_Refuse
  BY <1>10 DEF Handler_Refuse
<1>11. CASE Handler_Finally
  BY <1>11 DEF Handler_Finally, Cancelled, Finished
<1>12. CASE Handler_Close
  BY <1>12 DEF Handler_Close
<1>13. CASE ReaderTask
  BY <1>13 DEF ReaderTask, Reader_Recv, Reader_Thread, Reader_Send, ReaderFrame
<1>14. CASE Writer_Receive
  <2>1. Head(inbox) \in Message
    BY <1>0, <1>14, HeadTailProperties DEF Writer_Receive
  <2>2. Waiting(inbox') \in Nat
    BY <1>0, <1>14, HeadTailProperties, KeysFinite DEF Writer_Receive
  <2>3. Waiting(inbox) = IF Head(inbox) = "bytes" THEN Waiting(inbox') + 1 ELSE Waiting(inbox')
    BY <1>0, <1>14, TakenWaitsNoMore DEF Writer_Receive
  <2>4. IF Head(inbox) = "bytes" THEN writer' = "feed"
        ELSE writer' \in {"receive", "raised", "answer"}
    BY <1>14, <2>1 DEF Writer_Receive, Handle, Message
  <2>5. UNCHANGED <<client, pc, exec, typed, fed>> /\ writer = "receive"
    BY <1>14 DEF Writer_Receive, WriterFrame
  <2> QED
    BY <1>0, <2>2, <2>3, <2>4, <2>5
<1>15. CASE Writer_Disconnect
  BY <1>0, <1>15, NothingWaits DEF Writer_Disconnect, WriterFrame
<1>16. CASE Writer_Thread
  BY <1>16 DEF Writer_Thread, WriterFrame
<1>17. CASE Writer_Feed
  BY <1>0, <1>17 DEF Writer_Feed, WriterFrame
<1>18. CASE Writer_Answer
  BY <1>18 DEF Writer_Answer, WriterFrame
<1>19. ASSUME NEW r \in {"reader", "writer"}, Thread_Return(r) PROVE InputAccounted'
  BY <1>19 DEF Thread_Return
<1>20. CASE UNCHANGED vars
  BY <1>20 DEF vars
<1> QED
  BY <1>1, <1>2, <1>3, <1>4, <1>5, <1>6, <1>7, <1>8, <1>9, <1>10, <1>11, <1>12, <1>13,
     <1>14, <1>15, <1>16, <1>17, <1>18, <1>19, <1>20
  DEF Next, Handler, Handler_RelayEnded, Server_Shutdown, WriterTask, Others

\* Every chunk the exec wrote, and every bytes message the client sent, has its
\* place in every state of the session until one of the ends is gone.
THEOREM Accounting == Spec => [](OutputAccounted /\ InputAccounted)
<1>1. Init => OutputAccounted /\ InputAccounted
  BY NothingWaits DEF Init, OutputAccounted, InputAccounted
<1>2. /\ IInv /\ OutputAccounted /\ InputAccounted /\ [Next]_vars
      => OutputAccounted' /\ InputAccounted'
  BY OutputStep, InputStep
<1> QED
  BY <1>1, <1>2, InductiveInvariant, PTL DEF Spec

LEMMA CausesStep == IInv /\ Causes /\ [Next]_vars => Causes'
<1> SUFFICES ASSUME IInv, Causes, [Next]_vars PROVE Causes'
  OBVIOUS
<1> USE DEF Causes, exchange
<1>1. CASE Client_Connect
  BY <1>1 DEF Client_Connect
<1>2. CASE Client_Leave
  BY <1>2 DEF Client_Leave
<1>3. ASSUME NEW m \in Message, Client_Send(m) PROVE Causes'
  BY <1>3 DEF Client_Send
<1>4. CASE Exec_Write \/ Exec_Read
  BY <1>4 DEF Exec_Write, Exec_Read
<1>5. CASE Exec_End
  BY <1>5 DEF Exec_End
<1>6. CASE Handler_Accept \/ Handler_Require \/ Handler_Refuse \/ Handler_Close
  BY <1>6 DEF Handler_Accept, Handler_Require, Handler_Refuse, Handler_Close
<1>7. CASE Handler_Create
  BY <1>7 DEF Handler_Create, IInv, Stages
<1>8. CASE Handler_Finally
  BY <1>8 DEF Handler_Finally, Cancelled, Finished
<1>9. CASE ReaderTask
  BY <1>9 DEF ReaderTask, Reader_Recv, Reader_Thread, Reader_Send, ReaderFrame, AtEnd
<1>10. CASE Writer_Receive
  <2>1. writer = "receive" /\ UNCHANGED <<client, reader, exec>>
    BY <1>10 DEF Writer_Receive, WriterFrame
  <2>2. Head(inbox) \in Message
    BY <1>10, HeadTailProperties DEF Writer_Receive, IInv, TypeOK
  <2>3. writer' \in {"feed", "receive", "answer", "raised"}
    BY <1>10, <2>2 DEF Writer_Receive, Handle, Message
  <2> QED
    BY <2>1, <2>3
<1>11. CASE Writer_Disconnect \/ Writer_Thread \/ Writer_Feed \/ Writer_Answer
  BY <1>11 DEF Writer_Disconnect, Writer_Thread, Writer_Feed, Writer_Answer, WriterFrame
<1>12. ASSUME NEW t \in {"reader", "writer"}, Thread_Return(t) PROVE Causes'
  BY <1>12 DEF Thread_Return
<1>13. CASE UNCHANGED vars
  BY <1>13 DEF vars
<1> QED
  BY <1>1, <1>2, <1>3, <1>4, <1>5, <1>6, <1>7, <1>8, <1>9, <1>10, <1>11, <1>12, <1>13
  DEF Next, Handler, Handler_RelayEnded, Server_Shutdown, WriterTask, Others

\* A relay that comes to the end of its side has passed on all that came before
\* it; and when a session is over, output is lost for a client that is still
\* there, or input for a process that still runs, only if a read failed, a relay
\* raised or the server shut down.  For any number of messages and chunks, and
\* whatever the relays and their threads did meanwhile.
THEOREM RelayIsWholeHolds == Spec => []RelayIsWhole
<1>1. Init => Causes
  BY DEF Init, Causes
<1>2. IInv /\ Causes /\ [Next]_vars => Causes'
  BY CausesStep
<1>3. IInv /\ OutputAccounted /\ InputAccounted => OutputIsWhole /\ InputIsWhole
  BY DEF OutputAccounted, InputAccounted, OutputIsWhole, InputIsWhole
<1>4. IInv /\ Causes /\ OutputIsWhole /\ InputIsWhole => LossHasACause
  <2> SUFFICES ASSUME IInv, Causes, OutputIsWhole, InputIsWhole, pc = "done",
                      ~(reader = "cancelled" /\ writer = "cancelled")
               PROVE  /\ client = "open" /\ exec = "ended" /\ shown # produced
                           => reset \/ writer = "raised"
                      /\ exec = "runs" /\ fed # typed => writer = "raised" \/ reader = "raised"
    BY DEF LossHasACause
  <2>1. /\ reader \in {"ended", "raised", "cancelled", "none"}
        /\ writer \in {"ended", "raised", "cancelled", "none"}
    BY DEF IInv, Stages, AtRest, Finished
  <2>2. client = "open" /\ exec = "ended" /\ shown # produced => reset \/ writer = "raised"
    BY <2>1 DEF Causes, OutputIsWhole
  <2>3. exec = "runs" /\ fed # typed => writer = "raised" \/ reader = "raised"
    BY <2>1 DEF Causes, InputIsWhole
  <2> QED
    BY <2>2, <2>3
<1> QED
  BY <1>1, <1>2, <1>3, <1>4, InductiveInvariant, Accounting, PTL DEF Spec, RelayIsWhole
=============================================================================
