----------------------------- MODULE McpStdioProofs -----------------------------
(***************************************************************************)
(* Proofs about McpStdio, for any number of calls, notifications and       *)
(* closers, any pipe and any server: no channel is sent to or closed out   *)
(* of turn, no call that returned stays registered, and, of a server that  *)
(* prints no garbage, nobody waits for a reader that stopped.              *)
(***************************************************************************)
EXTENDS McpStdio, TLAPS

(***************************************************************************)
(* The goroutines are all different, and a message is not garbage.         *)
(***************************************************************************)
LEMMA ThreadFacts ==
    /\ Calls \cap Notes = {} /\ Calls \cap Closers = {} /\ Notes \cap Closers = {}
    /\ Reader \notin Calls \cup Notes \cup Closers
    /\ NoOne \notin Calls \cup Notes \cup Closers
  BY ThreadsAssumption DEF Threads, Senders

(***************************************************************************)
(* What a message is.                                                      *)
(***************************************************************************)
LEMMA MessageFacts ==
    /\ Garbage \notin Messages
    /\ \A m \in Messages : m.id \in Calls /\ m.kind \in {"reply", "ask"}
  <1>1. Garbage \notin Messages
    <2> SUFFICES ASSUME Garbage \in Messages
                 PROVE  FALSE
      OBVIOUS
    <2>1. DOMAIN Garbage = {"kind", "id"}
      BY DEF Messages
    <2>2. DOMAIN Garbage = {"kind"}
      BY DEF Garbage
    <2>3. "id" \notin {"kind"}
      OBVIOUS
    <2> QED  BY <2>1, <2>2, <2>3
  <1> QED  BY <1>1 DEF Messages

(***************************************************************************)
(* Every step keeps the types.                                             *)
(***************************************************************************)
LEMMA TypeStep ==
    ASSUME TypeOK, OwnersInv, [Next]_vars
    PROVE  TypeOK'
  <1> USE ThreadFacts, MessageFacts
      DEF TypeOK, OwnersInv, callers,
          table, streams, Threads, Senders, Releasers
  <1>1. ASSUME NEW c \in Calls, Call(c)
        PROVE  TypeOK'
    BY <1>1 DEF Call, Goto, EndCall
  <1>2. ASSUME NEW c \in Calls, Expire(c)
        PROVE  TypeOK'
    BY <1>2 DEF Expire
  <1>3. ASSUME NEW n \in Notes, Notify(n)
        PROVE  TypeOK'
    BY <1>3 DEF Notify, Goto
  <1>4. ASSUME NEW c \in Calls, Receive(c)
        PROVE  TypeOK'
    BY <1>4 DEF Receive, Goto, EndCall
  <1>5. ASSUME NEW c \in Calls, GiveUp(c)
        PROVE  TypeOK'
    BY <1>5 DEF GiveUp, Goto, EndCall
  <1>6. ASSUME NEW c \in Calls, Forget(c)
        PROVE  TypeOK'
    BY <1>6 DEF Forget, Goto
  <1>7. ASSUME NEW t \in Senders, LockWriting(t)
        PROVE  TypeOK'
    BY <1>7 DEF LockWriting, Goto
  <1>8. ASSUME NEW t \in Senders, Send(t)
        PROVE  TypeOK'
    BY <1>8 DEF Send, Goto
  <1>9. ASSUME NEW t \in Senders, SendFails(t)
        PROVE  TypeOK'
    BY <1>9 DEF SendFails, Goto, EndCall
  <1>10. ASSUME NEW m \in Messages \cup {Garbage}, Take(m)
         PROVE  TypeOK'
    BY <1>10 DEF Take
  <1>11. ASSUME Deliver
         PROVE  TypeOK'
    BY <1>11 DEF Deliver
  <1>12. ASSUME EndOfStream
         PROVE  TypeOK'
    BY <1>12 DEF EndOfStream
  <1>13. ASSUME ReaderFails
         PROVE  TypeOK'
    BY <1>13 DEF ReaderFails
  <1>14. ASSUME ReaderStops
         PROVE  TypeOK'
    BY <1>14 DEF ReaderStops
  <1>15. ASSUME NEW c \in Calls, ReaderReleases(c)
         PROVE  TypeOK'
    BY <1>15 DEF ReaderReleases, CloseChannel
  <1>16. ASSUME NEW k \in Closers, Close(k)
         PROVE  TypeOK'
    BY <1>16 DEF Close, Goto
  <1>17. ASSUME NEW k \in Closers, AwaitExit(k)
         PROVE  TypeOK'
    BY <1>17 DEF AwaitExit, Goto
  <1>18. ASSUME NEW k \in Closers, CloseStdin(k)
         PROVE  TypeOK'
    BY <1>18 DEF CloseStdin, Goto
  <1>19. ASSUME NEW k \in Closers, Kill(k)
         PROVE  TypeOK'
    BY <1>19 DEF Kill, Goto, Ends
  <1>20. ASSUME NEW k \in Closers, Reap(k)
         PROVE  TypeOK'
    BY <1>20 DEF Reap, Goto
  <1>21. ASSUME NEW k \in Closers, CloserFails(k)
         PROVE  TypeOK'
    BY <1>21 DEF CloserFails, Goto
  <1>22. ASSUME NEW k \in Closers, CloserReturns(k)
         PROVE  TypeOK'
    BY <1>22 DEF CloserReturns, Goto
  <1>23. ASSUME NEW k \in Closers, NEW c \in Calls, CloserReleases(k, c)
         PROVE  TypeOK'
    BY <1>23 DEF CloserReleases, CloseChannel
  <1>24. ASSUME NEW t \in Senders, ServerReads(t)
         PROVE  TypeOK'
    BY <1>24 DEF ServerReads
  <1>25. ASSUME NEW m \in Messages \cup {Garbage}, ServerPrints(m)
         PROVE  TypeOK'
    BY <1>25 DEF ServerPrints
  <1>26. ASSUME ServerExits
         PROVE  TypeOK'
    BY <1>26 DEF ServerExits, Ends
  <1>27. CASE UNCHANGED vars
    BY <1>27 DEF vars
  <1> QED
    BY <1>1, <1>2, <1>3, <1>4, <1>5, <1>6, <1>7, <1>8, <1>9, <1>10, <1>11,
       <1>12, <1>13, <1>14, <1>15, <1>16, <1>17, <1>18, <1>19, <1>20, <1>21,
       <1>22, <1>23, <1>24, <1>25, <1>26,
       <1>27 DEF Next, SenderStep, ReaderStep, CloserStep

(***************************************************************************)
(* A call leaves the table before it returns.                              *)
(***************************************************************************)
LEMMA LeakStep ==
    ASSUME TypeOK, NoLeak, OwnersInv, [Next]_vars
    PROVE  NoLeak'
  <1> USE ThreadFacts, MessageFacts
      DEF TypeOK, NoLeak, OwnersInv,
          callers, table, streams, Threads, Senders, Releasers
  <1>1. ASSUME NEW c \in Calls, Call(c)
        PROVE  NoLeak'
    BY <1>1 DEF Call, Goto, EndCall
  <1>2. ASSUME NEW c \in Calls, Expire(c)
        PROVE  NoLeak'
    BY <1>2 DEF Expire
  <1>3. ASSUME NEW n \in Notes, Notify(n)
        PROVE  NoLeak'
    BY <1>3 DEF Notify, Goto
  <1>4. ASSUME NEW c \in Calls, Receive(c)
        PROVE  NoLeak'
    BY <1>4 DEF Receive, Goto, EndCall
  <1>5. ASSUME NEW c \in Calls, GiveUp(c)
        PROVE  NoLeak'
    BY <1>5 DEF GiveUp, Goto, EndCall
  <1>6. ASSUME NEW c \in Calls, Forget(c)
        PROVE  NoLeak'
    BY <1>6 DEF Forget, Goto
  <1>7. ASSUME NEW t \in Senders, LockWriting(t)
        PROVE  NoLeak'
    BY <1>7 DEF LockWriting, Goto
  <1>8. ASSUME NEW t \in Senders, Send(t)
        PROVE  NoLeak'
    BY <1>8 DEF Send, Goto
  <1>9. ASSUME NEW t \in Senders, SendFails(t)
        PROVE  NoLeak'
    BY <1>9 DEF SendFails, Goto, EndCall
  <1>10. ASSUME NEW m \in Messages \cup {Garbage}, Take(m)
         PROVE  NoLeak'
    BY <1>10 DEF Take
  <1>11. ASSUME Deliver
         PROVE  NoLeak'
    BY <1>11 DEF Deliver
  <1>12. ASSUME EndOfStream
         PROVE  NoLeak'
    BY <1>12 DEF EndOfStream
  <1>13. ASSUME ReaderFails
         PROVE  NoLeak'
    BY <1>13 DEF ReaderFails
  <1>14. ASSUME ReaderStops
         PROVE  NoLeak'
    BY <1>14 DEF ReaderStops
  <1>15. ASSUME NEW c \in Calls, ReaderReleases(c)
         PROVE  NoLeak'
    BY <1>15 DEF ReaderReleases, CloseChannel
  <1>16. ASSUME NEW k \in Closers, Close(k)
         PROVE  NoLeak'
    BY <1>16 DEF Close, Goto
  <1>17. ASSUME NEW k \in Closers, AwaitExit(k)
         PROVE  NoLeak'
    BY <1>17 DEF AwaitExit, Goto
  <1>18. ASSUME NEW k \in Closers, CloseStdin(k)
         PROVE  NoLeak'
    BY <1>18 DEF CloseStdin, Goto
  <1>19. ASSUME NEW k \in Closers, Kill(k)
         PROVE  NoLeak'
    BY <1>19 DEF Kill, Goto, Ends
  <1>20. ASSUME NEW k \in Closers, Reap(k)
         PROVE  NoLeak'
    BY <1>20 DEF Reap, Goto
  <1>21. ASSUME NEW k \in Closers, CloserFails(k)
         PROVE  NoLeak'
    BY <1>21 DEF CloserFails, Goto
  <1>22. ASSUME NEW k \in Closers, CloserReturns(k)
         PROVE  NoLeak'
    BY <1>22 DEF CloserReturns, Goto
  <1>23. ASSUME NEW k \in Closers, NEW c \in Calls, CloserReleases(k, c)
         PROVE  NoLeak'
    BY <1>23 DEF CloserReleases, CloseChannel
  <1>24. ASSUME NEW t \in Senders, ServerReads(t)
         PROVE  NoLeak'
    BY <1>24 DEF ServerReads
  <1>25. ASSUME NEW m \in Messages \cup {Garbage}, ServerPrints(m)
         PROVE  NoLeak'
    BY <1>25 DEF ServerPrints
  <1>26. ASSUME ServerExits
         PROVE  NoLeak'
    BY <1>26 DEF ServerExits, Ends
  <1>27. CASE UNCHANGED vars
    BY <1>27 DEF vars
  <1> QED
    BY <1>1, <1>2, <1>3, <1>4, <1>5, <1>6, <1>7, <1>8, <1>9, <1>10, <1>11,
       <1>12, <1>13, <1>14, <1>15, <1>16, <1>17, <1>18, <1>19, <1>20, <1>21,
       <1>22, <1>23, <1>24, <1>25, <1>26,
       <1>27 DEF Next, SenderStep, ReaderStep, CloserStep

(***************************************************************************)
(* Whoever takes a call out of the table has its channel to itself.        *)
(***************************************************************************)
LEMMA OwnersStep ==
    ASSUME TypeOK, NoLeak, OwnersInv, ReleaseInv, [Next]_vars
    PROVE  OwnersInv'
  <1> USE ThreadFacts, MessageFacts
      DEF TypeOK, NoLeak, OwnersInv,
          InHand, Released, ReleaseInv, callers, table, streams, Threads,
          Senders, Releasers
  <1>1. ASSUME NEW c \in Calls, Call(c)
        PROVE  OwnersInv'
    BY <1>1 DEF Call, Goto, EndCall
  <1>2. ASSUME NEW c \in Calls, Expire(c)
        PROVE  OwnersInv'
    BY <1>2 DEF Expire
  <1>3. ASSUME NEW n \in Notes, Notify(n)
        PROVE  OwnersInv'
    BY <1>3 DEF Notify, Goto
  <1>4. ASSUME NEW c \in Calls, Receive(c)
        PROVE  OwnersInv'
    BY <1>4 DEF Receive, Goto, EndCall
  <1>5. ASSUME NEW c \in Calls, GiveUp(c)
        PROVE  OwnersInv'
    BY <1>5 DEF GiveUp, Goto, EndCall
  <1>6. ASSUME NEW c \in Calls, Forget(c)
        PROVE  OwnersInv'
    BY <1>6 DEF Forget, Goto
  <1>7. ASSUME NEW t \in Senders, LockWriting(t)
        PROVE  OwnersInv'
    BY <1>7 DEF LockWriting, Goto
  <1>8. ASSUME NEW t \in Senders, Send(t)
        PROVE  OwnersInv'
    BY <1>8 DEF Send, Goto
  <1>9. ASSUME NEW t \in Senders, SendFails(t)
        PROVE  OwnersInv'
    BY <1>9 DEF SendFails, Goto, EndCall
  <1>10. ASSUME NEW m \in Messages \cup {Garbage}, Take(m)
         PROVE  OwnersInv'
    BY <1>10 DEF Take
  <1>11. ASSUME Deliver
         PROVE  OwnersInv'
    BY <1>11 DEF Deliver
  <1>12. ASSUME EndOfStream
         PROVE  OwnersInv'
    BY <1>12 DEF EndOfStream
  <1>13. ASSUME ReaderFails
         PROVE  OwnersInv'
    BY <1>13 DEF ReaderFails
  <1>14. ASSUME ReaderStops
         PROVE  OwnersInv'
    BY <1>14 DEF ReaderStops
  <1>15. ASSUME NEW c \in Calls, ReaderReleases(c)
         PROVE  OwnersInv'
    BY <1>15 DEF ReaderReleases, CloseChannel
  <1>16. ASSUME NEW k \in Closers, Close(k)
         PROVE  OwnersInv'
    BY <1>16 DEF Close, Goto
  <1>17. ASSUME NEW k \in Closers, AwaitExit(k)
         PROVE  OwnersInv'
    BY <1>17 DEF AwaitExit, Goto
  <1>18. ASSUME NEW k \in Closers, CloseStdin(k)
         PROVE  OwnersInv'
    BY <1>18 DEF CloseStdin, Goto
  <1>19. ASSUME NEW k \in Closers, Kill(k)
         PROVE  OwnersInv'
    BY <1>19 DEF Kill, Goto, Ends
  <1>20. ASSUME NEW k \in Closers, Reap(k)
         PROVE  OwnersInv'
    BY <1>20 DEF Reap, Goto
  <1>21. ASSUME NEW k \in Closers, CloserFails(k)
         PROVE  OwnersInv'
    BY <1>21 DEF CloserFails, Goto
  <1>22. ASSUME NEW k \in Closers, CloserReturns(k)
         PROVE  OwnersInv'
    BY <1>22 DEF CloserReturns, Goto
  <1>23. ASSUME NEW k \in Closers, NEW c \in Calls, CloserReleases(k, c)
         PROVE  OwnersInv'
    BY <1>23 DEF CloserReleases, CloseChannel
  <1>24. ASSUME NEW t \in Senders, ServerReads(t)
         PROVE  OwnersInv'
    BY <1>24 DEF ServerReads
  <1>25. ASSUME NEW m \in Messages \cup {Garbage}, ServerPrints(m)
         PROVE  OwnersInv'
    BY <1>25 DEF ServerPrints
  <1>26. ASSUME ServerExits
         PROVE  OwnersInv'
    BY <1>26 DEF ServerExits, Ends
  <1>27. CASE UNCHANGED vars
    BY <1>27 DEF vars
  <1> QED
    BY <1>1, <1>2, <1>3, <1>4, <1>5, <1>6, <1>7, <1>8, <1>9, <1>10, <1>11,
       <1>12, <1>13, <1>14, <1>15, <1>16, <1>17, <1>18, <1>19, <1>20, <1>21,
       <1>22, <1>23, <1>24, <1>25, <1>26,
       <1>27 DEF Next, SenderStep, ReaderStep, CloserStep

(***************************************************************************)
(* Channels are closed only in the release steps.                          *)
(***************************************************************************)
LEMMA ReleaseStep ==
    ASSUME TypeOK, ReleaseInv, [Next]_vars
    PROVE  ReleaseInv'
  <1> USE ThreadFacts
      DEF TypeOK, ReleaseInv, callers, table, streams,
          Threads, Senders, Releasers
  <1>1. ASSUME NEW c \in Calls, Call(c)
        PROVE  ReleaseInv'
    BY <1>1 DEF Call, Goto, EndCall
  <1>2. ASSUME NEW c \in Calls, Expire(c)
        PROVE  ReleaseInv'
    BY <1>2 DEF Expire
  <1>3. ASSUME NEW n \in Notes, Notify(n)
        PROVE  ReleaseInv'
    BY <1>3 DEF Notify, Goto
  <1>4. ASSUME NEW c \in Calls, Receive(c)
        PROVE  ReleaseInv'
    BY <1>4 DEF Receive, Goto, EndCall
  <1>5. ASSUME NEW c \in Calls, GiveUp(c)
        PROVE  ReleaseInv'
    BY <1>5 DEF GiveUp, Goto, EndCall
  <1>6. ASSUME NEW c \in Calls, Forget(c)
        PROVE  ReleaseInv'
    BY <1>6 DEF Forget, Goto
  <1>7. ASSUME NEW t \in Senders, LockWriting(t)
        PROVE  ReleaseInv'
    BY <1>7 DEF LockWriting, Goto
  <1>8. ASSUME NEW t \in Senders, Send(t)
        PROVE  ReleaseInv'
    BY <1>8 DEF Send, Goto
  <1>9. ASSUME NEW t \in Senders, SendFails(t)
        PROVE  ReleaseInv'
    BY <1>9 DEF SendFails, Goto, EndCall
  <1>10. ASSUME NEW m \in Messages \cup {Garbage}, Take(m)
         PROVE  ReleaseInv'
    BY <1>10 DEF Take
  <1>11. ASSUME Deliver
         PROVE  ReleaseInv'
    BY <1>11 DEF Deliver
  <1>12. ASSUME EndOfStream
         PROVE  ReleaseInv'
    BY <1>12 DEF EndOfStream
  <1>13. ASSUME ReaderFails
         PROVE  ReleaseInv'
    BY <1>13 DEF ReaderFails
  <1>14. ASSUME ReaderStops
         PROVE  ReleaseInv'
    BY <1>14 DEF ReaderStops
  <1>15. ASSUME NEW c \in Calls, ReaderReleases(c)
         PROVE  ReleaseInv'
    BY <1>15 DEF ReaderReleases, CloseChannel
  <1>16. ASSUME NEW k \in Closers, Close(k)
         PROVE  ReleaseInv'
    BY <1>16 DEF Close, Goto
  <1>17. ASSUME NEW k \in Closers, AwaitExit(k)
         PROVE  ReleaseInv'
    BY <1>17 DEF AwaitExit, Goto
  <1>18. ASSUME NEW k \in Closers, CloseStdin(k)
         PROVE  ReleaseInv'
    BY <1>18 DEF CloseStdin, Goto
  <1>19. ASSUME NEW k \in Closers, Kill(k)
         PROVE  ReleaseInv'
    BY <1>19 DEF Kill, Goto, Ends
  <1>20. ASSUME NEW k \in Closers, Reap(k)
         PROVE  ReleaseInv'
    BY <1>20 DEF Reap, Goto
  <1>21. ASSUME NEW k \in Closers, CloserFails(k)
         PROVE  ReleaseInv'
    BY <1>21 DEF CloserFails, Goto
  <1>22. ASSUME NEW k \in Closers, CloserReturns(k)
         PROVE  ReleaseInv'
    BY <1>22 DEF CloserReturns, Goto
  <1>23. ASSUME NEW k \in Closers, NEW c \in Calls, CloserReleases(k, c)
         PROVE  ReleaseInv'
    BY <1>23 DEF CloserReleases, CloseChannel
  <1>24. ASSUME NEW t \in Senders, ServerReads(t)
         PROVE  ReleaseInv'
    BY <1>24 DEF ServerReads
  <1>25. ASSUME NEW m \in Messages \cup {Garbage}, ServerPrints(m)
         PROVE  ReleaseInv'
    BY <1>25 DEF ServerPrints
  <1>26. ASSUME ServerExits
         PROVE  ReleaseInv'
    BY <1>26 DEF ServerExits, Ends
  <1>27. CASE UNCHANGED vars
    BY <1>27 DEF vars
  <1> QED
    BY <1>1, <1>2, <1>3, <1>4, <1>5, <1>6, <1>7, <1>8, <1>9, <1>10, <1>11,
       <1>12, <1>13, <1>14, <1>15, <1>16, <1>17, <1>18, <1>19, <1>20, <1>21,
       <1>22, <1>23, <1>24, <1>25, <1>26,
       <1>27 DEF Next, SenderStep, ReaderStep, CloserStep

(***************************************************************************)
(* The reader fails only when nothing can be written, or on garbage.       *)
(***************************************************************************)
LEMMA StreamStep ==
    ASSUME TypeOK, StreamInv, [Next]_vars
    PROVE  StreamInv'
  <1> USE ThreadFacts
      DEF TypeOK, StreamInv, Writable, Garbage,
          Messages, callers, table, streams, Threads, Senders, Releasers
  <1>1. ASSUME NEW c \in Calls, Call(c)
        PROVE  StreamInv'
    BY <1>1 DEF Call, Goto, EndCall
  <1>2. ASSUME NEW c \in Calls, Expire(c)
        PROVE  StreamInv'
    BY <1>2 DEF Expire
  <1>3. ASSUME NEW n \in Notes, Notify(n)
        PROVE  StreamInv'
    BY <1>3 DEF Notify, Goto
  <1>4. ASSUME NEW c \in Calls, Receive(c)
        PROVE  StreamInv'
    BY <1>4 DEF Receive, Goto, EndCall
  <1>5. ASSUME NEW c \in Calls, GiveUp(c)
        PROVE  StreamInv'
    BY <1>5 DEF GiveUp, Goto, EndCall
  <1>6. ASSUME NEW c \in Calls, Forget(c)
        PROVE  StreamInv'
    BY <1>6 DEF Forget, Goto
  <1>7. ASSUME NEW t \in Senders, LockWriting(t)
        PROVE  StreamInv'
    BY <1>7 DEF LockWriting, Goto
  <1>8. ASSUME NEW t \in Senders, Send(t)
        PROVE  StreamInv'
    BY <1>8 DEF Send, Goto
  <1>9. ASSUME NEW t \in Senders, SendFails(t)
        PROVE  StreamInv'
    BY <1>9 DEF SendFails, Goto, EndCall
  <1>10. ASSUME NEW m \in Messages \cup {Garbage}, Take(m)
         PROVE  StreamInv'
    BY <1>10 DEF Take
  <1>11. ASSUME Deliver
         PROVE  StreamInv'
    BY <1>11 DEF Deliver
  <1>12. ASSUME EndOfStream
         PROVE  StreamInv'
    BY <1>12 DEF EndOfStream
  <1>13. ASSUME ReaderFails
         PROVE  StreamInv'
    BY <1>13 DEF ReaderFails
  <1>14. ASSUME ReaderStops
         PROVE  StreamInv'
    BY <1>14 DEF ReaderStops
  <1>15. ASSUME NEW c \in Calls, ReaderReleases(c)
         PROVE  StreamInv'
    BY <1>15 DEF ReaderReleases, CloseChannel
  <1>16. ASSUME NEW k \in Closers, Close(k)
         PROVE  StreamInv'
    BY <1>16 DEF Close, Goto
  <1>17. ASSUME NEW k \in Closers, AwaitExit(k)
         PROVE  StreamInv'
    BY <1>17 DEF AwaitExit, Goto
  <1>18. ASSUME NEW k \in Closers, CloseStdin(k)
         PROVE  StreamInv'
    BY <1>18 DEF CloseStdin, Goto
  <1>19. ASSUME NEW k \in Closers, Kill(k)
         PROVE  StreamInv'
    BY <1>19 DEF Kill, Goto, Ends
  <1>20. ASSUME NEW k \in Closers, Reap(k)
         PROVE  StreamInv'
    BY <1>20 DEF Reap, Goto
  <1>21. ASSUME NEW k \in Closers, CloserFails(k)
         PROVE  StreamInv'
    BY <1>21 DEF CloserFails, Goto
  <1>22. ASSUME NEW k \in Closers, CloserReturns(k)
         PROVE  StreamInv'
    BY <1>22 DEF CloserReturns, Goto
  <1>23. ASSUME NEW k \in Closers, NEW c \in Calls, CloserReleases(k, c)
         PROVE  StreamInv'
    BY <1>23 DEF CloserReleases, CloseChannel
  <1>24. ASSUME NEW t \in Senders, ServerReads(t)
         PROVE  StreamInv'
    BY <1>24 DEF ServerReads
  <1>25. ASSUME NEW m \in Messages \cup {Garbage}, ServerPrints(m)
         PROVE  StreamInv'
    BY <1>25 DEF ServerPrints
  <1>26. ASSUME ServerExits
         PROVE  StreamInv'
    BY <1>26 DEF ServerExits, Ends
  <1>27. CASE UNCHANGED vars
    BY <1>27 DEF vars
  <1> QED
    BY <1>1, <1>2, <1>3, <1>4, <1>5, <1>6, <1>7, <1>8, <1>9, <1>10, <1>11,
       <1>12, <1>13, <1>14, <1>15, <1>16, <1>17, <1>18, <1>19, <1>20, <1>21,
       <1>22, <1>23, <1>24, <1>25, <1>26,
       <1>27 DEF Next, SenderStep, ReaderStep, CloserStep

(***************************************************************************)
(* A call under way is accounted for.                                      *)
(***************************************************************************)
LEMMA WaitStep ==
    ASSUME TypeOK, NoLeak, OwnersInv, ReleaseInv, StreamInv, WaitInv,
           [Next]_vars
    PROVE  WaitInv'
  <1> USE ThreadFacts, MessageFacts
      DEF TypeOK, NoLeak, OwnersInv,
          InHand, Released, ReleaseInv, StreamInv, Writable, WaitInv,
          callers, table, streams, Threads, Senders, Releasers
  <1>1. ASSUME NEW c \in Calls, Call(c)
        PROVE  WaitInv'
    BY <1>1 DEF Call, Goto, EndCall
  <1>2. ASSUME NEW c \in Calls, Expire(c)
        PROVE  WaitInv'
    BY <1>2 DEF Expire
  <1>3. ASSUME NEW n \in Notes, Notify(n)
        PROVE  WaitInv'
    BY <1>3 DEF Notify, Goto
  <1>4. ASSUME NEW c \in Calls, Receive(c)
        PROVE  WaitInv'
    BY <1>4 DEF Receive, Goto, EndCall
  <1>5. ASSUME NEW c \in Calls, GiveUp(c)
        PROVE  WaitInv'
    BY <1>5 DEF GiveUp, Goto, EndCall
  <1>6. ASSUME NEW c \in Calls, Forget(c)
        PROVE  WaitInv'
    BY <1>6 DEF Forget, Goto
  <1>7. ASSUME NEW t \in Senders, LockWriting(t)
        PROVE  WaitInv'
    BY <1>7 DEF LockWriting, Goto
  <1>8. ASSUME NEW t \in Senders, Send(t)
        PROVE  WaitInv'
    BY <1>8 DEF Send, Goto
  <1>9. ASSUME NEW t \in Senders, SendFails(t)
        PROVE  WaitInv'
    BY <1>9 DEF SendFails, Goto, EndCall
  <1>10. ASSUME NEW m \in Messages \cup {Garbage}, Take(m)
         PROVE  WaitInv'
    BY <1>10 DEF Take
  <1>11. ASSUME Deliver
         PROVE  WaitInv'
    BY <1>11 DEF Deliver
  <1>12. ASSUME EndOfStream
         PROVE  WaitInv'
    BY <1>12 DEF EndOfStream
  <1>13. ASSUME ReaderFails
         PROVE  WaitInv'
    BY <1>13 DEF ReaderFails
  <1>14. ASSUME ReaderStops
         PROVE  WaitInv'
    BY <1>14 DEF ReaderStops
  <1>15. ASSUME NEW c \in Calls, ReaderReleases(c)
         PROVE  WaitInv'
    BY <1>15 DEF ReaderReleases, CloseChannel
  <1>16. ASSUME NEW k \in Closers, Close(k)
         PROVE  WaitInv'
    BY <1>16 DEF Close, Goto
  <1>17. ASSUME NEW k \in Closers, AwaitExit(k)
         PROVE  WaitInv'
    BY <1>17 DEF AwaitExit, Goto
  <1>18. ASSUME NEW k \in Closers, CloseStdin(k)
         PROVE  WaitInv'
    BY <1>18 DEF CloseStdin, Goto
  <1>19. ASSUME NEW k \in Closers, Kill(k)
         PROVE  WaitInv'
    BY <1>19 DEF Kill, Goto, Ends
  <1>20. ASSUME NEW k \in Closers, Reap(k)
         PROVE  WaitInv'
    BY <1>20 DEF Reap, Goto
  <1>21. ASSUME NEW k \in Closers, CloserFails(k)
         PROVE  WaitInv'
    BY <1>21 DEF CloserFails, Goto
  <1>22. ASSUME NEW k \in Closers, CloserReturns(k)
         PROVE  WaitInv'
    BY <1>22 DEF CloserReturns, Goto
  <1>23. ASSUME NEW k \in Closers, NEW c \in Calls, CloserReleases(k, c)
         PROVE  WaitInv'
    BY <1>23 DEF CloserReleases, CloseChannel
  <1>24. ASSUME NEW t \in Senders, ServerReads(t)
         PROVE  WaitInv'
    BY <1>24 DEF ServerReads
  <1>25. ASSUME NEW m \in Messages \cup {Garbage}, ServerPrints(m)
         PROVE  WaitInv'
    BY <1>25 DEF ServerPrints
  <1>26. ASSUME ServerExits
         PROVE  WaitInv'
    BY <1>26 DEF ServerExits, Ends
  <1>27. CASE UNCHANGED vars
    BY <1>27 DEF vars
  <1> QED
    BY <1>1, <1>2, <1>3, <1>4, <1>5, <1>6, <1>7, <1>8, <1>9, <1>10, <1>11,
       <1>12, <1>13, <1>14, <1>15, <1>16, <1>17, <1>18, <1>19, <1>20, <1>21,
       <1>22, <1>23, <1>24, <1>25, <1>26,
       <1>27 DEF Next, SenderStep, ReaderStep, CloserStep

-----------------------------------------------------------------------------
(***************************************************************************)
(* Every channel has one owner at a time, no call that returned stays      *)
(* registered, and the reader stops only when nothing can be written, for  *)
(* any number of goroutines and any server.                                *)
(***************************************************************************)
THEOREM Safety == Spec => []IInv
  <1>1. Init => IInv
    <2> SUFFICES ASSUME Init
                 PROVE  IInv
      OBVIOUS
    <2>1. TypeOK /\ NoLeak
      BY DEF Init, TypeOK, NoLeak, Senders, Threads, Releasers
    <2>2. OwnersInv /\ ReleaseInv /\ StreamInv /\ WaitInv
      BY ThreadFacts DEF Init, OwnersInv, InHand, Released, ReleaseInv, StreamInv,
         Writable, WaitInv, Releasers, Threads, Senders
    <2> QED  BY <2>1, <2>2 DEF IInv
  <1>2. IInv /\ [Next]_vars => IInv'
    BY TypeStep, LeakStep, OwnersStep, ReleaseStep, StreamStep, WaitStep DEF IInv
  <1> QED  BY <1>1, <1>2, PTL DEF Spec

(***************************************************************************)
(* For any number of goroutines: the reader never sends on a channel that  *)
(* is closed or full, and no channel is closed twice or after its          *)
(* response.                                                               *)
(***************************************************************************)
THEOREM Channels == Spec => []ChannelsSafe
  <1>1. IInv => ChannelsSafe
    BY MessageFacts DEF IInv, ChannelsSafe, OwnersInv, InHand, Released, TypeOK
  <1> QED  BY <1>1, Safety, PTL

(***************************************************************************)
(* For any number of calls, whether answered, unsent, expired or released: *)
(* a call that has returned is not in the table.                           *)
(***************************************************************************)
THEOREM Unregistered == Spec => []NoLeak
  <1>1. IInv => NoLeak
    BY DEF IInv
  <1> QED  BY <1>1, Safety, PTL

(***************************************************************************)
(* With a server that prints no garbage, but may die, hang, answer twice   *)
(* or ask for itself: nobody waits for a reader that has stopped.          *)
(***************************************************************************)
THEOREM Accounted ==
    ASSUME "garble" \notin Quirks
    PROVE  Spec => []NobodyForgotten
  <1>1. IInv => NobodyForgotten
    <2> SUFFICES ASSUME IInv, reader = "stopped", NEW c \in Calls, pc[c] = "wait",
                        chan[c] = "empty"
                 PROVE  \E k \in Closers : c \in release[k]
      BY DEF NobodyForgotten
    <2>1. c \notin pending /\ ~InHand(c)
      BY DEF IInv, WaitInv, InHand
    <2>2. Released(c) /\ c \notin release[Reader]
      BY <2>1 DEF IInv, WaitInv, ReleaseInv
    <2> QED  BY <2>2 DEF Released, Releasers
  <1> QED  BY <1>1, Safety, PTL
===============================================================================
