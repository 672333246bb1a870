--------------------------- MODULE RtspSinkProofs ---------------------------
(***************************************************************************)
(* Safety of RtspSink for every set of connections, clients and endpoints  *)
(* and every number of units.                                              *)
(***************************************************************************)
EXTENDS RtspSink, TLAPS

-----------------------------------------------------------------------------
(* Where the worker is tells what is open and whether it holds pointers.   *)
Phases ==
    /\ worker \in {"collecting", "serving"} => sinkOpen /\ Len(units) > 0
    /\ worker = "closing" => ~sinkOpen
    /\ worker # "serving" => targets = {}
    /\ sinkOpen => server

LEMMA CollectedTyped ==
  ASSUME TypeOK, Phases
  PROVE  Collected \in 0 .. MaxUnits
BY RtspAssumption DEF RtspAssumption, TypeOK, ThreadsTyped, Phases, Collected

(* The worker's order of work. *)
LEMMA PhasesStep == TypeOK /\ Phases /\ [Next]_vars => Phases'
<1> SUFFICES ASSUME TypeOK, Phases, [Next]_vars
           PROVE  Phases'
  OBVIOUS
<1> USE DEF Phases, workerVars
<1>1. ASSUME NEW s \in Sessions, Accept(s)  PROVE Phases'
  BY <1>1 DEF Accept, ServerFrame, listVars
<1>2. ASSUME NEW s \in Sessions, Setup(s)  PROVE Phases'
  BY <1>2 DEF Setup, ServerFrame, LiveClients
<1>3. ASSUME NEW s \in Sessions, Play(s)  PROVE Phases'
  BY <1>3 DEF Play, ServerFrame, LiveClients
<1>4. ASSUME NEW s \in Sessions, Teardown(s)  PROVE Phases'
  BY <1>4 DEF Teardown, ServerFrame, Killed
<1>5. ASSUME NEW s \in Sessions, Disconnect(s)  PROVE Phases'
  BY <1>5 DEF Disconnect, ServerFrame, Killed
<1>6. CASE Open
  BY <1>6 DEF Open, listVars
<1>7. CASE CloseBegins
  BY <1>7 DEF CloseBegins, listVars, historyVars
<1>8. CASE ServerEnds
  BY <1>8 DEF ServerEnds, listVars, historyVars
<1>9. CASE CloseClears
  BY <1>9 DEF CloseClears, Remove, Without
<1>10. CASE WriteBegins
  <2>1. \E kind \in UnitKinds : units' = Append(units, kind)
    BY <1>10 DEF WriteBegins
  <2>2. units' \in Seq(UnitKinds) /\ Len(units') = Len(units) + 1
    BY <2>1 DEF TypeOK, ThreadsTyped
  <2>3. Len(units') > 0
    BY <2>2 DEF TypeOK, ThreadsTyped
  <2> QED
    BY <1>10, <2>3 DEF WriteBegins
<1>11. CASE Collect
  BY <1>11 DEF Collect, WantsUnit, listVars, historyVars
<1>12. CASE WriteEnds
  BY <1>12 DEF WriteEnds, listVars, historyVars
<1>13. ASSUME NEW c \in Clients, Serve(c)  PROVE Phases'
  BY <1>13 DEF Serve, ServeFrame, Ensured
<1>14. ASSUME NEW c \in Clients, ServeFails(c)  PROVE Phases'
  BY <1>14 DEF ServeFails, ServeFrame, Ensured
<1>15. CASE UNCHANGED vars
  BY <1>15 DEF vars, listVars, workerVars, historyVars
<1> QED
  BY <1>1, <1>2, <1>3, <1>4, <1>5, <1>6, <1>7, <1>8, <1>9,
     <1>10, <1>11, <1>12, <1>13, <1>14, <1>15 DEF Next, ServerStep, WorkerStep

-----------------------------------------------------------------------------
(* Type correctness, one part of TypeOK at a time *)

(* Flags, connections, the worker's place and the units. *)
LEMMA ThreadsStep == ThreadsTyped /\ [Next]_vars => ThreadsTyped'
<1> SUFFICES ASSUME ThreadsTyped, [Next]_vars
           PROVE  ThreadsTyped'
  OBVIOUS
<1> USE DEF ThreadsTyped, workerVars
<1>1. ASSUME NEW s \in Sessions, Accept(s)  PROVE ThreadsTyped'
  BY <1>1 DEF Accept, ServerFrame, listVars
<1>2. ASSUME NEW s \in Sessions, Setup(s)  PROVE ThreadsTyped'
  BY <1>2 DEF Setup, ServerFrame, LiveClients
<1>3. ASSUME NEW s \in Sessions, Play(s)  PROVE ThreadsTyped'
  BY <1>3 DEF Play, ServerFrame, LiveClients
<1>4. ASSUME NEW s \in Sessions, Teardown(s)  PROVE ThreadsTyped'
  BY <1>4 DEF Teardown, ServerFrame, Killed
<1>5. ASSUME NEW s \in Sessions, Disconnect(s)  PROVE ThreadsTyped'
  BY <1>5 DEF Disconnect, ServerFrame, Killed
<1>6. CASE Open
  BY <1>6, RtspAssumption DEF Open, listVars, RtspAssumption
<1>7. CASE CloseBegins
  BY <1>7 DEF CloseBegins, listVars, historyVars
<1>8. CASE ServerEnds
  BY <1>8 DEF ServerEnds, listVars, historyVars
<1>9. CASE CloseClears
  BY <1>9 DEF CloseClears, Remove, Without
<1>10. CASE WriteBegins
  <2>1. \E kind \in UnitKinds : units' = Append(units, kind)
    BY <1>10 DEF WriteBegins
  <2>2. units' \in Seq(UnitKinds) /\ Len(units') = Len(units) + 1
    BY <2>1 DEF ThreadsTyped
  <2> QED
    BY <1>10, <2>2, RtspAssumption DEF WriteBegins, RtspAssumption
<1>11. CASE Collect
  BY <1>11 DEF Collect, WantsUnit, listVars, historyVars
<1>12. CASE WriteEnds
  BY <1>12 DEF WriteEnds, listVars, historyVars
<1>13. ASSUME NEW c \in Clients, Serve(c)  PROVE ThreadsTyped'
  BY <1>13 DEF Serve, ServeFrame, Ensured
<1>14. ASSUME NEW c \in Clients, ServeFails(c)  PROVE ThreadsTyped'
  BY <1>14 DEF ServeFails, ServeFrame, Ensured
<1>15. CASE UNCHANGED vars
  BY <1>15 DEF vars, listVars, workerVars, historyVars
<1> QED
  BY <1>1, <1>2, <1>3, <1>4, <1>5, <1>6, <1>7, <1>8, <1>9,
     <1>10, <1>11, <1>12, <1>13, <1>14, <1>15 DEF Next, ServerStep, WorkerStep

(* The list, and what is said of each client. *)
LEMMA ClientsStep ==
    ClientsTyped /\ MuxersBelongToClients /\ [Next]_vars => ClientsTyped'
<1> SUFFICES ASSUME ClientsTyped, MuxersBelongToClients, [Next]_vars
           PROVE  ClientsTyped'
  OBVIOUS
<1> USE DEF ClientsTyped, workerVars
<1>1. ASSUME NEW s \in Sessions, Accept(s)  PROVE ClientsTyped'
  BY <1>1 DEF Accept, ServerFrame, listVars
<1>2. ASSUME NEW s \in Sessions, Setup(s)  PROVE ClientsTyped'
  BY <1>2 DEF Setup, ServerFrame, LiveClients
<1>3. ASSUME NEW s \in Sessions, Play(s)  PROVE ClientsTyped'
  BY <1>3 DEF Play, ServerFrame, LiveClients
<1>4. ASSUME NEW s \in Sessions, Teardown(s)  PROVE ClientsTyped'
  BY <1>4 DEF Teardown, ServerFrame, Killed
<1>5. ASSUME NEW s \in Sessions, Disconnect(s)  PROVE ClientsTyped'
  BY <1>5 DEF Disconnect, ServerFrame, Killed
<1>6. CASE Open
  BY <1>6 DEF Open, listVars
<1>7. CASE CloseBegins
  BY <1>7 DEF CloseBegins, listVars, historyVars
<1>8. CASE ServerEnds
  BY <1>8 DEF ServerEnds, listVars, historyVars
<1>9. CASE CloseClears
  BY <1>9 DEF CloseClears, Remove, Without
<1>10. CASE WriteBegins
  BY <1>10 DEF WriteBegins, Remove, Without
<1>11. CASE Collect
  BY <1>11 DEF Collect, WantsUnit, listVars, historyVars
<1>12. CASE WriteEnds
  BY <1>12 DEF WriteEnds, listVars, historyVars
<1>13. ASSUME NEW c \in Clients, Serve(c)  PROVE ClientsTyped'
  BY <1>13 DEF Serve, ServeFrame, Ensured
<1>14. ASSUME NEW c \in Clients, ServeFails(c)  PROVE ClientsTyped'
  BY <1>14 DEF ServeFails, ServeFrame, Ensured, MuxersBelongToClients
<1>15. CASE UNCHANGED vars
  BY <1>15 DEF vars, listVars, workerVars, historyVars
<1> QED
  BY <1>1, <1>2, <1>3, <1>4, <1>5, <1>6, <1>7, <1>8, <1>9,
     <1>10, <1>11, <1>12, <1>13, <1>14, <1>15 DEF Next, ServerStep, WorkerStep

(* The history counts units within the bound. *)
LEMMA HistoryStep == TypeOK /\ Phases /\ [Next]_vars => HistoryTyped'
<1> SUFFICES ASSUME TypeOK, Phases, [Next]_vars
           PROVE  HistoryTyped'
  OBVIOUS
<1> HistoryTyped
  BY DEF TypeOK
<1> USE DEF HistoryTyped, workerVars
<1>1. ASSUME NEW s \in Sessions, Accept(s)  PROVE HistoryTyped'
  BY <1>1 DEF Accept, ServerFrame, listVars, TypeOK
<1>2. ASSUME NEW s \in Sessions, Setup(s)  PROVE HistoryTyped'
  BY <1>2 DEF Setup, ServerFrame, LiveClients, TypeOK
<1>3. ASSUME NEW s \in Sessions, Play(s)  PROVE HistoryTyped'
  BY <1>3, RtspAssumption DEF Play, ServerFrame, LiveClients, TypeOK, ThreadsTyped,
     RtspAssumption
<1>4. ASSUME NEW s \in Sessions, Teardown(s)  PROVE HistoryTyped'
  BY <1>4, CollectedTyped DEF Teardown, ServerFrame, Killed, EndedWith, TypeOK
<1>5. ASSUME NEW s \in Sessions, Disconnect(s)  PROVE HistoryTyped'
  BY <1>5, CollectedTyped DEF Disconnect, ServerFrame, Killed, EndedWith, TypeOK
<1>6. CASE Open
  BY <1>6 DEF Open, listVars, TypeOK
<1>7. CASE CloseBegins
  BY <1>7 DEF CloseBegins, listVars, historyVars, TypeOK
<1>8. CASE ServerEnds
  BY <1>8 DEF ServerEnds, listVars, historyVars, TypeOK
<1>9. CASE CloseClears
  BY <1>9, RtspAssumption DEF CloseClears, Remove, Without, TypeOK, RtspAssumption
<1>10. CASE WriteBegins
  BY <1>10, RtspAssumption DEF WriteBegins, Remove, Without, TypeOK, RtspAssumption
<1>11. CASE Collect
  BY <1>11 DEF Collect, WantsUnit, listVars, historyVars, TypeOK
<1>12. CASE WriteEnds
  BY <1>12 DEF WriteEnds, listVars, historyVars, TypeOK
<1>13. ASSUME NEW c \in Clients, Serve(c)  PROVE HistoryTyped'
  BY <1>13 DEF Serve, ServeFrame, Ensured, TypeOK, ThreadsTyped, Phases
<1>14. ASSUME NEW c \in Clients, ServeFails(c)  PROVE HistoryTyped'
  BY <1>14, CollectedTyped DEF ServeFails, ServeFrame, Ensured, EndedWith, TypeOK
<1>15. CASE UNCHANGED vars
  BY <1>15 DEF vars, listVars, workerVars, historyVars
<1> QED
  BY <1>1, <1>2, <1>3, <1>4, <1>5, <1>6, <1>7, <1>8, <1>9,
     <1>10, <1>11, <1>12, <1>13, <1>14, <1>15 DEF Next, ServerStep, WorkerStep

-----------------------------------------------------------------------------
(* Clients and muxers *)

(* A client leaves the list when no pointer is held, and its muxer goes with it. *)
LEMMA MuxersStep ==
    TypeOK /\ Phases /\ MuxersBelongToClients /\ [Next]_vars
        => MuxersBelongToClients'
<1> SUFFICES ASSUME TypeOK, Phases, MuxersBelongToClients, [Next]_vars
           PROVE  MuxersBelongToClients'
  OBVIOUS
<1> USE DEF MuxersBelongToClients, Phases, workerVars, TypeOK, ClientsTyped
<1>1. ASSUME NEW s \in Sessions, Accept(s)  PROVE MuxersBelongToClients'
  BY <1>1 DEF Accept, ServerFrame, listVars
<1>2. ASSUME NEW s \in Sessions, Setup(s)  PROVE MuxersBelongToClients'
  BY <1>2 DEF Setup, ServerFrame, LiveClients
<1>3. ASSUME NEW s \in Sessions, Play(s)  PROVE MuxersBelongToClients'
  BY <1>3 DEF Play, ServerFrame, LiveClients
<1>4. ASSUME NEW s \in Sessions, Teardown(s)  PROVE MuxersBelongToClients'
  BY <1>4 DEF Teardown, ServerFrame, Killed
<1>5. ASSUME NEW s \in Sessions, Disconnect(s)  PROVE MuxersBelongToClients'
  BY <1>5 DEF Disconnect, ServerFrame, Killed
<1>6. CASE Open
  BY <1>6 DEF Open, listVars
<1>7. CASE CloseBegins
  BY <1>7 DEF CloseBegins, listVars, historyVars
<1>8. CASE ServerEnds
  BY <1>8 DEF ServerEnds, listVars, historyVars
<1>9. CASE CloseClears
  BY <1>9 DEF CloseClears, Remove, Without
<1>10. CASE WriteBegins
  BY <1>10 DEF WriteBegins, Remove, Without
<1>11. CASE Collect
  BY <1>11 DEF Collect, WantsUnit, listVars, historyVars
<1>12. CASE WriteEnds
  BY <1>12 DEF WriteEnds, listVars, historyVars
<1>13. ASSUME NEW c \in Clients, Serve(c)  PROVE MuxersBelongToClients'
  BY <1>13 DEF Serve, ServeFrame, Ensured
<1>14. ASSUME NEW c \in Clients, ServeFails(c)  PROVE MuxersBelongToClients'
  BY <1>14 DEF ServeFails, ServeFrame, Ensured
<1>15. CASE UNCHANGED vars
  BY <1>15 DEF vars, listVars, workerVars, historyVars
<1> QED
  BY <1>1, <1>2, <1>3, <1>4, <1>5, <1>6, <1>7, <1>8, <1>9,
     <1>10, <1>11, <1>12, <1>13, <1>14, <1>15 DEF Next, ServerStep, WorkerStep

(* A close empties the list after the server's thread has ended. *)
LEMMA ClosedStep == Phases /\ ClosedIsEmpty /\ [Next]_vars => ClosedIsEmpty'
<1> SUFFICES ASSUME Phases, ClosedIsEmpty, [Next]_vars
           PROVE  ClosedIsEmpty'
  OBVIOUS
<1> USE DEF ClosedIsEmpty, Phases, workerVars
<1>1. ASSUME NEW s \in Sessions, Accept(s)  PROVE ClosedIsEmpty'
  BY <1>1 DEF Accept, ServerFrame, listVars
<1>2. ASSUME NEW s \in Sessions, Setup(s)  PROVE ClosedIsEmpty'
  BY <1>2 DEF Setup, ServerFrame, LiveClients
<1>3. ASSUME NEW s \in Sessions, Play(s)  PROVE ClosedIsEmpty'
  BY <1>3 DEF Play, ServerFrame, LiveClients
<1>4. ASSUME NEW s \in Sessions, Teardown(s)  PROVE ClosedIsEmpty'
  BY <1>4 DEF Teardown, ServerFrame, Killed
<1>5. ASSUME NEW s \in Sessions, Disconnect(s)  PROVE ClosedIsEmpty'
  BY <1>5 DEF Disconnect, ServerFrame, Killed
<1>6. CASE Open
  BY <1>6 DEF Open, listVars
<1>7. CASE CloseBegins
  BY <1>7 DEF CloseBegins, listVars, historyVars
<1>8. CASE ServerEnds
  BY <1>8 DEF ServerEnds, listVars, historyVars
<1>9. CASE CloseClears
  BY <1>9 DEF CloseClears, Remove, Without
<1>10. CASE WriteBegins
  BY <1>10 DEF WriteBegins, Remove, Without
<1>11. CASE Collect
  BY <1>11 DEF Collect, WantsUnit, listVars, historyVars
<1>12. CASE WriteEnds
  BY <1>12 DEF WriteEnds, listVars, historyVars
<1>13. ASSUME NEW c \in Clients, Serve(c)  PROVE ClosedIsEmpty'
  BY <1>13 DEF Serve, ServeFrame, Ensured
<1>14. ASSUME NEW c \in Clients, ServeFails(c)  PROVE ClosedIsEmpty'
  BY <1>14 DEF ServeFails, ServeFrame, Ensured
<1>15. CASE UNCHANGED vars
  BY <1>15 DEF vars, listVars, workerVars, historyVars
<1> QED
  BY <1>1, <1>2, <1>3, <1>4, <1>5, <1>6, <1>7, <1>8, <1>9,
     <1>10, <1>11, <1>12, <1>13, <1>14, <1>15 DEF Next, ServerStep, WorkerStep

(* A session gets a client when it has no live one, and its end kills what it has. *)
LEMMA OnePlayerStep ==
    TypeOK /\ Phases /\ ClosedIsEmpty /\ OnePlayerPerSession /\ [Next]_vars
        => OnePlayerPerSession'
<1> SUFFICES ASSUME TypeOK, Phases, ClosedIsEmpty, OnePlayerPerSession, [Next]_vars
           PROVE  OnePlayerPerSession'
  OBVIOUS
<1> USE DEF OnePlayerPerSession, TypeOK, ClientsTyped, ThreadsTyped, workerVars
<1>1. ASSUME NEW s \in Sessions, Accept(s)  PROVE OnePlayerPerSession'
  BY <1>1 DEF Accept, ServerFrame, listVars
<1>2. ASSUME NEW s \in Sessions, Setup(s)  PROVE OnePlayerPerSession'
  BY <1>2 DEF Setup, ServerFrame, LiveClients
<1>3. ASSUME NEW s \in Sessions, Play(s)  PROVE OnePlayerPerSession'
  BY <1>3 DEF Play, ServerFrame, LiveClients
<1>4. ASSUME NEW s \in Sessions, Teardown(s)  PROVE OnePlayerPerSession'
  BY <1>4 DEF Teardown, ServerFrame, Killed
<1>5. ASSUME NEW s \in Sessions, Disconnect(s)  PROVE OnePlayerPerSession'
  BY <1>5 DEF Disconnect, ServerFrame, Killed
<1>6. CASE Open
  BY <1>6 DEF Open, listVars, ClosedIsEmpty
<1>7. CASE CloseBegins
  BY <1>7 DEF CloseBegins, listVars, historyVars
<1>8. CASE ServerEnds
  BY <1>8 DEF ServerEnds, listVars, historyVars
<1>9. CASE CloseClears
  BY <1>9 DEF CloseClears, Remove, Without
<1>10. CASE WriteBegins
  BY <1>10 DEF WriteBegins, Remove, Without
<1>11. CASE Collect
  BY <1>11 DEF Collect, WantsUnit, listVars, historyVars
<1>12. CASE WriteEnds
  BY <1>12 DEF WriteEnds, listVars, historyVars
<1>13. ASSUME NEW c \in Clients, Serve(c)  PROVE OnePlayerPerSession'
  BY <1>13 DEF Serve, ServeFrame, Ensured
<1>14. ASSUME NEW c \in Clients, ServeFails(c)  PROVE OnePlayerPerSession'
  BY <1>14 DEF ServeFails, ServeFrame, Ensured
<1>15. CASE UNCHANGED vars
  BY <1>15 DEF vars, listVars, workerVars, historyVars
<1> QED
  BY <1>1, <1>2, <1>3, <1>4, <1>5, <1>6, <1>7, <1>8, <1>9,
     <1>10, <1>11, <1>12, <1>13, <1>14, <1>15 DEF Next, ServerStep, WorkerStep

-----------------------------------------------------------------------------
(* What a client was sent *)

(* Nothing is sent before its targets are collected,
   and a client that was killed       *)
(* while the worker holds its pointer has been killed since they were.                  *)
SentCollected ==
    /\ \A c \in Clients : \A n \in got[c] : n <= Collected
    /\ \A c \in targets \cap dead : ended[c] = Len(units)

(* A unit is sent to clients that were alive when its targets were collected. *)
LEMMA SentStep ==
    TypeOK /\ Phases /\ MuxersBelongToClients /\ ClosedIsEmpty
    /\ SentCollected /\ NothingAfterTeardown /\ [Next]_vars
        => (SentCollected /\ NothingAfterTeardown)'
<1> SUFFICES ASSUME TypeOK, Phases, MuxersBelongToClients, ClosedIsEmpty,
                    SentCollected, NothingAfterTeardown, [Next]_vars
           PROVE  (SentCollected /\ NothingAfterTeardown)'
  OBVIOUS
<1> USE DEF SentCollected, NothingAfterTeardown, Phases, Collected, EndedWith, TypeOK,
            ClientsTyped, HistoryTyped, ThreadsTyped, workerVars
<1>1. ASSUME NEW s \in Sessions, Accept(s)
      PROVE (SentCollected /\ NothingAfterTeardown)'
  BY <1>1 DEF Accept, ServerFrame, listVars
<1>2. ASSUME NEW s \in Sessions, Setup(s)
      PROVE (SentCollected /\ NothingAfterTeardown)'
  BY <1>2 DEF Setup, ServerFrame, LiveClients
<1>3. ASSUME NEW s \in Sessions, Play(s)  PROVE (SentCollected /\ NothingAfterTeardown)'
  BY <1>3 DEF Play, ServerFrame, LiveClients
<1>4. ASSUME NEW s \in Sessions, Teardown(s)
      PROVE (SentCollected /\ NothingAfterTeardown)'
  BY <1>4 DEF Teardown, ServerFrame, Killed
<1>5. ASSUME NEW s \in Sessions, Disconnect(s)
      PROVE (SentCollected /\ NothingAfterTeardown)'
  BY <1>5 DEF Disconnect, ServerFrame, Killed
<1>6. CASE Open
  BY <1>6 DEF Open, listVars
<1>7. CASE CloseBegins
  BY <1>7 DEF CloseBegins, listVars, historyVars
<1>8. CASE ServerEnds
  BY <1>8 DEF ServerEnds, listVars, historyVars
<1>9. CASE CloseClears
  BY <1>9 DEF CloseClears, Remove, Without
<1>10. CASE WriteBegins
  BY <1>10 DEF WriteBegins, Remove, Without
<1>11. CASE Collect
  BY <1>11 DEF Collect, WantsUnit, listVars, historyVars
<1>12. CASE WriteEnds
  BY <1>12 DEF WriteEnds, listVars, historyVars
<1>13. ASSUME NEW c \in Clients, Serve(c)
      PROVE (SentCollected /\ NothingAfterTeardown)'
  BY <1>13 DEF Serve, ServeFrame, Ensured
<1>14. ASSUME NEW c \in Clients, ServeFails(c)
      PROVE (SentCollected /\ NothingAfterTeardown)'
  BY <1>14 DEF ServeFails, ServeFrame, Ensured
<1>15. CASE UNCHANGED vars
  BY <1>15 DEF vars, listVars, workerVars, historyVars
<1> QED
  BY <1>1, <1>2, <1>3, <1>4, <1>5, <1>6, <1>7, <1>8, <1>9,
     <1>10, <1>11, <1>12, <1>13, <1>14, <1>15 DEF Next, ServerStep, WorkerStep

(* How many units a client has been offered. *)
Offered(c) ==
    IF worker = "collecting" \/ c \in targets THEN Len(units) - 1 ELSE Len(units)

(* A client that has started has what it was offered from its keyframe on; one that     *)
(* has not starts with the unit in hand only if that is a keyframe.                     *)
PlaysOffered ==
    /\ started \cup targets \subseteq active
    /\ \A c \in started \ dead :
           \E first \in 1 .. Offered(c) :
               /\ units[first] = "key"
               /\ got[c] = first .. Offered(c)
    /\ \A c \in Clients \ started : got[c] = {}
    /\ \A c \in targets \ started : Unit = "key"

(* Every unit offered is sent, from a keyframe on. *)
LEMMA PlaysStep ==
    TypeOK /\ Phases /\ MuxersBelongToClients /\ ClosedIsEmpty /\ PlaysOffered
    /\ [Next]_vars
        => PlaysOffered'
<1> SUFFICES ASSUME TypeOK, Phases, MuxersBelongToClients, ClosedIsEmpty,
                    PlaysOffered, [Next]_vars
           PROVE  PlaysOffered'
  OBVIOUS
<1> USE DEF PlaysOffered, Phases, Offered, Unit, TypeOK, ClientsTyped, HistoryTyped,
            ThreadsTyped, MuxersBelongToClients, workerVars
<1>1. ASSUME NEW s \in Sessions, Accept(s)  PROVE PlaysOffered'
  BY <1>1 DEF Accept, ServerFrame, listVars
<1>2. ASSUME NEW s \in Sessions, Setup(s)  PROVE PlaysOffered'
  BY <1>2 DEF Setup, ServerFrame, LiveClients
<1>3. ASSUME NEW s \in Sessions, Play(s)  PROVE PlaysOffered'
  BY <1>3 DEF Play, ServerFrame, LiveClients
<1>4. ASSUME NEW s \in Sessions, Teardown(s)  PROVE PlaysOffered'
  BY <1>4 DEF Teardown, ServerFrame, Killed
<1>5. ASSUME NEW s \in Sessions, Disconnect(s)  PROVE PlaysOffered'
  BY <1>5 DEF Disconnect, ServerFrame, Killed
<1>6. CASE Open
  BY <1>6 DEF Open, listVars, ClosedIsEmpty
<1>7. CASE CloseBegins
  BY <1>7 DEF CloseBegins, listVars, historyVars
<1>8. CASE ServerEnds
  BY <1>8 DEF ServerEnds, listVars, historyVars
<1>9. CASE CloseClears
  BY <1>9 DEF CloseClears, Remove, Without
<1>10. CASE WriteBegins
  BY <1>10 DEF WriteBegins, Remove, Without
<1>11. CASE Collect
  BY <1>11 DEF Collect, WantsUnit, listVars, historyVars
<1>12. CASE WriteEnds
  BY <1>12 DEF WriteEnds, listVars, historyVars
<1>13. ASSUME NEW c \in Clients, Serve(c)  PROVE PlaysOffered'
  <2>1. worker = "serving" /\ c \in list /\ Len(units) \in Nat \ {0}
    BY <1>13 DEF Serve
  <2>2. ASSUME NEW d \in started' \ dead', d # c
        PROVE  \E first \in 1 .. Offered(d)' :
                   units'[first] = "key" /\ got'[d] = first .. Offered(d)'
    BY <1>13, <2>2 DEF Serve, ServeFrame
  <2>3. Offered(c)' = Len(units) /\ got'[c] = got[c] \cup {Len(units)}
    BY <1>13, <2>1 DEF Serve, ServeFrame
  <2>4. c \in started \ dead =>
            \E first \in 1 .. Len(units) :
                units[first] = "key" /\ got'[c] = first .. Len(units)
    <3>1. SUFFICES ASSUME c \in started \ dead
          PROVE  \E first \in 1 .. Len(units) :
                     units[first] = "key" /\ got'[c] = first .. Len(units)
      OBVIOUS
    <3>2. PICK first \in 1 .. Len(units) - 1 :
                   units[first] = "key" /\ got[c] = first .. Len(units) - 1
      BY <1>13, <2>1, <3>1 DEF Serve
    <3>3. got'[c] = first .. Len(units)
      BY <2>1, <2>3, <3>2
    <3> QED
      BY <2>1, <3>2, <3>3
  <2>5. c \notin started =>
            \E first \in 1 .. Len(units) :
                units[first] = "key" /\ got'[c] = first .. Len(units)
    <3>1. c \notin started => units[Len(units)] = "key"
      BY <1>13 DEF Serve
    <3>2. c \notin started => got'[c] = Len(units) .. Len(units)
      BY <2>1, <2>3
    <3>3. Len(units) \in 1 .. Len(units)
      BY <2>1
    <3> HIDE DEF PlaysOffered, Offered, Unit, TypeOK, HistoryTyped
    <3> QED
      BY <3>1, <3>2, <3>3
  <2>6. units' = units /\ dead' = dead /\ started' = started \cup {c}
    BY <1>13 DEF Serve, ServeFrame
  <2>7. ASSUME NEW d \in started' \ dead'
        PROVE  \E first \in 1 .. Offered(d)' :
                   units'[first] = "key" /\ got'[d] = first .. Offered(d)'
    <3>1. CASE d # c
      BY <2>2, <2>7, <3>1
    <3>2. CASE d = c /\ c \in started
      BY <2>3, <2>4, <2>6, <2>7, <3>2
    <3>3. CASE d = c /\ c \notin started
      BY <2>1, <2>3, <2>5, <2>6, <3>3
    <3> QED
      BY <3>1, <3>2, <3>3
  <2>8. started' \cup targets' \subseteq active'
    BY <1>13 DEF Serve, ServeFrame
  <2>9. \A d \in Clients \ started' : got'[d] = {}
    BY <1>13, <2>6 DEF Serve
  <2>10. \A d \in targets' \ started' : Unit' = "key"
    BY <1>13, <2>6 DEF Serve
  <2> QED
    BY <2>7, <2>8, <2>9, <2>10
<1>14. ASSUME NEW c \in Clients, ServeFails(c)  PROVE PlaysOffered'
  <2>1. ASSUME NEW d \in started' \ dead'
        PROVE  \E first \in 1 .. Offered(d)' :
                   units'[first] = "key" /\ got'[d] = first .. Offered(d)'
    <3>1. d # c /\ d \in started \ dead
      BY <1>14, <2>1 DEF ServeFails, ServeFrame
    <3> QED
      BY <1>14, <3>1 DEF ServeFails, ServeFrame
  <2>2. started' \subseteq active'
    BY <1>14 DEF ServeFails, ServeFrame
  <2> QED
    BY <1>14, <2>1, <2>2 DEF ServeFails, ServeFrame
<1>15. CASE UNCHANGED vars
  BY <1>15 DEF vars, listVars, workerVars, historyVars
<1> QED
  BY <1>1, <1>2, <1>3, <1>4, <1>5, <1>6, <1>7, <1>8, <1>9,
     <1>10, <1>11, <1>12, <1>13, <1>14, <1>15 DEF Next, ServerStep, WorkerStep

(* A client that was offered a keyframe since its PLAY has started. *)
HeldOffered ==
    \A c \in active \ dead :
        (\E n \in played[c] + 1 .. Offered(c) : units[n] = "key") => c \in started

(* A keyframe that is offered to an active client starts it. *)
LEMMA HeldStep ==
    TypeOK /\ Phases /\ MuxersBelongToClients /\ ClosedIsEmpty /\ HeldOffered
    /\ [Next]_vars
        => HeldOffered'
<1> SUFFICES ASSUME TypeOK, Phases, MuxersBelongToClients, ClosedIsEmpty, HeldOffered,
                    [Next]_vars
           PROVE  HeldOffered'
  OBVIOUS
<1> USE DEF HeldOffered, Phases, Offered, Unit, TypeOK, ClientsTyped, HistoryTyped,
            ThreadsTyped, MuxersBelongToClients, workerVars
<1>1. ASSUME NEW s \in Sessions, Accept(s)  PROVE HeldOffered'
  BY <1>1 DEF Accept, ServerFrame, listVars
<1>2. ASSUME NEW s \in Sessions, Setup(s)  PROVE HeldOffered'
  BY <1>2 DEF Setup, ServerFrame, LiveClients
<1>3. ASSUME NEW s \in Sessions, Play(s)  PROVE HeldOffered'
  BY <1>3 DEF Play, ServerFrame, LiveClients
<1>4. ASSUME NEW s \in Sessions, Teardown(s)  PROVE HeldOffered'
  BY <1>4 DEF Teardown, ServerFrame, Killed
<1>5. ASSUME NEW s \in Sessions, Disconnect(s)  PROVE HeldOffered'
  BY <1>5 DEF Disconnect, ServerFrame, Killed
<1>6. CASE Open
  BY <1>6 DEF Open, listVars
<1>7. CASE CloseBegins
  BY <1>7 DEF CloseBegins, listVars, historyVars
<1>8. CASE ServerEnds
  BY <1>8 DEF ServerEnds, listVars, historyVars
<1>9. CASE CloseClears
  BY <1>9 DEF CloseClears, Remove, Without
<1>10. CASE WriteBegins
  BY <1>10 DEF WriteBegins, Remove, Without
<1>11. CASE Collect
  BY <1>11 DEF Collect, WantsUnit, listVars, historyVars
<1>12. CASE WriteEnds
  BY <1>12 DEF WriteEnds, listVars, historyVars
<1>13. ASSUME NEW c \in Clients, Serve(c)  PROVE HeldOffered'
  BY <1>13 DEF Serve, ServeFrame, Ensured
<1>14. ASSUME NEW c \in Clients, ServeFails(c)  PROVE HeldOffered'
  BY <1>14 DEF ServeFails, ServeFrame, Ensured
<1>15. CASE UNCHANGED vars
  BY <1>15 DEF vars, listVars, workerVars, historyVars
<1> QED
  BY <1>1, <1>2, <1>3, <1>4, <1>5, <1>6, <1>7, <1>8, <1>9,
     <1>10, <1>11, <1>12, <1>13, <1>14, <1>15 DEF Next, ServerStep, WorkerStep

-----------------------------------------------------------------------------
(* The theorems *)

Inv ==
    /\ TypeOK /\ Phases
    /\ MuxersBelongToClients /\ ClosedIsEmpty /\ OnePlayerPerSession
    /\ SentCollected /\ NothingAfterTeardown
    /\ PlaysOffered /\ HeldOffered

LEMMA InitInv == Init => Inv
<1> SUFFICES ASSUME Init  PROVE Inv
  OBVIOUS
<1>1. TypeOK
  <2>1. ThreadsTyped
    <3>1. <<>> \in Seq(UnitKinds) /\ Len(<<>>) = 0
      OBVIOUS
    <3>2. units \in Seq(UnitKinds) /\ Len(units) <= MaxUnits
      BY <3>1, RtspAssumption DEF Init, RtspAssumption
    <3> QED
      BY <3>2 DEF Init, ThreadsTyped
  <2>2. ClientsTyped
    BY DEF Init, ClientsTyped
  <2>3. HistoryTyped
    BY RtspAssumption DEF Init, RtspAssumption, HistoryTyped
  <2> QED
    BY <2>1, <2>2, <2>3 DEF TypeOK
<1>2. /\ Phases /\ MuxersBelongToClients /\ ClosedIsEmpty /\ OnePlayerPerSession
      /\ NothingAfterTeardown
  BY DEF Init, Phases, MuxersBelongToClients, ClosedIsEmpty, OnePlayerPerSession,
     NothingAfterTeardown
<1>3. SentCollected /\ PlaysOffered /\ HeldOffered
  BY DEF Init, SentCollected, PlaysOffered, HeldOffered
<1> QED
  BY <1>1, <1>2, <1>3 DEF Inv

LEMMA StepInv == Inv /\ [Next]_vars => Inv'
<1> SUFFICES ASSUME Inv, [Next]_vars  PROVE Inv'
  OBVIOUS
<1>1. TypeOK'
  BY ThreadsStep, ClientsStep, HistoryStep DEF Inv, TypeOK
<1> QED
  BY <1>1, PhasesStep, MuxersStep, ClosedStep, OnePlayerStep, SentStep, PlaysStep,
     HeldStep DEF Inv

THEOREM Invariance == Spec => []Inv
<1>1. Init => Inv
  BY InitInv
<1>2. Inv /\ [Next]_vars => Inv'
  BY StepInv
<1> QED
  BY <1>1, <1>2, PTL DEF Spec

(* Every variable keeps to its values, whatever the order of requests and writes. *)
THEOREM TypeCorrect == Spec => []TypeOK
<1>1. Inv => TypeOK
  BY DEF Inv
<1> QED
  BY <1>1, Invariance, PTL

(* The pointers that are served outside the mutex are those of clients in the list,
   and  *)
(* no muxer is left behind by a client that was removed.                                 *)
THEOREM MuxersGoWithClients == Spec => []MuxersBelongToClients
<1>1. Inv => MuxersBelongToClients
  BY DEF Inv
<1> QED
  BY <1>1, Invariance, PTL

(* A closed sink has neither a server thread nor a client. *)
THEOREM CloseEmpties == Spec => []ClosedIsEmpty
<1>1. Inv => ClosedIsEmpty
  BY DEF Inv
<1> QED
  BY <1>1, Invariance, PTL

(* A session has one live client at most, and none when its connection is gone. *)
THEOREM SessionsHaveOnePlayer == Spec => []OnePlayerPerSession
<1>1. Inv => OnePlayerPerSession
  BY DEF Inv
<1> QED
  BY <1>1, Invariance, PTL

(* Between two writes,
   what a player that has started was sent is everything from a      *)
(* keyframe on.                                                                          *)
THEOREM PlayersStartClean == Spec => []PlaysFromKeyframe
<1>1. Inv => PlaysFromKeyframe
  <2> SUFFICES ASSUME Inv, worker = "idle"
               PROVE  \A c \in started \ dead : \E first \in 1 .. Len(units) :
                          units[first] = "key" /\ got[c] = first .. Len(units)
    BY DEF PlaysFromKeyframe
  <2>1. \A c \in Clients : Offered(c) = Len(units)
    BY DEF Inv, Phases, Offered
  <2>2. started \subseteq Clients
    BY DEF Inv, MuxersBelongToClients, TypeOK, ClientsTyped
  <2> QED
    BY <2>1, <2>2 DEF Inv, PlaysOffered
<1> QED
  BY <1>1, Invariance, PTL

(* Between two writes,
   a player for whom a keyframe has been written since its PLAY has  *)
(* started.                                                                              *)
THEOREM PlayersAreNotHeld == Spec => []HeldToNextKeyframe
<1>1. Inv => HeldToNextKeyframe
  <2> SUFFICES ASSUME Inv, worker = "idle"
               PROVE  \A c \in active \ dead :
                          (\E n \in played[c] + 1 .. Len(units) : units[n] = "key")
                              => c \in started
    BY DEF HeldToNextKeyframe
  <2>1. \A c \in Clients : Offered(c) = Len(units)
    BY DEF Inv, Phases, Offered
  <2>2. active \subseteq Clients
    BY DEF Inv, TypeOK, ClientsTyped
  <2> QED
    BY <2>1, <2>2 DEF Inv, HeldOffered
<1> QED
  BY <1>1, Invariance, PTL

(* A player that has left is sent no unit whose targets were collected after that. *)
THEOREM NothingSentAfterTeardown == Spec => []NothingAfterTeardown
<1>1. Inv => NothingAfterTeardown
  BY DEF Inv
<1> QED
  BY <1>1, Invariance, PTL
=============================================================================
