---------------------------- MODULE AgentProofs ----------------------------
(***************************************************************************)
(* Proofs about Agent for every value of its constants: its types, the     *)
(* state file and the tokens taken from it, the order of the lines on      *)
(* their way and the copies the backend stores, and the refinement of      *)
(* LogForwarding.                                                          *)
(***************************************************************************)
EXTENDS Agent, TLAPS, SequenceTheorems

MainLabels == {"off", "regload", "regread", "regclear", "regunlink", "register",
               "open", "write", "drain", "up"}
WorkerLabels == {"off", "regload", "regread", "regclear", "regunlink", "register",
                 "open", "write", "orphan", "idle", "load", "read", "post", "clear",
                 "unlink", "buffer", "dead"}

\* The worker threads, the queue and the open files exist exactly while the main
\* thread is in its loop; Drain relies on it to find no payload in hand.
Phases ==
  /\ pc["main"] \in MainLabels
  /\ \A t \in Workers : pc[t] \in WorkerLabels
  /\ \A t \in Workers : pc[t] = "off" <=> pc["main"] # "up"
  /\ pc["main"] # "up" => sendQueue = <<>> /\ pos = [f \in Files |-> Closed]

Typing == TypeOK /\ Phases

USE DEF Threads, Workers, Closed, Absent, Torn

----------------------------------------------------------------------------
(* Typing. *)

LEMMA LineCount == MaxLines \in Nat
  BY AgentConstants

LEMMA LineIsLog == \A f \in Files, n \in 1..MaxLines : [file |-> f, line |-> n] \in Logs
  BY AgentConstants

\* One more registration is one more index.
LEMMA IndicesGrow ==
  ASSUME NEW n \in Nat, NEW S, S \subseteq 1..n
  PROVE  S \cup {n + 1} \subseteq 1..(n + 1)
  OBVIOUS

\* The hand is a sequence like the two queues it moves payloads between.
LEMMA HandType == ProcessOK => hand \in Seq(Logs) /\ Range(hand) \subseteq Logs
<1> SUFFICES ASSUME ProcessOK PROVE hand \in Seq(Logs) /\ Range(hand) \subseteq Logs
  OBVIOUS
<1>1. hand = <<>> \/ \E l \in Logs : hand = <<l>>
  BY DEF ProcessOK
<1>2. CASE hand = <<>>
  BY <1>2 DEF Range
<1>3. ASSUME NEW l \in Logs, hand = <<l>> PROVE hand \in Seq(Logs) /\ Range(hand) \subseteq Logs
  BY <1>3 DEF Range
<1> QED
  BY <1>1, <1>2, <1>3

\* A process that is gone is well typed.
LEMMA ProcessEndsType == ASSUME Len(rows') \in Nat, ProcessEnds PROVE ProcessOK'
  BY LineCount DEF ProcessEnds, ProcessOK

\* A failed request leaves the process and the failed payloads well typed ...
LEMMA RequestFailsType ==
  ASSUME TypeOK, Len(rows') \in Nat, Len(rows') >= Len(rows), NEW t \in Threads,
         pc[t] \notin {"off", "idle", "dead"}, RequestFails(t)
  PROVE  ProcessOK' /\ failed' \subseteq Logs
<1>1. failed' \subseteq Logs
  BY HandType DEF RequestFails, SendFails, TypeOK
<1>2. CASE t = "main" /\ ProcessEnds
  BY <1>1, <1>2, ProcessEndsType
<1>3. CASE t \in Workers /\ ~(t = "main" /\ ProcessEnds)
  BY <1>1, <1>3 DEF RequestFails, Goto, TypeOK, ProcessOK, BackendOK
<1> QED
  BY <1>2, <1>3 DEF RequestFails

\* ... and so does an exception that ends a thread.
LEMMA RaiseType ==
  ASSUME TypeOK, rows' = rows, NEW t \in Threads, Raise(t)
  PROVE  ProcessOK' /\ failed' \subseteq Logs
<1>1. failed' \subseteq Logs
  BY HandType DEF Raise, SendFails, TypeOK
<1>2. CASE t = "main" /\ ProcessEnds
  BY <1>1, <1>2, ProcessEndsType DEF TypeOK, BackendOK
<1>3. CASE t \in Workers /\ ~(t = "main" /\ ProcessEnds)
  BY <1>1, <1>3 DEF Raise, Goto, TypeOK, ProcessOK, BackendOK
<1> QED
  BY <1>2, <1>3 DEF Raise

\* Most steps touch neither the disk nor the backend.
LEMMA UntouchedType ==
  ASSUME TypeOK, UNCHANGED <<cfg, stateFile, diskQueue, written, backend>>
  PROVE  DiskOK' /\ BackendOK' /\ rows' = rows /\ Len(rows') \in Nat
  BY DEF TypeOK, DiskOK, BackendOK, backend

LEMMA TypeStep == Typing /\ [Next]_vars => TypeOK'
<1> SUFFICES ASSUME Typing, [Next]_vars PROVE TypeOK'
  OBVIOUS
<1>a. TypeOK /\ Phases
  BY DEF Typing
<1>b. Len(rows) \in Nat
  BY <1>a DEF TypeOK, BackendOK
<1> USE <1>a, <1>b
<1>1. CASE Start
  <2>1. ProcessOK'
    BY <1>1 DEF Start, TypeOK, ProcessOK, Goto, process, backend
  <2> QED
    BY <1>1, <2>1, UntouchedType DEF Start, TypeOK, process, backend
<1>2. CASE Halt
  BY <1>2, ProcessEndsType, UntouchedType DEF Halt, TypeOK
<1>3. CASE Drain
  <2>1. hand = <<>>
    BY <1>3 DEF Drain, Phases, TypeOK, ProcessOK
  <2>2. ProcessOK'
    BY <1>3, <2>1 DEF Drain, LoadDiskQueue, TypeOK, DiskOK, ProcessOK, backend
  <2> QED
    BY <1>3, <2>2 DEF Drain, LoadDiskQueue, TypeOK, DiskOK, BackendOK, backend
<1>4. CASE Get
  <2>1. ProcessOK'
    BY <1>4 DEF Get, TypeOK, ProcessOK, Goto, process, backend
  <2> QED
    BY <1>4, <2>1, UntouchedType DEF Get, TypeOK, process, backend
<1>5. CASE PostAccepted
  <2>1. PICK l \in Range(hand) \ Blank :
          /\ stored' = [stored EXCEPT ![l] = @ + 1]
          /\ \/ lostAcks' = lostAcks
             \/ lostAcks' = [lostAcks EXCEPT ![l] = @ + 1]
    BY <1>5 DEF PostAccepted
  <2>2. l \in Logs
    BY HandType DEF TypeOK
  <2>3. BackendOK' /\ DiskOK'
    <3>1. stored' \in [Logs -> Nat] /\ lostAcks' \in [Logs -> Nat]
      BY <2>1, <2>2 DEF TypeOK, BackendOK
    <3>2. UNCHANGED <<cfg, stateFile, diskQueue, written, rows, valid>>
      BY <1>5 DEF PostAccepted
    <3> QED
      BY <3>1, <3>2 DEF TypeOK, BackendOK, DiskOK
  <2>4. rows' = rows /\ rejected' = rejected /\ pc["sender"] = "post"
    BY <1>5 DEF PostAccepted
  <2>5. CASE RequestFails("sender")
    BY <2>3, <2>4, <2>5, RequestFailsType DEF TypeOK
  <2>6. CASE ~RequestFails("sender")
    <3>1. ProcessOK'
      BY <1>5, <2>4, <2>6 DEF PostAccepted, TypeOK, ProcessOK, Goto
    <3> QED
      BY <1>5, <2>3, <2>4, <2>6, <3>1 DEF PostAccepted, TypeOK
  <2> QED
    BY <2>5, <2>6
<1>6. CASE Buffer
  <2>1. diskQueue \o hand \in Seq(Logs)
    BY HandType DEF TypeOK, DiskOK
  <2>2. ProcessOK'
    BY <1>6 DEF Buffer, AppendToDiskQueue, TypeOK, ProcessOK, Goto, backend
  <2> QED
    BY <1>6, <2>1, <2>2 DEF Buffer, AppendToDiskQueue, TypeOK, DiskOK, BackendOK, backend
<1>7. CASE Beat
  <2>1. ProcessOK'
    BY <1>7 DEF Beat, TypeOK, ProcessOK, Goto, process, backend
  <2> QED
    BY <1>7, <2>1, UntouchedType DEF Beat, TypeOK, process, backend
<1>8. CASE BeatAccepted
  <2>1. ProcessOK'
    BY <1>8 DEF BeatAccepted, TypeOK, ProcessOK, Goto, process, backend
  <2> QED
    BY <1>8, <2>1, UntouchedType DEF BeatAccepted, TypeOK, process, backend
<1>9. CASE Forget
  BY <1>9 DEF Forget, TypeOK, DiskOK, ProcessOK, BackendOK, process
<1>10. ASSUME NEW t \in Workers, LoadState(t) PROVE TypeOK'
  <2>1. UNCHANGED <<cfg, stateFile, diskQueue, written, backend>> /\ rejected' \subseteq Workers
    BY <1>10 DEF LoadState, TypeOK
  <2>2. CASE Raise(t)
    BY <1>10, <2>1, <2>2, UntouchedType, RaiseType DEF LoadState, TypeOK
  <2>3. CASE ~Raise(t)
    <3>1. ProcessOK'
      BY <1>10, <2>3 DEF LoadState, TypeOK, ProcessOK, Goto, process, backend
    <3> QED
      BY <1>10, <2>1, <2>3, <3>1, UntouchedType DEF LoadState, TypeOK
  <2> QED
    BY <2>2, <2>3
<1>11. ASSUME NEW t \in Workers, ReadState(t) PROVE TypeOK'
  <2>1. UNCHANGED <<cfg, stateFile, diskQueue, written, backend>> /\ rejected' \subseteq Workers
    BY <1>11 DEF ReadState, TypeOK
  <2>2. CASE Raise(t)
    BY <1>11, <2>1, <2>2, UntouchedType, RaiseType DEF ReadState, TypeOK
  <2>3. CASE ~Raise(t)
    <3>1. ProcessOK'
      BY <1>11, <2>3 DEF ReadState, Registered, DiskOK, TypeOK, ProcessOK, Goto, process, backend
    <3> QED
      BY <1>11, <2>1, <2>3, <3>1, UntouchedType DEF ReadState, TypeOK
  <2> QED
    BY <2>2, <2>3
<1>12. ASSUME NEW t \in Workers, PostRejected(t) PROVE TypeOK'
  <2>1. UNCHANGED <<cfg, stateFile, diskQueue, written, backend>> /\ rejected' \subseteq Workers
    BY <1>12 DEF PostRejected, TypeOK
  <2>2. CASE RequestFails(t)
    BY <1>12, <2>1, <2>2, UntouchedType, RequestFailsType DEF PostRejected, TypeOK
  <2>3. CASE ~RequestFails(t)
    <3>1. ProcessOK'
      BY <1>12, <2>3 DEF PostRejected, TypeOK, ProcessOK, Goto, process, backend
    <3> QED
      BY <1>12, <2>1, <2>3, <3>1, UntouchedType DEF PostRejected, TypeOK
  <2> QED
    BY <2>2, <2>3
<1>13. ASSUME NEW t \in Workers, PostFails(t) PROVE TypeOK'
  BY <1>13, UntouchedType, RequestFailsType DEF PostFails, TypeOK
<1>14. ASSUME NEW t \in Threads, ClearState(t) PROVE TypeOK'
  <2>1. ProcessOK'
    BY <1>14 DEF ClearState, AfterClear, TypeOK, ProcessOK, Goto, process, backend
  <2> QED
    BY <1>14, <2>1, UntouchedType DEF ClearState, TypeOK, process, backend
<1>15. ASSUME NEW t \in Threads, UnlinkState(t) PROVE TypeOK'
  <2>1. DiskOK' /\ BackendOK' /\ rows' = rows /\ rejected' = rejected
    BY <1>15 DEF UnlinkState, TypeOK, DiskOK, BackendOK, backend
  <2>2. CASE Raise(t)
    BY <2>1, <2>2, RaiseType DEF TypeOK
  <2>3. CASE ~Raise(t)
    <3>1. ProcessOK' /\ failed' = failed
      BY <1>15, <2>1, <2>3 DEF UnlinkState, AfterClear, TypeOK, ProcessOK
    <3> QED
      BY <2>1, <3>1 DEF TypeOK
  <2> QED
    BY <2>2, <2>3
<1>16. ASSUME NEW t \in Threads, RegLoad(t) PROVE TypeOK'
  <2>1. ProcessOK'
    BY <1>16 DEF RegLoad, TypeOK, ProcessOK, Goto, process, backend
  <2> QED
    BY <1>16, <2>1, UntouchedType DEF RegLoad, TypeOK, process, backend
<1>17. ASSUME NEW t \in Threads, RegRead(t) PROVE TypeOK'
  <2>1. UNCHANGED <<cfg, stateFile, diskQueue, written, backend>> /\ rejected' \subseteq Workers
    BY <1>17 DEF RegRead, TypeOK
  <2>2. CASE Raise(t)
    BY <1>17, <2>1, <2>2, UntouchedType, RaiseType DEF RegRead, TypeOK
  <2>3. CASE ~Raise(t)
    <3>1. ProcessOK'
      BY <1>17, <2>3 DEF RegRead, HasRegistration, TypeOK, ProcessOK, Goto, process, backend
    <3> QED
      BY <1>17, <2>1, <2>3, <3>1, UntouchedType DEF RegRead, TypeOK
  <2> QED
    BY <2>2, <2>3
<1>18. ASSUME NEW t \in Threads, Register(t) PROVE TypeOK'
  <2>1. \/ rows' = rows /\ valid' = valid
        \/ rows' = Append(rows, cfg) /\ valid' = valid \cup {Len(rows) + 1}
    BY <1>18 DEF Register
  <2>2. Len(rows') \in Nat /\ Len(rows') >= Len(rows) /\ BackendOK' /\ DiskOK'
    <3>1. rows' \in Seq(Configs) /\ Len(rows') >= Len(rows) /\ valid' \subseteq 1..Len(rows')
      <4>1. rows \in Seq(Configs) /\ cfg \in Configs /\ valid \subseteq 1..Len(rows)
        BY DEF TypeOK, BackendOK, DiskOK
      <4>2. CASE rows' = Append(rows, cfg) /\ valid' = valid \cup {Len(rows) + 1}
        <5>1. rows' \in Seq(Configs) /\ Len(rows') = Len(rows) + 1
          BY <4>1, <4>2
        <5>2. valid' = valid \cup {Len(rows) + 1}
          BY <4>2
        <5>3. valid' \subseteq 1..Len(rows')
          BY <4>1, <5>1, <5>2, IndicesGrow
        <5> QED
          BY <1>b, <5>1, <5>3
      <4>3. CASE rows' = rows /\ valid' = valid
        BY <1>b, <4>1, <4>3
      <4> QED
        BY <2>1, <4>2, <4>3
    <3>2. UNCHANGED <<cfg, stateFile, diskQueue, written, stored, lostAcks>>
      BY <1>18 DEF Register
    <3> QED
      BY <3>1, <3>2 DEF TypeOK, BackendOK, DiskOK
  <2>3. CASE RequestFails(t)
    BY <1>18, <2>2, <2>3, RequestFailsType DEF Register, TypeOK
  <2>4. CASE ~RequestFails(t)
    <3>1. ProcessOK'
      BY <1>18, <2>4 DEF Register, TypeOK, ProcessOK, BackendOK, Goto
    <3> QED
      BY <1>18, <2>2, <2>4, <3>1 DEF Register, TypeOK
  <2> QED
    BY <2>3, <2>4
<1>19. ASSUME NEW t \in Threads, OpenState(t) PROVE TypeOK'
  <2>1. ProcessOK'
    BY <1>19 DEF OpenState, TypeOK, ProcessOK, Goto, backend
  <2> QED
    BY <1>19, <2>1 DEF OpenState, TypeOK, DiskOK, BackendOK, backend
<1>20. ASSUME NEW t \in Threads, WriteState(t) PROVE TypeOK'
  <2>1. ProcessOK'
    BY <1>20 DEF WriteState, HasRegistration, TypeOK, ProcessOK, Goto, backend
  <2>2. stateFile' \in {Torn, Absent} \cup 1..Len(rows)
    BY <1>20 DEF WriteState, Flushed, TypeOK, DiskOK, ProcessOK
  <2> QED
    BY <1>20, <2>1, <2>2 DEF WriteState, TypeOK, DiskOK, BackendOK, backend
<1>21. ASSUME NEW f \in Files, OpenLog(f) PROVE TypeOK'
  <2>1. ProcessOK'
    BY <1>21, LineCount DEF OpenLog, DiskOK, TypeOK, ProcessOK, Goto, process, backend
  <2> QED
    BY <1>21, <2>1, UntouchedType DEF OpenLog, TypeOK, process, backend
<1>22. ASSUME NEW f \in Files, Detect(f) PROVE TypeOK'
  <2>1. pos[f] + 1 \in 1..MaxLines
    BY <1>22, LineCount DEF Detect, TypeOK, DiskOK, ProcessOK
  <2>2. [file |-> f, line |-> pos[f] + 1] \in Logs
    BY <2>1, LineIsLog
  <2>3. ProcessOK'
    BY <1>22, <2>1, <2>2 DEF Detect, TypeOK, ProcessOK, backend
  <2> QED
    BY <1>22, <2>3, UntouchedType DEF Detect, TypeOK
<1>23. ASSUME NEW f \in Files, AppWrites(f) PROVE TypeOK'
  BY <1>23, LineCount DEF AppWrites, TypeOK, DiskOK, ProcessOK, BackendOK, process, backend
<1>24. ASSUME NEW c \in Configs, Reconfigure(c) PROVE TypeOK'
  BY <1>24 DEF Reconfigure, TypeOK, DiskOK, ProcessOK, BackendOK, process, backend
<1>25. CASE UNCHANGED vars
  BY <1>25 DEF vars, TypeOK, DiskOK, ProcessOK, BackendOK, process, backend
<1> QED
  BY <1>1, <1>2, <1>3, <1>4, <1>5, <1>6, <1>7, <1>8, <1>9, <1>10, <1>11, <1>12,
     <1>13, <1>14, <1>15, <1>16, <1>17, <1>18, <1>19, <1>20, <1>21, <1>22, <1>23,
     <1>24, <1>25
     DEF Next, SenderStep, BeaterStep, Request, Registration, Follow

LEMMA PhasesStep == Typing /\ [Next]_vars => Phases'
<1> SUFFICES ASSUME Typing, [Next]_vars PROVE Phases'
  OBVIOUS
<1>a. Phases /\ pc \in [Threads -> MainLabels \cup WorkerLabels]
  BY DEF Typing, TypeOK, ProcessOK, MainLabels, WorkerLabels
<1> USE <1>a DEF Phases, MainLabels, WorkerLabels, Goto, process, backend
<1>1. CASE Start
  BY <1>1 DEF Start
<1>2. CASE Halt
  BY <1>2 DEF Halt, ProcessEnds
<1>3. CASE Drain
  BY <1>3 DEF Drain, LoadDiskQueue
<1>4. CASE Get
  BY <1>4 DEF Get
<1>5. CASE PostAccepted
  BY <1>5 DEF PostAccepted, RequestFails
<1>6. CASE Buffer
  BY <1>6 DEF Buffer, AppendToDiskQueue
<1>7. CASE Beat
  BY <1>7 DEF Beat
<1>8. CASE BeatAccepted
  BY <1>8 DEF BeatAccepted
<1>9. CASE Forget
  BY <1>9 DEF Forget
<1>10. ASSUME NEW t \in Workers, LoadState(t) PROVE Phases'
  BY <1>10 DEF LoadState, Raise
<1>11. ASSUME NEW t \in Workers, ReadState(t) PROVE Phases'
  BY <1>11 DEF ReadState, Raise, Registered
<1>12. ASSUME NEW t \in Workers, PostRejected(t) PROVE Phases'
  BY <1>12 DEF PostRejected, RequestFails
<1>13. ASSUME NEW t \in Workers, PostFails(t) PROVE Phases'
  BY <1>13 DEF PostFails, RequestFails
<1>14. ASSUME NEW t \in Threads, ClearState(t) PROVE Phases'
  BY <1>14 DEF ClearState, AfterClear
<1>15. ASSUME NEW t \in Threads, UnlinkState(t) PROVE Phases'
  BY <1>15 DEF UnlinkState, AfterClear, Raise, ProcessEnds
<1>16. ASSUME NEW t \in Threads, RegLoad(t) PROVE Phases'
  BY <1>16 DEF RegLoad
<1>17. ASSUME NEW t \in Threads, RegRead(t) PROVE Phases'
  BY <1>17 DEF RegRead, Raise, ProcessEnds, HasRegistration
<1>18. ASSUME NEW t \in Threads, Register(t) PROVE Phases'
  BY <1>18 DEF Register, RequestFails, ProcessEnds
<1>19. ASSUME NEW t \in Threads, OpenState(t) PROVE Phases'
  BY <1>19 DEF OpenState
<1>20. ASSUME NEW t \in Threads, WriteState(t) PROVE Phases'
  BY <1>20 DEF WriteState, HasRegistration, Flushed
<1>21. ASSUME NEW f \in Files, OpenLog(f) PROVE Phases'
  BY <1>21 DEF OpenLog
<1>22. ASSUME NEW f \in Files, Detect(f) PROVE Phases'
  BY <1>22 DEF Detect
<1>23. ASSUME NEW f \in Files, AppWrites(f) PROVE Phases'
  BY <1>23 DEF AppWrites
<1>24. ASSUME NEW c \in Configs, Reconfigure(c) PROVE Phases'
  BY <1>24 DEF Reconfigure
<1>25. CASE UNCHANGED vars
  BY <1>25 DEF vars
<1> QED
  BY <1>1, <1>2, <1>3, <1>4, <1>5, <1>6, <1>7, <1>8, <1>9, <1>10, <1>11, <1>12,
     <1>13, <1>14, <1>15, <1>16, <1>17, <1>18, <1>19, <1>20, <1>21, <1>22, <1>23,
     <1>24, <1>25
     DEF Next, SenderStep, BeaterStep, Request, Registration, Follow

\* The type invariant of agent.py's state: every variable keeps its type, and a
\* payload is in the sender's hand exactly while it handles one.
THEOREM TypeCorrect == Spec => []TypeOK
<1>1. Init => Typing
  BY LineCount DEF Init, Typing, TypeOK, DiskOK, ProcessOK, BackendOK, Phases,
     MainLabels, WorkerLabels
<1>2. Typing /\ [Next]_vars => Typing'
  BY TypeStep, PhasesStep DEF Typing
<1> QED
  BY <1>1, <1>2, PTL DEF Spec, Typing

----------------------------------------------------------------------------
(* agent_state.json and the tokens taken from it. *)

\* Once register_agent has returned in start_agent, the file holds no registration
\* of another configuration, and no thread takes or writes such a token.
Registrations ==
  /\ pc["main"] \in {"drain", "up"} /\ Registered => rows[stateFile] = cfg
  /\ \A t \in Threads : pc[t] \in {"post", "open", "write", "orphan"}
       => token[t] \in 1..Len(rows) /\ rows[token[t]] = cfg

\* Until the backend rejects a token, the file holds a registration and no worker
\* leaves the round of requests that finds it there.
Healthy ==
  /\ pc["main"] = "drain" => Registered
  /\ pc["main"] = "up" /\ rejected = {} =>
       Registered /\ \A t \in Workers : pc[t] \in {"idle", "load", "read", "post", "buffer"}

StateInv == Typing /\ Registrations /\ Healthy /\ TornStateHasWriter

LEMMA RegistrationsStep == StateInv /\ [Next]_vars => Registrations'
<1> SUFFICES ASSUME StateInv, [Next]_vars PROVE Registrations'
  OBVIOUS
<1>a. Typing /\ Registrations /\ Healthy /\ TornStateHasWriter
  BY DEF StateInv
<1>b. /\ Len(rows) \in Nat /\ rows \in Seq(Configs)
      /\ pc \in [Threads -> MainLabels \cup WorkerLabels]
      /\ token \in [Threads -> 0..Len(rows)]
      /\ stateFile \in {Torn, Absent} \cup 1..Len(rows)
  BY <1>a DEF Typing, TypeOK, DiskOK, ProcessOK, BackendOK, MainLabels, WorkerLabels
<1>c. Phases
  BY <1>a DEF Typing
<1> USE <1>a, <1>b, <1>c DEF Registrations, Registered, Phases, Goto, process, backend
<1>1. CASE Start
  BY <1>1 DEF Start
<1>2. CASE Halt
  BY <1>2 DEF Halt, ProcessEnds
<1>3. CASE Drain
  BY <1>3 DEF Drain
<1>4. CASE Get
  BY <1>4 DEF Get
<1>5. CASE PostAccepted
  BY <1>5 DEF PostAccepted, RequestFails
<1>6. CASE Buffer
  BY <1>6 DEF Buffer
<1>7. CASE Beat
  BY <1>7 DEF Beat
<1>8. CASE BeatAccepted
  BY <1>8 DEF BeatAccepted
<1>9. CASE Forget
  BY <1>9 DEF Forget
<1>10. ASSUME NEW t \in Workers, LoadState(t) PROVE Registrations'
  BY <1>10 DEF LoadState, Raise, NoState
<1>11. ASSUME NEW t \in Workers, ReadState(t) PROVE Registrations'
  BY <1>11 DEF ReadState, Raise, Registered
<1>12. ASSUME NEW t \in Workers, PostRejected(t) PROVE Registrations'
  BY <1>12 DEF PostRejected, RequestFails
<1>13. ASSUME NEW t \in Workers, PostFails(t) PROVE Registrations'
  BY <1>13 DEF PostFails, RequestFails
<1>14. ASSUME NEW t \in Threads, ClearState(t) PROVE Registrations'
  BY <1>14 DEF ClearState, AfterClear
<1>15. ASSUME NEW t \in Threads, UnlinkState(t) PROVE Registrations'
  BY <1>15 DEF UnlinkState, AfterClear, Raise, ProcessEnds
<1>16. ASSUME NEW t \in Threads, RegLoad(t) PROVE Registrations'
  BY <1>16 DEF RegLoad
<1>17. ASSUME NEW t \in Threads, RegRead(t) PROVE Registrations'
  BY <1>17 DEF RegRead, Raise, ProcessEnds, HasRegistration, StateMatchesConfig
<1>18. ASSUME NEW t \in Threads, Register(t) PROVE Registrations'
  <2>1. UNCHANGED <<cfg, stateFile>>
    BY <1>18 DEF Register
  <2>2. \/ rows' = rows
        \/ rows' = Append(rows, cfg)
    BY <1>18 DEF Register
  <2>3. cfg \in Configs
    BY <1>a DEF Typing, TypeOK, DiskOK
  <2>4. /\ Len(rows) <= Len(rows') /\ Len(rows') \in Nat
        /\ \A k \in 1..Len(rows) : rows'[k] = rows[k]
    BY <2>2, <2>3
  <2>5. CASE RequestFails(t)
    BY <1>18, <2>1, <2>4, <2>5 DEF Register, RequestFails, ProcessEnds
  <2>6. CASE ~RequestFails(t)
    <3>1. rows' = Append(rows, cfg) /\ token' = [token EXCEPT ![t] = Len(rows) + 1]
            /\ pc' = [pc EXCEPT ![t] = "open"]
      BY <1>18, <2>6 DEF Register
    <3>2. rows'[Len(rows) + 1] = cfg /\ Len(rows) + 1 \in 1..Len(rows')
      BY <2>3, <3>1
    <3>3. \A u \in Threads : pc'[u] \in {"post", "open", "write", "orphan"}
            => token'[u] \in 1..Len(rows') /\ rows'[token'[u]] = cfg'
      BY <2>1, <2>4, <3>1, <3>2
    <3>4. pc'["main"] \in {"drain", "up"} /\ Registered' => rows'[stateFile'] = cfg'
      BY <2>1, <2>4, <3>1
    <3> QED
      BY <3>3, <3>4
  <2> QED
    BY <2>5, <2>6
<1>19. ASSUME NEW t \in Threads, OpenState(t) PROVE Registrations'
  BY <1>19 DEF OpenState
<1>20. ASSUME NEW t \in Threads, WriteState(t) PROVE Registrations'
  <2>1. token[t] \in 1..Len(rows) /\ rows[token[t]] = cfg
    BY <1>20 DEF WriteState
  <2>2. /\ rows' = rows /\ cfg' = cfg
        /\ pc' = [pc EXCEPT ![t] = IF t = "main" THEN "drain" ELSE "load"]
        /\ token' = [token EXCEPT ![t] = Absent]
        /\ stateFile' = IF pc[t] = "write" THEN token[t] ELSE stateFile
    BY <1>20 DEF WriteState, HasRegistration, Flushed
  <2>3. pc[t] = "orphan" => t # "main" /\ pc["main"] = "up"
    BY DEF MainLabels
  <2>4. pc'["main"] \in {"drain", "up"} /\ Registered' => rows'[stateFile'] = cfg'
    BY <1>20, <2>1, <2>2, <2>3 DEF WriteState
  <2>5. \A u \in Threads : pc'[u] \in {"post", "open", "write", "orphan"}
          => token'[u] \in 1..Len(rows') /\ rows'[token'[u]] = cfg'
    BY <2>2
  <2> QED
    BY <2>4, <2>5
<1>21. ASSUME NEW f \in Files, OpenLog(f) PROVE Registrations'
  BY <1>21 DEF OpenLog
<1>22. ASSUME NEW f \in Files, Detect(f) PROVE Registrations'
  BY <1>22 DEF Detect
<1>23. ASSUME NEW f \in Files, AppWrites(f) PROVE Registrations'
  BY <1>23 DEF AppWrites
<1>24. ASSUME NEW c \in Configs, Reconfigure(c) PROVE Registrations'
  BY <1>24 DEF Reconfigure
<1>25. CASE UNCHANGED vars
  BY <1>25 DEF vars
<1> QED
  BY <1>1, <1>2, <1>3, <1>4, <1>5, <1>6, <1>7, <1>8, <1>9, <1>10, <1>11, <1>12,
     <1>13, <1>14, <1>15, <1>16, <1>17, <1>18, <1>19, <1>20, <1>21, <1>22, <1>23,
     <1>24, <1>25
     DEF Next, SenderStep, BeaterStep, Request, Registration, Follow

LEMMA HealthyStep == StateInv /\ [Next]_vars => Healthy'
<1> SUFFICES ASSUME StateInv, [Next]_vars PROVE Healthy'
  OBVIOUS
<1>a. Typing /\ Registrations /\ Healthy /\ TornStateHasWriter
  BY DEF StateInv
<1>b. /\ Len(rows) \in Nat /\ rows \in Seq(Configs)
      /\ pc \in [Threads -> MainLabels \cup WorkerLabels]
      /\ token \in [Threads -> 0..Len(rows)]
      /\ stateFile \in {Torn, Absent} \cup 1..Len(rows)
  BY <1>a DEF Typing, TypeOK, DiskOK, ProcessOK, BackendOK, MainLabels, WorkerLabels
<1>c. Phases
  BY <1>a DEF Typing
<1> USE <1>a, <1>b, <1>c DEF Healthy, Registrations, Registered, Phases, Goto, process, backend
<1>1. CASE Start
  BY <1>1 DEF Start
<1>2. CASE Halt
  BY <1>2 DEF Halt, ProcessEnds
<1>3. CASE Drain
  BY <1>3 DEF Drain
<1>4. CASE Get
  BY <1>4 DEF Get
<1>5. CASE PostAccepted
  BY <1>5 DEF PostAccepted, RequestFails
<1>6. CASE Buffer
  BY <1>6 DEF Buffer
<1>7. CASE Beat
  BY <1>7 DEF Beat
<1>8. CASE BeatAccepted
  BY <1>8 DEF BeatAccepted
<1>9. CASE Forget
  BY <1>9 DEF Forget
<1>10. ASSUME NEW t \in Workers, LoadState(t) PROVE Healthy'
  BY <1>10 DEF LoadState, Raise, NoState
<1>11. ASSUME NEW t \in Workers, ReadState(t) PROVE Healthy'
  BY <1>11 DEF ReadState, Raise, Registered
<1>12. ASSUME NEW t \in Workers, PostRejected(t) PROVE Healthy'
  BY <1>12 DEF PostRejected, RequestFails
<1>13. ASSUME NEW t \in Workers, PostFails(t) PROVE Healthy'
  BY <1>13 DEF PostFails, RequestFails
<1>14. ASSUME NEW t \in Threads, ClearState(t) PROVE Healthy'
  BY <1>14 DEF ClearState, AfterClear
<1>15. ASSUME NEW t \in Threads, UnlinkState(t) PROVE Healthy'
  BY <1>15 DEF UnlinkState, AfterClear, Raise, ProcessEnds
<1>16. ASSUME NEW t \in Threads, RegLoad(t) PROVE Healthy'
  BY <1>16 DEF RegLoad, NoState
<1>17. ASSUME NEW t \in Threads, RegRead(t) PROVE Healthy'
  BY <1>17 DEF RegRead, Raise, ProcessEnds, HasRegistration
<1>18. ASSUME NEW t \in Threads, Register(t) PROVE Healthy'
  BY <1>18 DEF Register, RequestFails, ProcessEnds
<1>19. ASSUME NEW t \in Threads, OpenState(t) PROVE Healthy'
  BY <1>19 DEF OpenState
<1>20. ASSUME NEW t \in Threads, WriteState(t) PROVE Healthy'
  <2>1. token[t] > 0
    BY <1>20 DEF WriteState
  <2>2. CASE t = "main"
    BY <1>20, <2>1, <2>2 DEF WriteState, HasRegistration, Flushed, MainLabels
  <2>3. CASE t # "main"
    BY <1>20, <2>1, <2>3 DEF WriteState, HasRegistration, Flushed
  <2> QED
    BY <2>2, <2>3
<1>21. ASSUME NEW f \in Files, OpenLog(f) PROVE Healthy'
  BY <1>21 DEF OpenLog
<1>22. ASSUME NEW f \in Files, Detect(f) PROVE Healthy'
  BY <1>22 DEF Detect
<1>23. ASSUME NEW f \in Files, AppWrites(f) PROVE Healthy'
  BY <1>23 DEF AppWrites
<1>24. ASSUME NEW c \in Configs, Reconfigure(c) PROVE Healthy'
  BY <1>24 DEF Reconfigure
<1>25. CASE UNCHANGED vars
  BY <1>25 DEF vars
<1> QED
  BY <1>1, <1>2, <1>3, <1>4, <1>5, <1>6, <1>7, <1>8, <1>9, <1>10, <1>11, <1>12,
     <1>13, <1>14, <1>15, <1>16, <1>17, <1>18, <1>19, <1>20, <1>21, <1>22, <1>23,
     <1>24, <1>25
     DEF Next, SenderStep, BeaterStep, Request, Registration, Follow

LEMMA TornStep == StateInv /\ [Next]_vars => TornStateHasWriter'
<1> SUFFICES ASSUME StateInv, [Next]_vars PROVE TornStateHasWriter'
  OBVIOUS
<1>a. Typing /\ Registrations /\ Healthy /\ TornStateHasWriter
  BY DEF StateInv
<1>b. /\ Len(rows) \in Nat /\ rows \in Seq(Configs)
      /\ pc \in [Threads -> MainLabels \cup WorkerLabels]
      /\ token \in [Threads -> 0..Len(rows)]
      /\ stateFile \in {Torn, Absent} \cup 1..Len(rows)
  BY <1>a DEF Typing, TypeOK, DiskOK, ProcessOK, BackendOK, MainLabels, WorkerLabels
<1>c. Phases
  BY <1>a DEF Typing
<1> USE <1>a, <1>b, <1>c DEF TornStateHasWriter, Healthy, Registrations, Registered, Phases, Goto, process, backend
<1>1. CASE Start
  BY <1>1 DEF Start
<1>2. CASE Halt
  BY <1>2 DEF Halt, ProcessEnds
<1>3. CASE Drain
  BY <1>3 DEF Drain
<1>4. CASE Get
  BY <1>4 DEF Get
<1>5. CASE PostAccepted
  BY <1>5 DEF PostAccepted, RequestFails
<1>6. CASE Buffer
  BY <1>6 DEF Buffer
<1>7. CASE Beat
  BY <1>7 DEF Beat
<1>8. CASE BeatAccepted
  BY <1>8 DEF BeatAccepted
<1>9. CASE Forget
  BY <1>9 DEF Forget
<1>10. ASSUME NEW t \in Workers, LoadState(t) PROVE TornStateHasWriter'
  BY <1>10 DEF LoadState, Raise, NoState
<1>11. ASSUME NEW t \in Workers, ReadState(t) PROVE TornStateHasWriter'
  BY <1>11 DEF ReadState, Raise, Registered
<1>12. ASSUME NEW t \in Workers, PostRejected(t) PROVE TornStateHasWriter'
  BY <1>12 DEF PostRejected, RequestFails
<1>13. ASSUME NEW t \in Workers, PostFails(t) PROVE TornStateHasWriter'
  BY <1>13 DEF PostFails, RequestFails
<1>14. ASSUME NEW t \in Threads, ClearState(t) PROVE TornStateHasWriter'
  BY <1>14 DEF ClearState, AfterClear
<1>15. ASSUME NEW t \in Threads, UnlinkState(t) PROVE TornStateHasWriter'
  BY <1>15 DEF UnlinkState, AfterClear, Raise, ProcessEnds
<1>16. ASSUME NEW t \in Threads, RegLoad(t) PROVE TornStateHasWriter'
  BY <1>16 DEF RegLoad, NoState
<1>17. ASSUME NEW t \in Threads, RegRead(t) PROVE TornStateHasWriter'
  BY <1>17 DEF RegRead, Raise, ProcessEnds, HasRegistration
<1>18. ASSUME NEW t \in Threads, Register(t) PROVE TornStateHasWriter'
  BY <1>18 DEF Register, RequestFails, ProcessEnds
<1>19. ASSUME NEW t \in Threads, OpenState(t) PROVE TornStateHasWriter'
  BY <1>19 DEF OpenState
<1>20. ASSUME NEW t \in Threads, WriteState(t) PROVE TornStateHasWriter'
  BY <1>20 DEF WriteState, HasRegistration, Flushed
<1>21. ASSUME NEW f \in Files, OpenLog(f) PROVE TornStateHasWriter'
  BY <1>21 DEF OpenLog
<1>22. ASSUME NEW f \in Files, Detect(f) PROVE TornStateHasWriter'
  BY <1>22 DEF Detect
<1>23. ASSUME NEW f \in Files, AppWrites(f) PROVE TornStateHasWriter'
  BY <1>23 DEF AppWrites
<1>24. ASSUME NEW c \in Configs, Reconfigure(c) PROVE TornStateHasWriter'
  BY <1>24 DEF Reconfigure
<1>25. CASE UNCHANGED vars
  BY <1>25 DEF vars
<1> QED
  BY <1>1, <1>2, <1>3, <1>4, <1>5, <1>6, <1>7, <1>8, <1>9, <1>10, <1>11, <1>12,
     <1>13, <1>14, <1>15, <1>16, <1>17, <1>18, <1>19, <1>20, <1>21, <1>22, <1>23,
     <1>24, <1>25
     DEF Next, SenderStep, BeaterStep, Request, Registration, Follow

LEMMA StateInvariant == Spec => []StateInv
<1>1. Init => StateInv
  BY LineCount DEF Init, StateInv, Typing, TypeOK, DiskOK, ProcessOK, BackendOK, Phases,
     MainLabels, WorkerLabels, Registrations, Healthy, TornStateHasWriter, Registered
<1>2. StateInv /\ [Next]_vars => StateInv'
  BY TypeStep, PhasesStep, RegistrationsStep, HealthyStep, TornStep DEF StateInv, Typing
<1> QED
  BY <1>1, <1>2, PTL DEF Spec

\* A request carries no token issued under another configuration than the one
\* the process runs with: register_agent discards what it finds of an old one.
THEOREM ConfigSafe == Spec => []TokenOfRunningConfig
<1>1. StateInv => TokenOfRunningConfig
  BY DEF StateInv, Registrations, TokenOfRunningConfig
<1> QED
  BY <1>1, StateInvariant, PTL

\* Timeouts, refused connections and error answers alone never end the sender or
\* the heartbeat thread.
THEOREM DeathNeedsRejection == Spec => []NoDeathWithoutRejection
<1>1. StateInv => NoDeathWithoutRejection
  BY DEF StateInv, Typing, Phases, Healthy, NoDeathWithoutRejection
<1> QED
  BY <1>1, StateInvariant, PTL

\* While the agent runs, an empty agent_state.json is one a thread is writing.
THEOREM TornIsBeingWritten == Spec => []TornStateHasWriter
<1>1. StateInv => TornStateHasWriter
  BY DEF StateInv
<1> QED
  BY <1>1, StateInvariant, PTL

\* An empty agent_state.json found by start_agent stays empty, start after start.
THEOREM TornIsPermanent == Spec => TornStateIsPermanent
<1> DEFINE Blocked == pc["main"] \in {"off", "regload", "regread"} /\ stateFile = Torn
           Step == Blocked => stateFile' = Torn /\ pc'["main"] \in {"off", "regload", "regread"}
<1>1. StateInv /\ [Next]_vars => Step
  <2> SUFFICES ASSUME StateInv, [Next]_vars, Blocked
               PROVE  stateFile' = Torn /\ pc'["main"] \in {"off", "regload", "regread"}
    OBVIOUS
  <2>1. pc \in [Threads -> MainLabels \cup WorkerLabels]
    BY DEF StateInv, Typing, TypeOK, ProcessOK, MainLabels, WorkerLabels
  <2>2. \A t \in Workers : pc[t] = "off"
    BY DEF StateInv, Typing, Phases
  <2>3. ~(\E t \in Workers : Request(t) \/ Registration(t)) /\ ~SenderStep /\ ~BeaterStep
    BY <2>2 DEF Request, LoadState, ReadState, PostRejected, PostFails, Registration,
       ClearState, UnlinkState, RegLoad, RegRead, Register, OpenState, WriteState,
       SenderStep, Get, PostAccepted, Buffer, BeaterStep, Beat, BeatAccepted
  <2>4. CASE Start \/ Halt \/ Drain
    BY <2>1, <2>4 DEF Start, Halt, Drain, ProcessEnds, Goto
  <2>5. CASE Registration("main")
    BY <2>1, <2>5 DEF Registration, ClearState, UnlinkState, RegLoad, RegRead, Register,
       OpenState, WriteState, NoState, Registered, Raise, ProcessEnds, Goto
  <2>6. CASE \E f \in Files : Follow(f) \/ AppWrites(f)
    BY <2>6 DEF Follow, OpenLog, Detect, AppWrites, process
  <2>7. CASE Forget \/ \E c \in Configs : Reconfigure(c)
    BY <2>7 DEF Forget, Reconfigure, process
  <2>8. CASE UNCHANGED vars
    BY <2>8 DEF vars, process
  <2> QED
    BY <2>3, <2>4, <2>5, <2>6, <2>7, <2>8 DEF Next
<1> QED
  BY <1>1, StateInvariant, PTL DEF Spec, TornStateIsPermanent

----------------------------------------------------------------------------
(* Sequences of lines. *)

\* What precedes a part of an ordered sequence is ordered.
LEMMA PrefixInOrder ==
  ASSUME NEW s \in Seq(Logs), NEW u \in Seq(Logs), InOrder(s \o u)
  PROVE  InOrder(s)
<1> SUFFICES ASSUME NEW i \in DOMAIN s, NEW j \in DOMAIN s, i < j, s[i].file = s[j].file
             PROVE  s[i].line < s[j].line
  BY DEF InOrder
<1>1. (s \o u)[i] = s[i] /\ (s \o u)[j] = s[j]
  BY ConcatProperties
<1>2. i \in DOMAIN (s \o u) /\ j \in DOMAIN (s \o u)
  BY ConcatProperties
<1> QED
  BY <1>1, <1>2 DEF InOrder

\* Taking the middle element out leaves the rest ordered and without that line.
LEMMA MiddleRemoved ==
  ASSUME NEW s \in Seq(Logs), NEW l \in Logs, NEW u \in Seq(Logs),
         InOrder(s \o <<l>> \o u)
  PROVE  InOrder(s \o u) /\ l \notin Range(s \o u)
<1> DEFINE w == s \o <<l>> \o u
           v == s \o u
           at(i) == IF i <= Len(s) THEN i ELSE i + 1
<1>1. w \in Seq(Logs) /\ Len(w) = Len(s) + 1 + Len(u)
  BY ConcatProperties
<1>2. v \in Seq(Logs) /\ Len(v) = Len(s) + Len(u)
  BY ConcatProperties
<1>3. w[Len(s) + 1] = l
  BY ConcatProperties
<1>4. \A i \in DOMAIN v : at(i) \in DOMAIN w /\ v[i] = w[at(i)]
  BY <1>1, <1>2, ConcatProperties
<1>5. \A i, j \in DOMAIN v : i < j => at(i) < at(j)
  BY <1>2
<1>6. \A i \in DOMAIN v : at(i) # Len(s) + 1
  BY <1>2
<1>7. Len(s) + 1 \in DOMAIN w /\ DOMAIN w \subseteq Int
  BY <1>1
<1>8. InOrder(w) /\ \A k \in Logs : k.line \in Int
  BY AgentConstants
<1> HIDE DEF w, at
<1>9. InOrder(v)
  <2> HIDE DEF v
  <2> QED
    BY <1>4, <1>5, <1>8 DEF InOrder
<1>10. l \notin Range(v)
  <2> HIDE DEF v
  <2> SUFFICES ASSUME NEW i \in DOMAIN v, v[i] = l PROVE FALSE
    BY DEF Range
  <2>1. at(i) \in DOMAIN w /\ w[at(i)] = l /\ at(i) # Len(s) + 1
    BY <1>4, <1>6
  <2>2. at(i) < Len(s) + 1 => l.line < l.line
    BY <1>3, <1>7, <1>8, <2>1 DEF InOrder
  <2>3. Len(s) + 1 < at(i) => l.line < l.line
    BY <1>3, <1>7, <1>8, <2>1 DEF InOrder
  <2> QED
    BY <1>7, <1>8, <2>1, <2>2, <2>3
<1> QED
  BY <1>9, <1>10

\* A line above every line of its file goes to the end.
LEMMA AppendInOrder ==
  ASSUME NEW s \in Seq(Logs), NEW l \in Logs, InOrder(s),
         \A i \in DOMAIN s : s[i].file = l.file => s[i].line < l.line
  PROVE  InOrder(Append(s, l))
  BY DEF InOrder

\* The queue without its head, behind that head, is the queue.
LEMMA HeadBack ==
  ASSUME NEW s \in Seq(Logs), NEW q \in Seq(Logs), q # <<>>
  PROVE  s \o <<Head(q)>> \o Tail(q) = s \o <<>> \o q
<1>1. Head(q) \in Logs /\ Tail(q) \in Seq(Logs)
  BY HeadTailProperties
<1>2. <<Head(q)>> \o Tail(q) = q
  BY <1>1, HeadTailProperties
<1>3. (s \o <<Head(q)>>) \o Tail(q) = s \o (<<Head(q)>> \o Tail(q))
  BY <1>1, ConcatAssociative
<1> QED
  BY <1>2, <1>3, ConcatEmptySeq

\* The range of two and of three sequences put together.
LEMMA RangeOfParts ==
  ASSUME NEW s \in Seq(Logs), NEW m \in Seq(Logs), NEW u \in Seq(Logs)
  PROVE  /\ Range(s \o m) = Range(s) \cup Range(m)
         /\ Range(s \o m \o u) = Range(s) \cup Range(m) \cup Range(u)
<1>1. s \o m \in Seq(Logs)
  BY ConcatProperties
<1>2. Range(s \o m) = Range(s) \cup Range(m)
  BY RangeConcatenation
<1>3. Range((s \o m) \o u) = Range(s \o m) \cup Range(u)
  BY <1>1, RangeConcatenation
<1> QED
  BY <1>2, <1>3

----------------------------------------------------------------------------
(* The pipeline: diskQueue, hand and sendQueue, one behind the other. *)

WasRead(l) ==
  l.line <= written[l.file] /\ (pos[l.file] # Closed => l.line <= pos[l.file])

\* Lines not read yet are neither in the pipeline nor stored, and a line in the
\* pipeline was stored only by requests whose answers were lost.
Tracked ==
  /\ InOrder(Pipeline)
  /\ \A l \in Range(Pipeline) : WasRead(l) /\ stored[l] <= lostAcks[l]
  /\ \A l \in Logs : stored[l] > 0 => WasRead(l)
  /\ \A l \in Logs : stored[l] <= 1 + lostAcks[l]

PosBound == \A f \in Files : pos[f] <= written[f]

PipelineInv == Typing /\ PosBound /\ (~FromStart => Tracked)

\* The payloads of the pipeline are kept in order, or some of them are dropped.
Shrinks == InOrder(Pipeline') /\ Range(Pipeline') \subseteq Range(Pipeline)

LEMMA PipelineType ==
  ASSUME TypeOK
  PROVE  /\ diskQueue \in Seq(Logs) /\ hand \in Seq(Logs) /\ sendQueue \in Seq(Logs)
         /\ diskQueue \o hand \in Seq(Logs) /\ Pipeline \in Seq(Logs)
         /\ Range(Pipeline) \subseteq Logs
<1>1. diskQueue \in Seq(Logs) /\ hand \in Seq(Logs) /\ sendQueue \in Seq(Logs)
  BY HandType DEF TypeOK, DiskOK, ProcessOK
<1>2. diskQueue \o hand \in Seq(Logs) /\ Pipeline \in Seq(Logs)
  BY <1>1, ConcatProperties DEF Pipeline
<1>3. \A s \in Seq(Logs) : Range(s) \subseteq Logs
  BY DEF Range
<1> QED
  BY <1>1, <1>2, <1>3

LEMMA LogFields == \A l \in Logs : l.file \in Files /\ l.line \in 1..MaxLines
  BY AgentConstants

\* The process ends: the buffer is what is left of the pipeline.
LEMMA EndShrinks ==
  ASSUME TypeOK, InOrder(Pipeline), ProcessEnds, diskQueue' = diskQueue
  PROVE  Shrinks
<1>1. diskQueue \in Seq(Logs) /\ hand \o sendQueue \in Seq(Logs)
  BY PipelineType, ConcatProperties
<1>2. Pipeline = diskQueue \o (hand \o sendQueue)
  BY PipelineType, ConcatAssociative DEF Pipeline
<1>3. Pipeline' = diskQueue
  BY <1>1, ConcatEmptySeq DEF Pipeline, ProcessEnds
<1>4. InOrder(diskQueue)
  BY <1>1, <1>2, PrefixInOrder
<1>5. Range(diskQueue) \subseteq Range(Pipeline)
  BY PipelineType, RangeOfParts DEF Pipeline
<1> QED
  BY <1>3, <1>4, <1>5 DEF Shrinks

\* The payload in hand is dropped: no other copy of it is in the pipeline.
LEMMA HandDropped ==
  ASSUME TypeOK, InOrder(Pipeline), hand' = <<>>, UNCHANGED <<diskQueue, sendQueue>>
  PROVE  Shrinks /\ \A l \in Range(hand) : l \notin Range(Pipeline')
<1>1. diskQueue \in Seq(Logs) /\ sendQueue \in Seq(Logs)
  BY PipelineType
<1>2. Pipeline' = diskQueue \o sendQueue
  BY <1>1, ConcatEmptySeq DEF Pipeline
<1>3. CASE hand = <<>>
  <2>1. Pipeline' = Pipeline
    BY <1>1, <1>2, <1>3, ConcatEmptySeq DEF Pipeline
  <2>2. Range(hand) = {}
    BY <1>3 DEF Range
  <2> QED
    BY <2>1, <2>2 DEF Shrinks
<1>4. ASSUME NEW l \in Logs, hand = <<l>>
      PROVE  Shrinks /\ \A k \in Range(hand) : k \notin Range(Pipeline')
  <2>1. InOrder(Pipeline') /\ l \notin Range(Pipeline')
    BY <1>1, <1>2, <1>4, MiddleRemoved DEF Pipeline
  <2>2. Range(hand) = {l}
    BY <1>4 DEF Range
  <2>3. Range(Pipeline) = Range(diskQueue) \cup Range(hand) \cup Range(sendQueue)
    BY PipelineType, RangeOfParts DEF Pipeline
  <2>4. Range(Pipeline') = Range(diskQueue) \cup Range(sendQueue)
    BY <1>1, <1>2, RangeOfParts
  <2> QED
    BY <2>1, <2>2, <2>3, <2>4 DEF Shrinks
<1> QED
  BY <1>3, <1>4 DEF TypeOK, ProcessOK

\* However a request or a thread ends, the pipeline at most loses payloads.
LEMMA RequestFailsShrinks ==
  ASSUME TypeOK, InOrder(Pipeline), NEW t, RequestFails(t), diskQueue' = diskQueue
  PROVE  Shrinks
<1>1. CASE ProcessEnds
  BY <1>1, EndShrinks
<1>2. CASE UNCHANGED <<sendQueue, hand>>
  BY <1>2 DEF Shrinks, Pipeline
<1> QED
  BY <1>1, <1>2 DEF RequestFails

LEMMA RaiseShrinks ==
  ASSUME TypeOK, InOrder(Pipeline), NEW t, Raise(t), diskQueue' = diskQueue
  PROVE  Shrinks
<1>1. CASE ProcessEnds
  BY <1>1, EndShrinks
<1>2. CASE hand' = hand /\ sendQueue' = sendQueue
  BY <1>2 DEF Shrinks, Pipeline
<1>3. CASE hand' = <<>> /\ sendQueue' = sendQueue
  BY <1>3, HandDropped
<1> QED
  BY <1>1, <1>2, <1>3 DEF Raise

\* What is only moved or dropped stays tracked.
LEMMA ShrinkTracked ==
  ASSUME TypeOK, TypeOK', Tracked, Shrinks, UNCHANGED <<written, stored, lostAcks>>,
         pos' = pos \/ pos' = [f \in Files |-> Closed]
  PROVE  Tracked'
<1>1. \A l \in Logs : WasRead(l) => WasRead(l)'
  BY LogFields DEF WasRead
<1>2. \A l \in Range(Pipeline') : l \in Logs /\ l \in Range(Pipeline)
  BY PipelineType DEF Shrinks
<1> QED
  BY <1>1, <1>2 DEF Tracked, Shrinks

LEMMA TrackedStep == PipelineInv /\ Typing' /\ [Next]_vars /\ ~FromStart => Tracked'
<1> SUFFICES ASSUME Typing, PosBound, Tracked, Typing', [Next]_vars, ~FromStart
             PROVE  Tracked'
  BY DEF PipelineInv
<1>a. TypeOK /\ TypeOK' /\ InOrder(Pipeline)
  BY DEF Typing, Tracked
<1> USE <1>a
<1>1. CASE Start
  BY <1>1, ShrinkTracked DEF Start, Shrinks, Pipeline, backend
<1>2. CASE Halt
  <2>1. Shrinks
    BY <1>2, EndShrinks DEF Halt
  <2> QED
    BY <1>2, <2>1, ShrinkTracked DEF Halt, ProcessEnds, backend
<1>3. CASE Drain
  <2>1. hand = <<>> /\ sendQueue = <<>>
    BY <1>3 DEF Drain, Typing, Phases, TypeOK, ProcessOK
  <2>2. Pipeline = diskQueue /\ Pipeline' = diskQueue
    BY <1>3, <2>1, PipelineType, ConcatEmptySeq DEF Drain, LoadDiskQueue, Pipeline
  <2> QED
    BY <1>3, <2>2, ShrinkTracked DEF Drain, Shrinks, backend
<1>4. CASE Get
  <2>1. hand = <<>>
    BY <1>4 DEF Get, TypeOK, ProcessOK
  <2>2. Pipeline' = Pipeline
    BY <1>4, <2>1, PipelineType, HeadBack DEF Get, Pipeline
  <2> QED
    BY <1>4, <2>2, ShrinkTracked DEF Get, Shrinks, backend
<1>5. CASE PostAccepted
  <2>1. PICK l \in Range(hand) \ Blank :
          /\ stored' = [stored EXCEPT ![l] = @ + 1]
          /\ \/ hand' = <<>> /\ UNCHANGED <<pos, sendQueue, lostAcks>>
             \/ lostAcks' = [lostAcks EXCEPT ![l] = @ + 1] /\ RequestFails("sender")
    BY <1>5 DEF PostAccepted
  <2>2. UNCHANGED <<written, diskQueue>> /\ pc["sender"] = "post"
    BY <1>5 DEF PostAccepted
  <2>3. l \in Range(Pipeline)
    BY <2>1, PipelineType, RangeOfParts DEF Pipeline
  <2>4. l \in Logs /\ WasRead(l) /\ stored[l] <= lostAcks[l]
    BY <2>3, PipelineType DEF Tracked
  <2>5. stored \in [Logs -> Nat] /\ lostAcks \in [Logs -> Nat]
    BY DEF TypeOK, BackendOK
  <2>6. CASE hand' = <<>> /\ UNCHANGED <<pos, sendQueue, lostAcks>>
    <3>1. Shrinks /\ l \notin Range(Pipeline')
      BY <2>1, <2>2, <2>6, HandDropped
    <3>2. \A k \in Logs : WasRead(k)' = WasRead(k)
      BY <2>2, <2>6 DEF WasRead
    <3>3. Range(Pipeline') \subseteq Logs
      BY PipelineType, <3>1 DEF Shrinks
    <3> QED
      BY <2>1, <2>4, <2>5, <2>6, <3>1, <3>2, <3>3 DEF Tracked, Shrinks
  <2>7. CASE lostAcks' = [lostAcks EXCEPT ![l] = @ + 1] /\ RequestFails("sender")
    <3>1. Shrinks /\ pos' = pos
      BY <2>2, <2>7, RequestFailsShrinks DEF RequestFails
    <3>2. \A k \in Logs : WasRead(k)' = WasRead(k)
      BY <2>2, <3>1 DEF WasRead
    <3>3. Range(Pipeline') \subseteq Logs
      BY PipelineType, <3>1 DEF Shrinks
    <3> QED
      BY <2>1, <2>4, <2>5, <2>7, <3>1, <3>2, <3>3 DEF Tracked, Shrinks
  <2> QED
    BY <2>1, <2>6, <2>7
<1>6. CASE Buffer
  <2>1. Pipeline' = Pipeline
    BY <1>6, PipelineType, ConcatEmptySeq DEF Buffer, AppendToDiskQueue, Pipeline
  <2> QED
    BY <1>6, <2>1, ShrinkTracked DEF Buffer, Shrinks, backend
<1>7. CASE Beat \/ BeatAccepted \/ \E c \in Configs : Reconfigure(c)
  BY <1>7, ShrinkTracked DEF Beat, BeatAccepted, Reconfigure, Shrinks, Pipeline, backend, process
<1>8. CASE Forget
  BY <1>8, ShrinkTracked DEF Forget, Shrinks, Pipeline, process
<1>9. ASSUME NEW t \in Workers, Request(t) PROVE Tracked'
  <2>1. UNCHANGED <<diskQueue, written, stored, lostAcks>>
    BY <1>9 DEF Request, LoadState, ReadState, PostRejected, PostFails, backend
  <2>2. CASE Raise(t)
    BY <2>1, <2>2, RaiseShrinks, ShrinkTracked DEF Raise, ProcessEnds
  <2>3. CASE RequestFails(t)
    BY <2>1, <2>3, RequestFailsShrinks, ShrinkTracked DEF RequestFails, ProcessEnds
  <2>4. CASE UNCHANGED <<pos, sendQueue, hand>>
    BY <2>1, <2>4, ShrinkTracked DEF Shrinks, Pipeline
  <2> QED
    BY <1>9, <2>2, <2>3, <2>4 DEF Request, LoadState, ReadState, PostRejected, PostFails
<1>10. ASSUME NEW t \in Threads, Registration(t) PROVE Tracked'
  <2>1. UNCHANGED <<diskQueue, written, stored, lostAcks>>
    BY <1>10 DEF Registration, ClearState, UnlinkState, RegLoad, RegRead, Register,
       OpenState, WriteState, backend
  <2>2. CASE Raise(t)
    BY <2>1, <2>2, RaiseShrinks, ShrinkTracked DEF Raise, ProcessEnds
  <2>3. CASE RequestFails(t)
    BY <2>1, <2>3, RequestFailsShrinks, ShrinkTracked DEF RequestFails, ProcessEnds
  <2>4. CASE UNCHANGED <<pos, sendQueue, hand>>
    BY <2>1, <2>4, ShrinkTracked DEF Shrinks, Pipeline
  <2> QED
    BY <1>10, <2>2, <2>3, <2>4 DEF Registration, ClearState, UnlinkState, RegLoad,
       RegRead, Register, OpenState, WriteState
<1>11. ASSUME NEW f \in Files, OpenLog(f) PROVE Tracked'
  <2>1. pos' = [pos EXCEPT ![f] = written[f]] /\ UNCHANGED <<written, stored, lostAcks>>
    BY <1>11 DEF OpenLog, backend
  <2>2. Pipeline' = Pipeline
    BY <1>11 DEF OpenLog, Pipeline
  <2>3. \A l \in Logs : WasRead(l) => WasRead(l)'
    BY <2>1, LogFields DEF WasRead, TypeOK, ProcessOK
  <2> QED
    BY <2>1, <2>2, <2>3, PipelineType DEF Tracked
<1>12. ASSUME NEW f \in Files, Detect(f) PROVE Tracked'
  <2>a. /\ written \in [Files -> 0..MaxLines] /\ pos \in [Files -> Closed..MaxLines]
        /\ stored \in [Logs -> Nat] /\ lostAcks \in [Logs -> Nat]
    BY DEF TypeOK, DiskOK, ProcessOK, BackendOK
  <2>1. /\ pos' = [pos EXCEPT ![f] = @ + 1] /\ pos[f] # Closed /\ pos[f] < written[f]
        /\ UNCHANGED <<diskQueue, hand, written, stored, lostAcks>>
    BY <1>12 DEF Detect, backend
  <2>2. pos[f] \in 0..MaxLines /\ pos[f] + 1 \in 1..MaxLines
    BY <2>1, <2>a, LineCount
  <2>3. PICK new \in Logs : /\ new.file = f /\ new.line = pos[f] + 1
                           /\ sendQueue' = Append(sendQueue, new)
    BY <1>12, <2>2, LineIsLog DEF Detect
  <2>4. Pipeline' = Append(Pipeline, new)
    <3>1. Append(sendQueue, new) = sendQueue \o <<new>> /\ <<new>> \in Seq(Logs)
      BY <2>3, PipelineType, AppendIsConcat
    <3>2. Pipeline' = (diskQueue \o hand) \o (sendQueue \o <<new>>)
      BY <2>1, <2>3, <3>1 DEF Pipeline
    <3>3. (diskQueue \o hand) \o (sendQueue \o <<new>>) = Pipeline \o <<new>>
      BY <3>1, PipelineType, ConcatAssociative DEF Pipeline
    <3> QED
      BY <2>3, <3>2, <3>3, PipelineType, AppendIsConcat
  <2>5. ~WasRead(new) /\ stored[new] = 0
    <3>1. ~WasRead(new)
      BY <2>1, <2>2, <2>3 DEF WasRead
    <3> QED
      BY <2>a, <2>3, <3>1 DEF Tracked
  <2>6. \A l \in Logs : WasRead(l) => WasRead(l)'
    BY <2>1, <2>a, LogFields DEF WasRead
  <2>7. WasRead(new)'
    BY <2>1, <2>2, <2>3, <2>a DEF WasRead
  <2>8. InOrder(Pipeline')
    <3>1. \A i \in DOMAIN Pipeline : WasRead(Pipeline[i])
      BY DEF Tracked, Range
    <3>2. \A i \in DOMAIN Pipeline : Pipeline[i].file = f => Pipeline[i].line <= pos[f]
      BY <2>1, <3>1 DEF WasRead
    <3>3. \A i \in DOMAIN Pipeline : Pipeline[i].line \in Nat
      BY PipelineType, LogFields
    <3>4. \A i \in DOMAIN Pipeline : Pipeline[i].file = new.file => Pipeline[i].line < new.line
      BY <2>2, <2>3, <3>2, <3>3
    <3> QED
      BY <2>3, <2>4, <3>4, PipelineType, AppendInOrder
  <2>9. Range(Pipeline') = Range(Pipeline) \cup {new}
    <3>1. <<new>> \in Seq(Logs) /\ Range(<<new>>) = {new}
      BY <2>3 DEF Range
    <3>2. Pipeline' = Pipeline \o <<new>> /\ Pipeline \in Seq(Logs)
      BY <2>3, <2>4, PipelineType, AppendIsConcat
    <3>3. Range(Pipeline \o <<new>>) = Range(Pipeline) \cup Range(<<new>>)
      BY <3>1, <3>2, RangeConcatenation
    <3> QED
      BY <3>1, <3>2, <3>3
  <2>10. \A l \in Range(Pipeline') : WasRead(l)' /\ stored'[l] <= lostAcks'[l]
    BY <2>1, <2>a, <2>3, <2>5, <2>6, <2>7, <2>9, PipelineType DEF Tracked
  <2> QED
    BY <2>1, <2>6, <2>8, <2>10 DEF Tracked
<1>13. ASSUME NEW f \in Files, AppWrites(f) PROVE Tracked'
  <2>1. written' = [written EXCEPT ![f] = @ + 1] /\ UNCHANGED <<pos, stored, lostAcks>>
    BY <1>13 DEF AppWrites, process, backend
  <2>2. Pipeline' = Pipeline
    BY <1>13 DEF AppWrites, process, Pipeline
  <2>3. \A l \in Logs : WasRead(l) => WasRead(l)'
    BY <2>1, LogFields DEF WasRead, TypeOK, DiskOK
  <2> QED
    BY <2>1, <2>2, <2>3, PipelineType DEF Tracked
<1>14. CASE UNCHANGED vars
  BY <1>14, ShrinkTracked DEF vars, process, backend, Shrinks, Pipeline
<1> QED
  BY <1>1, <1>2, <1>3, <1>4, <1>5, <1>6, <1>7, <1>8, <1>9, <1>10, <1>11, <1>12,
     <1>13, <1>14
     DEF Next, SenderStep, BeaterStep, Follow

LEMMA PosBoundStep == Typing /\ PosBound /\ [Next]_vars => PosBound'
<1> SUFFICES ASSUME Typing, PosBound, [Next]_vars PROVE PosBound'
  OBVIOUS
<1>1. /\ written \in [Files -> 0..MaxLines] /\ pos \in [Files -> Closed..MaxLines]
  BY DEF Typing, TypeOK, DiskOK, ProcessOK
<1>2. ASSUME NEW f \in Files, AppWrites(f) PROVE PosBound'
  BY <1>1, <1>2, LineCount DEF AppWrites, process, PosBound
<1>3. ASSUME NEW f \in Files, OpenLog(f) \/ Detect(f) PROVE PosBound'
  BY <1>1, <1>3, LineCount DEF OpenLog, Detect, PosBound
<1>4. CASE UNCHANGED <<pos, written>>
  BY <1>4 DEF PosBound
<1>5. CASE pos' = [f \in Files |-> Closed] /\ written' = written
  BY <1>1, <1>5, LineCount DEF PosBound
<1>6. \/ UNCHANGED <<pos, written>>
      \/ pos' = [f \in Files |-> Closed] /\ written' = written
      \/ \E f \in Files : AppWrites(f) \/ OpenLog(f) \/ Detect(f)
  BY DEF Next, vars, process, SenderStep, BeaterStep, Request, Registration, Follow, Start,
     Halt, Drain, Get, PostAccepted, Buffer, AppendToDiskQueue, Beat, BeatAccepted, Forget,
     LoadState, ReadState, PostRejected, PostFails, ClearState, UnlinkState, RegLoad,
     RegRead, Register, OpenState, WriteState, Reconfigure, Raise, RequestFails, ProcessEnds
<1> QED
  BY <1>2, <1>3, <1>4, <1>5, <1>6

LEMMA PipelineInvariant == Spec => []PipelineInv
<1>1. Init => PipelineInv
  <2> SUFFICES ASSUME Init PROVE PipelineInv
    OBVIOUS
  <2>1. Typing
    BY LineCount DEF Init, Typing, TypeOK, DiskOK, ProcessOK, BackendOK, Phases,
       MainLabels, WorkerLabels
  <2>2. Pipeline = <<>>
    BY EmptySeq, ConcatEmptySeq DEF Init, Pipeline
  <2>3. PosBound
    BY DEF Init, PosBound
  <2>4. Tracked
    BY <2>2 DEF Init, Tracked, InOrder, Range
  <2> QED
    BY <2>1, <2>3, <2>4 DEF PipelineInv
<1>2. PipelineInv /\ [Next]_vars => PipelineInv'
  <2> SUFFICES ASSUME PipelineInv, [Next]_vars PROVE PipelineInv'
    OBVIOUS
  <2>1. Typing'
    BY TypeStep, PhasesStep DEF PipelineInv, Typing
  <2> QED
    BY <2>1, PosBoundStep, TrackedStep DEF PipelineInv
<1> QED
  BY <1>1, <1>2, PTL DEF Spec

\* The buffer, the payload in hand and the queue hold the lines of each file in
\* order and at most once, whatever fails and however often the process restarts.
THEOREM OrderSafe == Spec => []PipelineInOrder
<1>1. PipelineInv => PipelineInOrder
  BY DEF PipelineInv, Tracked, PipelineInOrder
<1> QED
  BY <1>1, PipelineInvariant, PTL

\* Every copy of a line in the logs table beyond the first is due to an answer
\* that did not reach the agent.
THEOREM CopiesSafe == Spec => []CopiesExplained
<1>1. PipelineInv => CopiesExplained
  BY DEF PipelineInv, Tracked, CopiesExplained
<1> QED
  BY <1>1, PipelineInvariant, PTL

----------------------------------------------------------------------------
(* Forwarding: the agent implements LogForwarding.  Outside its main loop it is *)
(* down and has nothing in memory; in it, a step of a worker that is not one of *)
(* LogForwarding leaves queue, hand and buffer alone.                           *)

Status ==
  IF pc["main"] # "up" THEN "down" ELSE IF pc["sender"] = "dead" THEN "stuck" ELSE "up"

LEMMA Stutters ==
  ASSUME UNCHANGED <<diskQueue, stored>>, Memory' = Memory, Status' = Status
  PROVE  UNCHANGED Forwarding!vars
BY DEF Forwarding!vars, Status

LEMMA DownIsEmpty ==
  ASSUME Typing, pc["main"] # "up"
  PROVE  hand = <<>> /\ sendQueue = <<>> /\ Memory = {}
<1>1. pc["sender"] = "off" /\ sendQueue = <<>>
  BY DEF Typing, Phases
<1>2. hand = <<>>
  BY <1>1 DEF Typing, TypeOK, ProcessOK
<1> QED
  BY <1>1, <1>2 DEF Memory, Range

LEMMA DownStutters ==
  ASSUME Typing, Typing', pc["main"] # "up", pc'["main"] # "up", UNCHANGED <<diskQueue, stored>>
  PROVE  UNCHANGED Forwarding!vars
<1>1. Memory = {}
  BY DownIsEmpty
<1>2. Memory' = {}
  <2>1. pc'["sender"] = "off" /\ sendQueue' = <<>>
    BY DEF Typing, Phases
  <2>2. hand' = <<>>
    BY <2>1 DEF Typing, TypeOK, ProcessOK
  <2> QED
    BY <2>1, <2>2 DEF Memory, Range
<1> QED
  BY <1>1, <1>2, Stutters DEF Status

\* A busy sender has a payload in hand ...
LEMMA BusyHand ==
  ASSUME Typing, pc["sender"] \notin {"off", "idle", "dead"}
  PROVE  \E l \in Logs : hand = <<l>> /\ Range(hand) = {l} /\ l \in Memory
<1>1. PICK l \in Logs : hand = <<l>>
  BY DEF Typing, TypeOK, ProcessOK
<1>2. Range(hand) = {l}
  BY <1>1 DEF Range
<1> QED
  BY <1>1, <1>2 DEF Memory

\* ... and when it is through with it, another copy may be in the queue.
LEMMA HandEmptied ==
  ASSUME NEW l, Range(hand) = {l}, hand' = <<>>, sendQueue' = sendQueue
  PROVE  Memory' \in {Memory, Memory \ {l}}
<1>1. Range(hand') = {} /\ Range(sendQueue') = Range(sendQueue)
  BY DEF Range
<1>2. Memory' = Range(sendQueue) /\ Memory = {l} \cup Range(sendQueue)
  BY <1>1 DEF Memory
<1> QED
  BY <1>2

\* A request or a registration of a worker: either the sender dies with the payload
\* in hand, or nothing LogForwarding sees happens.
LEMMA WorkerForwards ==
  ASSUME Typing, NEW t \in Workers, Request(t) \/ Registration(t)
  PROVE  [Forwarding!Next]_(Forwarding!vars)
<1>1. UNCHANGED <<diskQueue, stored>>
  BY DEF Request, Registration, LoadState, ReadState, PostRejected, PostFails, ClearState,
     UnlinkState, RegLoad, RegRead, Register, OpenState, WriteState, backend
<1>2. pc[t] \notin {"off", "idle", "dead"}
  BY DEF Request, Registration, LoadState, ReadState, PostRejected, PostFails, ClearState,
     UnlinkState, RegLoad, RegRead, Register, OpenState, WriteState
<1>3. pc["main"] = "up"
  BY <1>2 DEF Typing, Phases
<1>4. pc \in [Threads -> MainLabels \cup WorkerLabels]
  BY DEF Typing, TypeOK, ProcessOK, MainLabels, WorkerLabels
<1>5. CASE Raise(t) /\ t = "sender"
  <2>1. PICK l \in Logs : Range(hand) = {l} /\ l \in Memory
    BY <1>2, <1>5, BusyHand
  <2>2. hand' = <<>> /\ sendQueue' = sendQueue
    BY <1>5 DEF Raise
  <2>3. pc'["main"] = "up" /\ pc'["sender"] = "dead"
    BY <1>3, <1>4, <1>5 DEF Raise, Goto
  <2>4. Memory' \in {Memory, Memory \ {l}}
    BY <2>1, <2>2, HandEmptied
  <2>5. Forwarding!SenderDies(l)
    BY <1>1, <1>2, <1>3, <1>5, <2>1, <2>3, <2>4 DEF Forwarding!SenderDies, Forwarding!Done
  <2> QED
    BY <2>5 DEF Forwarding!Next
<1>6. ASSUME Raise(t), t = "beater" PROVE UNCHANGED Forwarding!vars
  <2>1. hand' = hand /\ sendQueue' = sendQueue
    BY <1>6 DEF Raise
  <2>2. pc'["main"] = "up" /\ pc'["sender"] = pc["sender"]
    BY <1>3, <1>4, <1>6 DEF Raise, Goto
  <2> QED
    BY <1>1, <1>3, <2>1, <2>2, Stutters DEF Memory, Status
<1>7. ASSUME ~Raise(t) PROVE UNCHANGED Forwarding!vars
  <2>1. hand' = hand /\ sendQueue' = sendQueue
    BY <1>7 DEF Request, Registration, LoadState, ReadState, PostRejected, PostFails, ClearState,
       UnlinkState, RegLoad, RegRead, Register, OpenState, WriteState, RequestFails
  <2>2. /\ \A u \in Threads : pc'[u] = pc[u] \/ u = t \/ (pc[u] = "write" /\ pc'[u] = "orphan")
        /\ pc'[t] # "dead"
    <3>1. CASE UnlinkState(t)
      BY <1>4, <1>7, <3>1 DEF UnlinkState, AfterClear
    <3>2. CASE RequestFails(t)
      BY <1>4, <3>2 DEF RequestFails, Goto
    <3>3. CASE LoadState(t) \/ ReadState(t) \/ RegLoad(t) \/ RegRead(t) \/ OpenState(t)
                 \/ WriteState(t) \/ ClearState(t)
      BY <1>4, <1>7, <3>3 DEF LoadState, ReadState, RegLoad, RegRead, OpenState, WriteState,
         ClearState, Goto, HasRegistration, AfterClear
    <3>4. CASE PostRejected(t) \/ PostFails(t) \/ Register(t)
      BY <1>4, <3>2, <3>4 DEF PostRejected, PostFails, Register, Goto
    <3> QED
      BY <3>1, <3>3, <3>4 DEF Request, Registration
  <2>3. pc'["main"] = "up" /\ (pc'["sender"] = "dead" <=> pc["sender"] = "dead")
    BY <1>2, <1>3, <2>2
  <2> QED
    BY <1>1, <1>3, <2>1, <2>3, Stutters DEF Memory, Status
<1> QED
  BY <1>5, <1>6, <1>7

\* A registration of the main thread, which is not in its loop yet.
LEMMA MainForwards ==
  ASSUME Typing, Typing', Registration("main")
  PROVE  UNCHANGED Forwarding!vars
<1>1. UNCHANGED <<diskQueue, stored>>
  BY DEF Registration, ClearState, UnlinkState, RegLoad, RegRead, Register, OpenState,
     WriteState, backend
<1>2. pc["main"] # "up"
  BY DEF Registration, ClearState, UnlinkState, RegLoad, RegRead, Register, OpenState, WriteState
<1>3. pc'["main"] # "up"
  BY DEF Registration, ClearState, UnlinkState, RegLoad, RegRead, Register, OpenState,
     WriteState, Raise, RequestFails, ProcessEnds, Goto, HasRegistration, AfterClear, Typing,
     TypeOK, ProcessOK
<1> QED
  BY <1>1, <1>2, <1>3, DownStutters

LEMMA ForwardingStep ==
  ASSUME Typing, Typing', [Next]_vars
  PROVE  [Forwarding!Next]_(Forwarding!vars)
<1>a. pc \in [Threads -> MainLabels \cup WorkerLabels]
  BY DEF Typing, TypeOK, ProcessOK, MainLabels, WorkerLabels
<1>b. diskQueue \in Seq(Logs) /\ hand \in Seq(Logs) /\ sendQueue \in Seq(Logs)
  BY PipelineType DEF Typing
<1>1. CASE Start
  <2>1. pc["main"] # "up" /\ pc'["main"] # "up" /\ UNCHANGED <<diskQueue, stored>>
    BY <1>1, <1>a DEF Start, Goto, backend
  <2> QED
    BY <2>1, DownStutters
<1>2. CASE Halt
  <2>1. pc'["main"] = "off" /\ hand' = <<>> /\ sendQueue' = <<>> /\ UNCHANGED <<diskQueue, stored>>
    BY <1>2 DEF Halt, ProcessEnds, backend
  <2>2. CASE pc["main"] = "up"
    <3>1. Memory' = {}
      BY <2>1 DEF Memory, Range
    <3>2. Forwarding!Halt
      BY <2>1, <2>2, <3>1 DEF Forwarding!Halt
    <3> QED
      BY <3>2 DEF Forwarding!Next
  <2>3. CASE pc["main"] # "up"
    BY <2>1, <2>3, DownStutters
  <2> QED
    BY <2>2, <2>3
<1>3. CASE Drain
  <2>1. pc["main"] = "drain" /\ pc'["main"] = "up" /\ pc'["sender"] = "idle"
    BY <1>3 DEF Drain
  <2>2. hand' = <<>> /\ sendQueue' = diskQueue /\ diskQueue' = <<>> /\ stored' = stored
    BY <1>3, <1>b, <2>1, DownIsEmpty, ConcatEmptySeq DEF Drain, LoadDiskQueue, backend
  <2>3. Memory' = Range(diskQueue) /\ Range(diskQueue)' = {}
    BY <2>2 DEF Memory, Range
  <2>4. Forwarding!Start
    BY <2>1, <2>2, <2>3 DEF Forwarding!Start
  <2> QED
    BY <2>4 DEF Forwarding!Next
<1>4. CASE Get
  <2>1. hand = <<>> /\ sendQueue # <<>> /\ hand' = <<Head(sendQueue)>> /\ sendQueue' = Tail(sendQueue)
    BY <1>4 DEF Get, Typing, TypeOK, ProcessOK
  <2>2. UNCHANGED <<diskQueue, stored>> /\ Status' = Status
    BY <1>4, <1>a DEF Get, Goto, Status, backend
  <2>3. Memory' = Memory
    <3>1. /\ <<Head(sendQueue)>> \in Seq(Logs) /\ Tail(sendQueue) \in Seq(Logs)
          /\ sendQueue = <<Head(sendQueue)>> \o Tail(sendQueue)
      BY <1>b, <2>1, HeadTailProperties
    <3>2. Range(sendQueue) = Range(<<Head(sendQueue)>>) \cup Range(Tail(sendQueue))
      BY <3>1, RangeConcatenation
    <3>3. Range(hand) = {}
      BY <2>1 DEF Range
    <3> QED
      BY <2>1, <3>2, <3>3 DEF Memory
  <2> QED
    BY <2>2, <2>3, Stutters
<1>5. CASE PostAccepted
  <2>1. PICK l \in Logs : hand = <<l>> /\ Range(hand) = {l} /\ l \in Memory
    BY <1>5, BusyHand DEF PostAccepted
  <2>2. /\ stored' = [stored EXCEPT ![l] = @ + 1] /\ diskQueue' = diskQueue
        /\ \/ hand' = <<>> /\ sendQueue' = sendQueue /\ Goto("sender", "idle")
           \/ RequestFails("sender")
    BY <1>5, <2>1 DEF PostAccepted
  <2>3. pc["main"] = "up" /\ pc["sender"] = "post"
    BY <1>5 DEF PostAccepted, Typing, Phases
  <2>4. pc'["main"] = "up" /\ pc'["sender"] # "dead"
    BY <1>a, <2>2, <2>3 DEF RequestFails, Goto
  <2>5. Memory' \in {Memory, Memory \ {l}}
    <3>1. CASE hand' = <<>> /\ sendQueue' = sendQueue
      BY <2>1, <3>1, HandEmptied
    <3>2. CASE RequestFails("sender")
      BY <3>2 DEF RequestFails, Memory
    <3> QED
      BY <2>2, <3>1, <3>2
  <2>6. {k \in Logs : stored[k] > 0}' = {k \in Logs : stored[k] > 0} \cup {l}
    BY <2>2 DEF Typing, TypeOK, BackendOK
  <2>7. Forwarding!Deliver(l)
    BY <2>1, <2>2, <2>3, <2>4, <2>5, <2>6 DEF Forwarding!Deliver, Forwarding!Done
  <2> QED
    BY <2>7 DEF Forwarding!Next
<1>6. CASE Buffer
  <2>1. PICK l \in Logs : Range(hand) = {l} /\ l \in Memory
    BY <1>6, BusyHand DEF Buffer
  <2>2. /\ diskQueue' = diskQueue \o hand /\ hand' = <<>> /\ UNCHANGED <<sendQueue, stored>>
        /\ pc["sender"] = "buffer" /\ Goto("sender", "idle")
    BY <1>6 DEF Buffer, AppendToDiskQueue, backend
  <2>3. pc["main"] = "up" /\ pc'["main"] = "up" /\ pc'["sender"] = "idle"
    BY <1>a, <2>2 DEF Goto, Typing, Phases
  <2>4. Memory' \in {Memory, Memory \ {l}}
    BY <2>1, <2>2, HandEmptied
  <2>5. Range(diskQueue)' = Range(diskQueue) \cup {l}
    <3>1. Range(diskQueue \o hand) = Range(diskQueue) \cup Range(hand)
      BY <1>b, RangeOfParts
    <3> QED
      BY <2>1, <2>2, <3>1
  <2>6. Forwarding!Buffer(l)
    BY <2>1, <2>2, <2>3, <2>4, <2>5 DEF Forwarding!Buffer, Forwarding!Done
  <2> QED
    BY <2>6 DEF Forwarding!Next
<1>7. CASE Beat \/ BeatAccepted
  <2>1. UNCHANGED <<diskQueue, stored, hand, sendQueue>> /\ Status' = Status
    BY <1>7, <1>a DEF Beat, BeatAccepted, Goto, Status, backend
  <2> QED
    BY <2>1, Stutters DEF Memory
<1>8. CASE Forget \/ (\E c \in Configs : Reconfigure(c)) \/ \E f \in Files : AppWrites(f) \/ OpenLog(f)
  <2>1. UNCHANGED <<diskQueue, stored, hand, sendQueue, pc>>
    BY <1>8 DEF Forget, Reconfigure, AppWrites, OpenLog, process, backend
  <2> QED
    BY <2>1, Stutters DEF Memory, Status
<1>9. ASSUME NEW f \in Files, Detect(f) PROVE [Forwarding!Next]_(Forwarding!vars)
  <2>1. /\ written \in [Files -> 0..MaxLines] /\ pos \in [Files -> Closed..MaxLines]
    BY DEF Typing, TypeOK, DiskOK, ProcessOK
  <2>2. /\ pos[f] # Closed /\ pos[f] + 1 \in 1..MaxLines
        /\ UNCHANGED <<diskQueue, hand, stored, pc>>
    BY <1>9, <2>1, LineCount DEF Detect, backend
  <2>3. PICK new \in Logs : sendQueue' = Append(sendQueue, new)
    BY <1>9, <2>2, LineIsLog DEF Detect
  <2>4. pc["main"] = "up"
    BY <2>2 DEF Typing, Phases
  <2>5. Range(sendQueue') = Range(sendQueue) \cup {new}
    <3>1. <<new>> \in Seq(Logs) /\ sendQueue \in Seq(Logs)
      BY <1>b
    <3>2. Range(sendQueue \o <<new>>) = Range(sendQueue) \cup Range(<<new>>)
      BY <3>1, RangeConcatenation
    <3>3. sendQueue' = sendQueue \o <<new>>
      BY <2>3, <3>1, AppendIsConcat
    <3>4. Range(<<new>>) = {new}
      BY DEF Range
    <3> QED
      BY <3>2, <3>3, <3>4
  <2>6. Memory' = Memory \cup {new}
    BY <2>2, <2>5 DEF Memory
  <2>7. Forwarding!Detect(new)
    BY <2>2, <2>4, <2>6 DEF Forwarding!Detect
  <2> QED
    BY <2>7 DEF Forwarding!Next
<1>10. ASSUME NEW t \in Workers, Request(t) \/ Registration(t)
       PROVE  [Forwarding!Next]_(Forwarding!vars)
  BY <1>10, WorkerForwards
<1>11. CASE Registration("main")
  BY <1>11, MainForwards
<1>12. CASE UNCHANGED vars
  BY <1>12, Stutters DEF vars, process, backend, Memory, Status
<1> QED
  BY <1>1, <1>2, <1>3, <1>4, <1>5, <1>6, <1>7, <1>8, <1>9, <1>10, <1>11, <1>12
     DEF Next, SenderStep, BeaterStep, Follow

LEMMA TypingInvariant == Spec => []Typing
BY PipelineInvariant, PTL DEF PipelineInv

\* The agent implements LogForwarding: with any number of files, lines, tokens and
\* failures, a detected line stays in memory or on disk until the backend stores it,
\* and only the end of the process or of the sender loses it.
THEOREM AgentForwards == Spec => ForwardingSpec
<1>1. Init => Forwarding!Init
  <2> SUFFICES ASSUME Init PROVE Forwarding!Init
    OBVIOUS
  <2>1. Range(diskQueue) = {} /\ Memory = {} /\ {l \in Logs : stored[l] > 0} = {}
    BY DEF Init, Memory, Range
  <2> QED
    BY <2>1 DEF Init, Forwarding!Init
<1>2. Typing /\ Typing' /\ [Next]_vars => [Forwarding!Next]_(Forwarding!vars)
  BY ForwardingStep
<1> QED
  BY <1>1, <1>2, TypingInvariant, PTL DEF Spec, ForwardingSpec, Forwarding!Spec

\* What LogForwarding promises of a line holds of the agent: a line in memory or in the
\* buffer stays in one of them or is stored, unless the process or the sender ends in
\* that step; what is stored stays stored, and a running agent unbuffers nothing.
THEOREM LinesAreKept == Spec => Forwarding!Kept /\ Forwarding!Final
<1>1. Typing /\ Typing' /\ [Next]_vars
        => [Forwarding!KeepsLines /\ Forwarding!KeepsStored]_(Forwarding!vars)
  <2> SUFFICES ASSUME Typing, Typing', [Next]_vars, ~UNCHANGED Forwarding!vars
               PROVE  Forwarding!KeepsLines /\ Forwarding!KeepsStored
    OBVIOUS
  <2> USE DEF Forwarding!KeepsLines, Forwarding!KeepsStored
  <2>1. CASE Forwarding!Start
    BY <2>1, DownIsEmpty DEF Forwarding!Start
  <2>2. CASE Forwarding!Halt
    BY <2>2 DEF Forwarding!Halt
  <2>3. ASSUME NEW l \in Logs, Forwarding!Detect(l)
        PROVE  Forwarding!KeepsLines /\ Forwarding!KeepsStored
    BY <2>3 DEF Forwarding!Detect
  <2>4. ASSUME NEW l \in Logs, Forwarding!Deliver(l)
        PROVE  Forwarding!KeepsLines /\ Forwarding!KeepsStored
    BY <2>4 DEF Forwarding!Deliver, Forwarding!Done
  <2>5. ASSUME NEW l \in Logs, Forwarding!Buffer(l)
        PROVE  Forwarding!KeepsLines /\ Forwarding!KeepsStored
    BY <2>5 DEF Forwarding!Buffer, Forwarding!Done
  <2>6. ASSUME NEW l \in Logs, Forwarding!SenderDies(l)
        PROVE  Forwarding!KeepsLines /\ Forwarding!KeepsStored
    BY <2>6 DEF Forwarding!SenderDies
  <2> QED
    BY <2>1, <2>2, <2>3, <2>4, <2>5, <2>6, ForwardingStep DEF Forwarding!Next
<1> QED
  BY <1>1, TypingInvariant, PTL DEF Spec, Forwarding!Kept, Forwarding!Final
=============================================================================
