------------------------------- MODULE Agent -------------------------------
(***************************************************************************)
(* The client-side agent, monitoring-agent/agent.py: the main thread that  *)
(* registers and reloads the buffer, the follower threads that detect      *)
(* lines, the sender (retry_worker) and the heartbeat thread, which share  *)
(* the queue and agent_state.json without any lock, and what the backend   *)
(* answers.  The process may stop at any step and be started again.        *)
(***************************************************************************)
EXTENDS Integers, Sequences, Functions

CONSTANTS Files,            \* the followed log files (LOG_FILES)
          Configs,          \* identities config.yaml may hold (config_identity)
          FromStart,        \* FROM_START
          Logs,             \* the lines, records [file, line]
          Blank,            \* lines whose cleaned message is empty
          MaxLines,         \* bound: lines an application writes to a file
          MaxPipeline,      \* bound: payloads on disk, in hand and in memory
          MaxRegistrations, \* bound: agents the backend registers
          MaxCopies         \* bound: rows the backend stores for a line

ASSUME AgentConstants ==
  /\ FromStart \in BOOLEAN
  /\ MaxLines \in Nat /\ MaxPipeline \in Nat
  /\ MaxRegistrations \in Nat /\ MaxCopies \in Nat
  /\ Logs = [file : Files, line : 1..MaxLines]
  /\ Blank \subseteq Logs

Threads == {"main", "sender", "beater"}
Workers == {"sender", "beater"}

Closed == -1   \* the follower has not opened its file
Absent == 0    \* agent_state.json does not exist
Torn   == -1   \* agent_state.json was truncated and not written yet

VARIABLES
  cfg,       \* the identity in config.yaml
  stateFile, \* agent_state.json: Absent, Torn or the registration it holds
  diskQueue, \* buffered_logs.jsonl
  written,   \* lines each followed file holds
  pos,       \* lines each follower has read, or Closed
  sendQueue, \* send_queue
  hand,      \* the payload retry_worker took from it, at most one
  pc,        \* where each thread is
  token,     \* the registration each thread last loaded or obtained
  attempt,   \* which request of its send a thread makes, 1 or 2
  rows,      \* the configuration of every agent ever registered
  valid,     \* the registrations the backend still accepts
  stored,    \* rows of each line in the backend's logs table
  lostAcks,  \* history: stored lines whose answer did not arrive
  failed,    \* history: lines a send_payload of which raised
  rejected   \* history: threads of this process that were answered 401

process == <<pos, sendQueue, hand, pc, token, attempt>>
backend == <<rows, valid, stored, lostAcks>>
vars == <<cfg, stateFile, diskQueue, written, process, backend, failed, rejected>>

Init ==
  /\ cfg \in Configs
  /\ stateFile = Absent
  /\ diskQueue = <<>> /\ sendQueue = <<>> /\ hand = <<>>
  /\ written = [f \in Files |-> 0]
  /\ pos = [f \in Files |-> Closed]
  /\ pc = [t \in Threads |-> "off"]
  /\ token = [t \in Threads |-> Absent]
  /\ attempt = [t \in Threads |-> 1]
  /\ rows = <<>> /\ valid = {}
  /\ stored = [l \in Logs |-> 0] /\ lostAcks = [l \in Logs |-> 0]
  /\ failed = {} /\ rejected = {}

Registered == stateFile > 0
NoStateOrTorn == stateFile \in {Absent, Torn}  \* mutant: an empty file is {} too
\* load_state: {} is returned when the file does not exist, and only then.
NoState == stateFile = Absent
AnyConfigMatches == TRUE  \* mutant: a saved registration is always used
\* state_matches_config: the file holds the identity it was registered under.
StateMatchesConfig == rows[stateFile] = cfg
Pipeline == diskQueue \o hand \o sendQueue
Goto(t, label) == pc' = [pc EXCEPT ![t] = label]

----------------------------------------------------------------------------
(* How a request or a thread ends. *)

\* The process is gone: daemon threads, queue and open files with it.
ProcessEnds ==
  /\ pc' = [t \in Threads |-> "off"]
  /\ token' = [t \in Threads |-> Absent]
  /\ attempt' = [t \in Threads |-> 1]
  /\ pos' = [f \in Files |-> Closed]
  /\ sendQueue' = <<>> /\ hand' = <<>>

\* The payload in hand, if t is the sender, was not sent.
SendFails(t) == failed' = IF t = "sender" THEN failed \cup Range(hand) ELSE failed

\* A requests.RequestException: the sender goes on to buffer its payload, the
\* heartbeat is skipped, and in start_agent nothing catches it.
RequestFails(t) ==
  /\ SendFails(t)
  /\ \/ /\ t = "main" /\ ProcessEnds
     \/ /\ t \in Workers
        /\ Goto(t, IF t = "sender" THEN "buffer" ELSE "idle")
        /\ token' = [token EXCEPT ![t] = Absent]
        /\ attempt' = [attempt EXCEPT ![t] = 1]
        /\ UNCHANGED <<pos, sendQueue, hand>>

\* Any other exception (RuntimeError, FileNotFoundError, PermissionError,
\* JSONDecodeError): nothing catches it and the thread is gone for good.
Raise(t) ==
  /\ SendFails(t)
  /\ \/ /\ t = "main" /\ ProcessEnds
     \/ /\ t \in Workers
        /\ Goto(t, "dead")
        /\ token' = [token EXCEPT ![t] = Absent]
        /\ attempt' = [attempt EXCEPT ![t] = 1]
        /\ hand' = IF t = "sender" THEN <<>> ELSE hand
        /\ UNCHANGED <<pos, sendQueue>>

----------------------------------------------------------------------------
(* The process: start_agent, and the end of it at any point. *)

Start ==
  /\ pc["main"] = "off"
  /\ Goto("main", "regload")
  /\ rejected' = {}
  /\ UNCHANGED <<cfg, stateFile, diskQueue, written, pos, sendQueue, hand, token,
                 attempt, backend, failed>>

\* Ctrl-C, a kill, a crash or a reboot.
Halt ==
  /\ pc["main"] # "off"
  /\ ProcessEnds
  /\ UNCHANGED <<cfg, stateFile, diskQueue, written, backend, failed, rejected>>

\* Mutant: the buffer file is not unlinked.
LoadAndKeep == sendQueue' = sendQueue \o diskQueue /\ diskQueue' = diskQueue

\* load_disk_queue: unlinks the buffer, then queues what it held.
LoadDiskQueue == sendQueue' = sendQueue \o diskQueue /\ diskQueue' = <<>>

\* The buffer is reloaded, then the worker threads start; a halt in between loses what a halt just after it loses.
Drain ==
  /\ pc["main"] = "drain"
  /\ LoadDiskQueue
  /\ pc' = [t \in Threads |-> IF t = "main" THEN "up" ELSE "idle"]
  /\ token' = [token EXCEPT !["main"] = Absent]
  /\ UNCHANGED <<cfg, stateFile, written, pos, hand, attempt, backend, failed, rejected>>

----------------------------------------------------------------------------
(* The followers. *)

OpenLog(f) ==
  /\ pc["main"] = "up" /\ pos[f] = Closed
  /\ pos' = [pos EXCEPT ![f] = IF FromStart THEN 0 ELSE written[f]]
  /\ UNCHANGED <<cfg, stateFile, diskQueue, written, sendQueue, hand, pc, token,
                 attempt, backend, failed, rejected>>

Detect(f) ==
  /\ pos[f] # Closed /\ pos[f] < written[f]
  /\ Len(Pipeline) < MaxPipeline
  /\ pos' = [pos EXCEPT ![f] = @ + 1]
  /\ sendQueue' = Append(sendQueue, [file |-> f, line |-> pos[f] + 1])
  /\ UNCHANGED <<cfg, stateFile, diskQueue, written, hand, pc, token, attempt,
                 backend, failed, rejected>>

----------------------------------------------------------------------------
(* One round of a worker: retry_worker with send_payload, heartbeat_worker. *)

Get ==
  /\ pc["sender"] = "idle" /\ sendQueue # <<>>
  /\ hand' = <<Head(sendQueue)>>
  /\ sendQueue' = Tail(sendQueue)
  /\ Goto("sender", "load")
  /\ UNCHANGED <<cfg, stateFile, diskQueue, written, pos, token, attempt, backend,
                 failed, rejected>>

Beat ==
  /\ pc["beater"] = "idle"
  /\ Goto("beater", "load")
  /\ UNCHANGED <<cfg, stateFile, diskQueue, written, pos, sendQueue, hand, token,
                 attempt, backend, failed, rejected>>

\* auth_headers: STATE_FILE.exists() in load_state; {} holds no token.
LoadState(t) ==
  /\ pc[t] = "load"
  /\ \/ /\ NoState /\ Raise(t)
     \/ /\ ~NoState /\ Goto(t, "read")
        /\ UNCHANGED <<pos, sendQueue, hand, token, attempt, failed>>
  /\ UNCHANGED <<cfg, stateFile, diskQueue, written, backend, rejected>>

\* auth_headers: open and json.load, the file may be gone or empty by now.
ReadState(t) ==
  /\ pc[t] = "read"
  /\ \/ /\ ~Registered /\ Raise(t)
     \/ /\ Registered /\ Goto(t, "post")
        /\ token' = [token EXCEPT ![t] = stateFile]
        /\ UNCHANGED <<pos, sendQueue, hand, attempt, failed>>
  /\ UNCHANGED <<cfg, stateFile, diskQueue, written, backend, rejected>>

\* 401: the first one clears the state and registers again, a second one raises.
PostRejected(t) ==
  /\ pc[t] = "post" /\ token[t] \notin valid
  /\ rejected' = rejected \cup {t}
  /\ \/ /\ attempt[t] = 2 /\ RequestFails(t)
     \/ /\ attempt[t] = 1 /\ Goto(t, "clear")
        /\ token' = [token EXCEPT ![t] = Absent]
        /\ UNCHANGED <<pos, sendQueue, hand, attempt, failed>>
  /\ UNCHANGED <<cfg, stateFile, diskQueue, written, backend>>

\* Mutant: a failed request is not caught.
PostRaises(t) ==
  /\ pc[t] = "post"
  /\ Raise(t)
  /\ UNCHANGED <<cfg, stateFile, diskQueue, written, backend, rejected>>

\* Refused connection, timeout before the commit, 5xx, or 422 for a blank line.
PostFails(t) ==
  /\ pc[t] = "post"
  /\ RequestFails(t)
  /\ UNCHANGED <<cfg, stateFile, diskQueue, written, backend, rejected>>

\* The backend stores the line; its answer arrives, or the request times out.
PostAccepted ==
  /\ pc["sender"] = "post" /\ token["sender"] \in valid
  /\ \E l \in Range(hand) \ Blank :
       /\ stored[l] < MaxCopies
       /\ stored' = [stored EXCEPT ![l] = @ + 1]
       /\ \/ /\ Goto("sender", "idle") /\ hand' = <<>>
             /\ token' = [token EXCEPT !["sender"] = Absent]
             /\ attempt' = [attempt EXCEPT !["sender"] = 1]
             /\ UNCHANGED <<pos, sendQueue, lostAcks, failed>>
          \/ /\ lostAcks' = [lostAcks EXCEPT ![l] = @ + 1]
             /\ RequestFails("sender")
  /\ UNCHANGED <<cfg, stateFile, diskQueue, written, rows, valid, rejected>>

BeatAccepted ==
  /\ pc["beater"] = "post" /\ token["beater"] \in valid
  /\ Goto("beater", "idle")
  /\ token' = [token EXCEPT !["beater"] = Absent]
  /\ attempt' = [attempt EXCEPT !["beater"] = 1]
  /\ UNCHANGED <<cfg, stateFile, diskQueue, written, pos, sendQueue, hand, backend,
                 failed, rejected>>

\* Mutants: the payload stays in hand, is dropped, goes back to the queue.
BufferAndKeep == diskQueue' = diskQueue \o hand /\ UNCHANGED <<hand, sendQueue>>
DropPayload == hand' = <<>> /\ UNCHANGED <<diskQueue, sendQueue>>
Requeue == hand' = <<>> /\ sendQueue' = sendQueue \o hand /\ UNCHANGED diskQueue

AppendToDiskQueue == diskQueue' = diskQueue \o hand /\ hand' = <<>> /\ UNCHANGED sendQueue

\* The except branch of retry_worker.
Buffer ==
  /\ pc["sender"] = "buffer"
  /\ AppendToDiskQueue
  /\ Goto("sender", "idle")
  /\ UNCHANGED <<cfg, stateFile, written, pos, token, attempt, backend,
                 failed, rejected>>

----------------------------------------------------------------------------
(* clear_state, called by send_payload and heartbeat_worker after a 401        *)
(* ("clear") and by register_agent after a configuration change ("regclear").  *)

AfterClear(label) == IF label \in {"clear", "unlink"} THEN "regload" ELSE "register"

ClearState(t) ==
  /\ pc[t] \in {"clear", "regclear"}
  /\ Goto(t, IF stateFile = Absent THEN AfterClear(pc[t])
             ELSE IF pc[t] = "clear" THEN "unlink" ELSE "regunlink")
  /\ UNCHANGED <<cfg, stateFile, diskQueue, written, pos, sendQueue, hand, token,
                 attempt, backend, failed, rejected>>

\* Another thread may have the file open: Windows then refuses to unlink it,
\* elsewhere a thread that is writing it goes on in a file with no name.
UnlinkState(t) ==
  /\ pc[t] \in {"unlink", "regunlink"}
  /\ \/ /\ \/ stateFile = Absent
           \/ \E u \in Threads \ {t} : pc[u] \in {"read", "regread", "write"}
        /\ Raise(t)
        /\ UNCHANGED stateFile
     \/ /\ stateFile # Absent
        /\ stateFile' = Absent
        /\ pc' = [u \in Threads |-> IF u = t THEN AfterClear(pc[t])
                                    ELSE IF pc[u] = "write" THEN "orphan" ELSE pc[u]]
        /\ UNCHANGED <<pos, sendQueue, hand, token, attempt, failed>>
  /\ UNCHANGED <<cfg, diskQueue, written, backend, rejected>>

----------------------------------------------------------------------------
(* register_agent, run by the main thread at the start and by the workers. *)

\* A worker sends again, the main thread reloads the buffer.
HasRegistration(t) ==
  /\ Goto(t, IF t = "main" THEN "drain" ELSE "load")
  /\ attempt' = [attempt EXCEPT ![t] = IF t = "main" THEN 1 ELSE 2]

RegLoad(t) ==
  /\ pc[t] = "regload"
  /\ Goto(t, IF NoState THEN "register" ELSE "regread")
  /\ UNCHANGED <<cfg, stateFile, diskQueue, written, pos, sendQueue, hand, token,
                 attempt, backend, failed, rejected>>

RegRead(t) ==
  /\ pc[t] = "regread"
  /\ \/ /\ ~Registered /\ Raise(t)
     \/ /\ Registered /\ StateMatchesConfig
        /\ HasRegistration(t)
        /\ UNCHANGED <<pos, sendQueue, hand, token, failed>>
     \/ /\ Registered /\ ~StateMatchesConfig
        /\ Goto(t, "regclear")
        /\ UNCHANGED <<pos, sendQueue, hand, token, attempt, failed>>
  /\ UNCHANGED <<cfg, stateFile, diskQueue, written, backend, rejected>>

\* POST /register-agent: the row may be inserted although no answer arrives.
Register(t) ==
  /\ pc[t] = "register"
  /\ \/ /\ Len(rows) < MaxRegistrations
        /\ rows' = Append(rows, cfg)
        /\ valid' = valid \cup {Len(rows) + 1}
        /\ \/ /\ token' = [token EXCEPT ![t] = Len(rows) + 1]
              /\ Goto(t, "open")
              /\ UNCHANGED <<pos, sendQueue, hand, attempt, failed>>
           \/ RequestFails(t)
     \/ RequestFails(t) /\ UNCHANGED <<rows, valid>>
  /\ UNCHANGED <<cfg, stateFile, diskQueue, written, stored, lostAcks, rejected>>

\* save_state: open(STATE_FILE, "w") truncates, closing it writes the content.
OpenState(t) ==
  /\ pc[t] = "open"
  /\ stateFile' = Torn
  /\ Goto(t, "write")
  /\ UNCHANGED <<cfg, diskQueue, written, pos, sendQueue, hand, token, attempt,
                 backend, failed, rejected>>

NeverFlushed(t) == stateFile  \* mutant: the content does not reach the file
Flushed(t) == IF pc[t] = "write" THEN token[t] ELSE stateFile

WriteState(t) ==
  /\ pc[t] \in {"write", "orphan"}
  /\ stateFile' = Flushed(t)
  /\ token' = [token EXCEPT ![t] = Absent]
  /\ HasRegistration(t)
  /\ UNCHANGED <<cfg, diskQueue, written, pos, sendQueue, hand, backend, failed,
                 rejected>>

----------------------------------------------------------------------------
(* The environment. *)

\* An application appends a complete line to a followed file.
AppWrites(f) ==
  /\ written[f] < MaxLines
  /\ written' = [written EXCEPT ![f] = @ + 1]
  /\ UNCHANGED <<cfg, stateFile, diskQueue, process, backend, failed, rejected>>

\* The operator edits config.yaml, which is read when the process starts.
Reconfigure(c) ==
  /\ pc["main"] = "off" /\ c # cfg
  /\ cfg' = c
  /\ UNCHANGED <<stateFile, diskQueue, written, process, backend, failed, rejected>>

\* The agents table loses its rows: get_authorized_agent answers 401 from now.
Forget ==
  /\ valid # {}
  /\ valid' = {}
  /\ UNCHANGED <<cfg, stateFile, diskQueue, written, process, rows, stored, lostAcks,
                 failed, rejected>>

----------------------------------------------------------------------------

SenderStep == Get \/ PostAccepted \/ Buffer
BeaterStep == Beat \/ BeatAccepted

Request(t) == LoadState(t) \/ ReadState(t) \/ PostRejected(t) \/ PostFails(t)

Registration(t) ==
  \/ ClearState(t) \/ UnlinkState(t) \/ RegLoad(t) \/ RegRead(t)
  \/ Register(t) \/ OpenState(t) \/ WriteState(t)

Follow(f) == OpenLog(f) \/ Detect(f)

Next ==
  \/ Start \/ Halt \/ Drain \/ SenderStep \/ BeaterStep \/ Forget
  \/ \E t \in Workers : Request(t)
  \/ \E t \in Threads : Registration(t)
  \/ \E f \in Files : Follow(f) \/ AppWrites(f)
  \/ \E c \in Configs : Reconfigure(c)

Spec == Init /\ [][Next]_vars

\* Each thread that can run does; nobody owes the agent a start, a halt, a
\* line, an edit of the configuration or an answer of a given kind.
FairSpec ==
  /\ Spec
  /\ WF_vars(Drain \/ Registration("main"))
  /\ WF_vars(SenderStep \/ Request("sender") \/ Registration("sender"))
  /\ WF_vars(BeaterStep \/ Request("beater") \/ Registration("beater"))
  /\ \A f \in Files : WF_vars(Follow(f))

----------------------------------------------------------------------------
(* Properties. *)

Memory == Range(hand) \cup Range(sendQueue)

DiskOK ==
  /\ cfg \in Configs
  /\ stateFile \in {Torn, Absent} \cup 1..Len(rows)
  /\ diskQueue \in Seq(Logs)
  /\ written \in [Files -> 0..MaxLines]

\* The sender holds a payload exactly while it is busy with one.
ProcessOK ==
  /\ sendQueue \in Seq(Logs)
  /\ hand \in IF pc["sender"] \in {"off", "idle", "dead"} THEN {<<>>} ELSE {<<l>> : l \in Logs}
  /\ pos \in [Files -> Closed..MaxLines]
  /\ pc \in [Threads -> {"off", "regload", "regread", "regclear", "regunlink",
                         "register", "open", "write", "orphan", "drain", "up", "idle",
                         "load", "read", "post", "clear", "unlink", "buffer", "dead"}]
  /\ token \in [Threads -> 0..Len(rows)]
  /\ attempt \in [Threads -> 1..2]

BackendOK ==
  /\ rows \in Seq(Configs) /\ valid \subseteq 1..Len(rows)
  /\ stored \in [Logs -> Nat] /\ lostAcks \in [Logs -> Nat]

TypeOK == DiskOK /\ ProcessOK /\ BackendOK /\ failed \subseteq Logs /\ rejected \subseteq Workers

\* When the agent follows files from their end, the payloads of a file are on
\* disk, in hand and in memory in the order of their lines and each only once,
\* across failed sends, halts and reloads of the buffer.
InOrder(s) ==
  \A i, j \in DOMAIN s : i < j /\ s[i].file = s[j].file => s[i].line < s[j].line
PipelineInOrder == ~FromStart => InOrder(Pipeline)

\* The backend stores a line twice only if an answer to it was lost: neither a
\* 401 and its resend, nor a halt, nor a reload of the buffer duplicates one.
CopiesExplained == ~FromStart => \A l \in Logs : stored[l] <= 1 + lostAcks[l]

\* No request carries a token that was issued under another configuration
\* than the running one, whatever was in agent_state.json at the start.
TokenOfRunningConfig ==
  \A t \in Workers : pc[t] = "post" => rows[token[t]] = cfg

\* Failing requests alone never kill a thread: it takes a rejected token.
NoDeathWithoutRejection == rejected = {} => \A t \in Workers : pc[t] # "dead"

\* A running agent leaves agent_state.json empty only while a thread is
\* about to write it.
TornStateHasWriter ==
  pc["main"] = "up" /\ stateFile = Torn => \E t \in Workers : pc[t] = "write"

\* A halt between the truncation and the write of agent_state.json blocks every
\* later start: load_state raises and no step of the agent repairs the file.
TornStateIsPermanent ==
  [][pc["main"] \in {"off", "regload", "regread"} /\ stateFile = Torn
       => stateFile' = Torn /\ pc'["main"] \in {"off", "regload", "regread"}]_vars

\* The agent does what LogForwarding promises about every line.
Forwarding == INSTANCE LogForwarding WITH
  memory <- Memory, disk <- Range(diskQueue),
  delivered <- {l \in Logs : stored[l] > 0},
  status <- IF pc["main"] # "up" THEN "down"
            ELSE IF pc["sender"] = "dead" THEN "stuck" ELSE "up"
ForwardingSpec == Forwarding!Spec

\* While the process and its sender run, no payload stays in memory for good,
\* however often requests fail and tokens are rejected.
MemoryDrains ==
  \A l \in Logs : l \in Memory ~> (l \notin Memory \/ pc["sender"] \in {"off", "dead"})

\* README.md, Runtime Files: "failed log sends stored locally for retry".
FailedSendsKept ==
  pc["main"] = "up" => \A l \in failed : stored[l] > 0 \/ l \in Range(Pipeline)

\* The same: while the agent and its sender run, a stored log is sent again.
BufferedLogsAreRetried ==
  \A l \in Logs :
    pc["main"] = "up" /\ l \in Range(diskQueue)
      ~> (l \notin Range(diskQueue) \/ pc["sender"] \in {"off", "dead"})

=============================================================================
