------------------------- MODULE MCThreadPrograms --------------------------
(***************************************************************************)
(* The instance for TLC of the small programs with threads or processes:   *)
(* the producers and consumers, the shared counters, the ROS bridge and    *)
(* the copy through a pipe.  They do not interact: a behaviour runs one,   *)
(* the others stay as they start.                                          *)
(***************************************************************************)
EXTENDS BlockingQueue

CONSTANTS
  Threads, Rounds, Programs, MaxFailures, Free,     \* SharedCounters
  Builds, MaxStarts, MaxPosted, MaxSignals,         \* RosBridge
  Size, Buf, Sources, Faults                        \* PipeCopy

VARIABLES
  part,                                             \* which of them runs
  program, atomic, count, mutex, copy, pc, round,   \* SharedCounters
  failures, verdict,
  build, running, seen, ok, held, window, closing,  \* RosBridge
  spin, ready, button, status, posted, starts, signals,
  source, input, ends, child, parent, buf, output, failed    \* PipeCopy

Counters == INSTANCE SharedCounters

Bridge == INSTANCE RosBridge

Pipe == INSTANCE PipeCopy

ASSUME PartsAssumption ==
  Counters!CountersAssumption /\ Bridge!BridgeAssumption /\ Pipe!PipeAssumption

counterVars == <<program, atomic, count, mutex, copy, pc, round, failures, verdict>>
bridgeVars  == <<build, running, seen, ok, held, window, closing, spin, ready,
                 button, status, posted, starts, signals>>
pipeVars    == <<source, input, ends, child, parent, buf, output, failed>>
allVars     == <<vars, counterVars, bridgeVars, pipeVars, part>>

\* A part that does not run has one initial state.
MCInit ==
  /\ Init /\ Counters!Init /\ Bridge!Init /\ Pipe!Init
  /\ part \in {"queue", "counters", "bridge", "pipe"}
  /\ part # "counters" => program = "counter"
  /\ part # "bridge" => build = "sim"
  /\ part # "pipe" => source = "file"

Runs(p) == part = p /\ UNCHANGED part

QueueRuns   == Runs("queue")    /\ Next          /\ UNCHANGED <<counterVars, bridgeVars, pipeVars>>
CountersRun == Runs("counters") /\ Counters!Next /\ UNCHANGED <<vars, bridgeVars, pipeVars>>
BridgeRuns  == Runs("bridge")   /\ Bridge!Next   /\ UNCHANGED <<vars, counterVars, pipeVars>>
PipeRuns    == Runs("pipe")     /\ Pipe!Next     /\ UNCHANGED <<vars, counterVars, bridgeVars>>

\* The counters may have compared, the window be gone, the copy be done.
Ended ==
  /\ \/ part = "counters" /\ verdict # "joining"
     \/ part = "bridge" /\ window \in {"closed", "aborted"}
     \/ part = "pipe" /\ parent = "done"
  /\ UNCHANGED allVars

MCNext == QueueRuns \/ CountersRun \/ BridgeRuns \/ PipeRuns \/ Ended

\* The fairness of each module, where that part runs.  The bridge's can only be
\* owed once somebody has clicked.
MCFairness ==
  /\ WF_vars(part = "queue" /\ MainStep)
  /\ \A p \in Producers : WF_vars(part = "queue" /\ ProducerStep(p))
  /\ \A c \in Consumers : WF_vars(part = "queue" /\ ConsumerStep(c))
  /\ WF_counterVars(part = "counters" /\ Counters!Compare)
  /\ \A t \in Threads : WF_counterVars(part = "counters" /\ Counters!Step(t))
  /\ WF_pipeVars(part = "pipe" /\ Pipe!ChildStep)
  /\ WF_pipeVars(part = "pipe" /\ Pipe!ParentStep)
  /\ Bridge!Fairness

MCSpec == MCInit /\ [][MCNext]_allVars /\ MCFairness

\* The type invariants of all.
TypesOK == TypeOK /\ Counters!TypeOK /\ Bridge!TypeOK /\ Pipe!TypeOK

\* The spinning thread finds what it uses, and stop() leaves nothing behind.
HeldWhileUsed == Bridge!HeldWhileUsed

\* The parent's output is the child's message, or the file, from its beginning.
CopiedInOrder == Pipe!CopiedInOrder

\* The programs end, the counters with the right verdict, and stop() returns:
\* nobody waits for ever.
EveryoneReturns ==
  /\ <>(/\ part = "queue"    => Returned
        /\ part = "counters" => Counters!CountsRight
        /\ part = "pipe"     => Pipe!Done)
  /\ Bridge!StopReturns

===========================================================================
