----------------------------- MODULE RosBridge -----------------------------
(***************************************************************************)
(* qt_learning/qt_ros2_demo: the window's thread starts and stops the      *)
(* bridge.  Built with ROS 2, start() makes a node, a subscriber, a        *)
(* publisher and its timer and a thread that spins them; stop() clears     *)
(* m_running, joins the thread and drops the objects.  Built without, a    *)
(* QTimer of the window's thread stands for all of these.  m_running is a  *)
(* plain bool written by one thread and read by the other: the spinning    *)
(* thread sees a write some time after it was made.                        *)
(***************************************************************************)
EXTENDS Naturals, FiniteSets

CONSTANTS
  Builds,              \* HAS_ROS2 defined or not: \subseteq {"ros", "sim"}
  MaxStarts,           \* bound: times the bridge is started
  MaxPosted,           \* bound: messages posted to the window and not yet shown
  MaxSignals           \* bound: Ctrl-C, which rclcpp turns into a shutdown

\* What is assumed of the constants; the MC module that instantiates this one
\* has it checked.
BridgeAssumption ==
  /\ Builds \subseteq {"ros", "sim"}
  /\ MaxStarts \in Nat /\ MaxPosted \in Nat /\ MaxSignals \in Nat

VARIABLES
  build,
  running,             \* m_running; m_simTimer # nullptr in the other build
  seen,                \* m_running as the spinning thread reads it
  ok,                  \* rclcpp::ok()
  held,                \* which of the members m_node, ... are not null
  window,              \* the window's thread: idle, create, join, closed, aborted
  closing,             \* the window is being destroyed, and calls stop() for it
  spin,                \* the spinning thread: none, add, test, work, publish,
                       \* deliver, remove, done
  ready,               \* callbacks spin_some has still to run
  button, status,      \* what the toggle button offers, what the label says
  posted,              \* messageReceived calls queued to the window's thread
  starts, signals

bridgeVars == <<build, running, seen, ok, held, window, closing, spin, ready,
                button, status, posted, starts, signals>>

Objects == {"node", "subscriber", "publisher", "timer"}

Init ==
  /\ build \in Builds
  /\ running = FALSE /\ seen = FALSE /\ held = {}
  /\ ok = FALSE                                    \* start() calls rclcpp::init
  /\ window = "idle" /\ closing = FALSE
  /\ spin = "none" /\ ready = {}
  /\ button = "start" /\ status = "idle" /\ posted = 0
  /\ starts = 0 /\ signals = 0

---------------------------------------------------------------------------
(* The window's thread *)

\* onToggleClicked while the bridge does not run.
ClickStart ==
  /\ window = "idle" /\ ~running /\ starts < MaxStarts
  /\ starts' = starts + 1
  /\ IF build = "ros"
     THEN /\ ok' = TRUE                            \* init, unless it is up already
          /\ window' = "create"
          /\ UNCHANGED <<running, button, status>>
     ELSE /\ running' = TRUE
          /\ button' = "stop" /\ status' = "running"
          /\ UNCHANGED <<ok, window>>
  /\ UNCHANGED <<build, seen, held, closing, spin, ready, posted, signals>>

\* The node's constructor throws if a signal has shut rclcpp down meanwhile,
\* and nothing between it and main catches.
Create ==
  /\ window = "create"
  /\ IF ok
     THEN /\ held' = Objects
          /\ running' = TRUE /\ seen' = TRUE       \* starting a thread synchronises
          /\ spin' = "add"
          /\ window' = "idle" /\ button' = "stop" /\ status' = "running"
     ELSE /\ window' = "aborted"
          /\ UNCHANGED <<running, seen, held, spin, button, status>>
  /\ UNCHANGED <<build, ok, closing, ready, posted, starts, signals>>

\* The end of stop() and of its caller: a closed window shows nothing more.
Settle ==
  IF closing
  THEN /\ window' = "closed"
       /\ UNCHANGED <<button, status>>
  ELSE /\ window' = "idle"
       /\ button' = "start" /\ status' = "stopped"

\* The members that stop() drops before it joins the thread.
DroppedAll == Objects

DroppedFirst == {"timer"}

\* stop(), from a click while the bridge runs or from the bridge's destructor.
Stop ==
  /\ running
  /\ running' = FALSE
  /\ IF build = "ros"
     THEN /\ held' = held \ DroppedFirst
          /\ window' = "join"
          /\ UNCHANGED <<button, status>>
     ELSE /\ UNCHANGED held
          /\ Settle
  /\ UNCHANGED <<build, seen, ok, spin, ready, posted, starts, signals>>

ClickStop == window = "idle" /\ Stop /\ UNCHANGED closing

\* The thread's function has returned.
Joined == spin = "done"

Join ==
  /\ window = "join" /\ Joined
  /\ spin' = "none"
  /\ held' = {}                                   \* publisher, subscriber and node
  /\ Settle
  /\ UNCHANGED <<build, running, seen, ok, closing, ready, posted, starts, signals>>

\* The user closes the window: app.exec returns and main destroys it.
CloseWindow ==
  /\ window = "idle" /\ ~closing
  /\ closing' = TRUE
  /\ UNCHANGED <<build, running, seen, ok, held, window, spin, ready, button, status,
                 posted, starts, signals>>

Destroy ==
  /\ window = "idle" /\ closing
  /\ \/ Stop
     \/ /\ ~running /\ window' = "closed"
        /\ UNCHANGED <<build, running, seen, ok, held, spin, ready, button, status,
                       posted, starts, signals>>
  /\ UNCHANGED closing

\* The window's event loop, which a window that is being destroyed has left.
Attends == window = "idle" /\ ~closing

\* onMessageReceived, from the queue; the simulation's timer calls it at once.
ShowMessage ==
  /\ Attends /\ posted > 0
  /\ posted' = posted - 1
  /\ UNCHANGED <<build, running, seen, ok, held, window, closing, spin, ready, button,
                 status, starts, signals>>

---------------------------------------------------------------------------
(* The spinning thread: runRosSpin *)

spinUnchanged == <<build, running, seen, ok, held, window, closing, button, status,
                   starts, signals>>

AddNode ==
  /\ spin = "add" /\ ok /\ spin' = "test"
  /\ UNCHANGED <<ready, posted>> /\ UNCHANGED spinUnchanged

\* The executor throws when a signal has shut rclcpp down before the thread got
\* here; out of a thread's function that ends the program with all it held.
AddThrows ==
  /\ spin = "add" /\ ~ok
  /\ window' = "aborted" /\ spin' = "none" /\ held' = {} /\ running' = FALSE
  /\ UNCHANGED <<build, seen, ok, closing, ready, button, status, posted, starts, signals>>

\* The loop's condition.
GoesOn == seen /\ ok

LoopTest ==
  /\ spin = "test"
  /\ spin' = IF GoesOn THEN "work" ELSE "remove"
  /\ UNCHANGED <<ready, posted>> /\ UNCHANGED spinUnchanged

\* spin_some takes what is ready now: the publisher's timer while there is one,
\* a message of this or another node.
Collect ==
  /\ spin = "work"
  /\ \E cs \in SUBSET {"publish", "deliver"} :
       /\ "publish" \in cs => "timer" \in held
       /\ ready' = cs
       /\ spin' \in IF cs = {} THEN {"test"} ELSE cs
  /\ UNCHANGED posted /\ UNCHANGED spinUnchanged

\* The next callback, or after the last one the pause and the test.
Continue(done) ==
  /\ ready' = ready \ {done}
  /\ spin' \in IF ready' = {} THEN {"test"} ELSE ready'

Publish ==           \* m_publisher->publish, stamped with m_node->now()
  /\ spin = "publish" /\ Continue("publish")
  /\ UNCHANGED posted /\ UNCHANGED spinUnchanged

Deliver ==           \* emit messageReceived, which another thread's window queues
  /\ spin = "deliver" /\ Continue("deliver")
  /\ posted' = IF posted < MaxPosted THEN posted + 1 ELSE posted
  /\ UNCHANGED spinUnchanged

RemoveNode ==
  /\ spin = "remove" /\ spin' = "done"
  /\ UNCHANGED <<ready, posted>> /\ UNCHANGED spinUnchanged

---------------------------------------------------------------------------
(* The machine and the user's Ctrl-C *)

Propagate ==
  /\ spin # "none" /\ seen # running
  /\ seen' = running
  /\ UNCHANGED <<build, running, ok, held, window, closing, spin, ready, button, status,
                 posted, starts, signals>>

\* The handler rclcpp::init installed shuts rclcpp down; the window stays.
Signal ==
  /\ ok /\ signals < MaxSignals
  /\ ok' = FALSE /\ signals' = signals + 1
  /\ UNCHANGED <<build, running, seen, held, window, closing, spin, ready, button, status,
                 posted, starts>>

---------------------------------------------------------------------------
WindowStep == Create \/ Join \/ Destroy \/ ShowMessage
SpinStep   == AddNode \/ AddThrows \/ LoopTest \/ Collect \/ Publish \/ Deliver \/ RemoveNode

Next ==
  \/ ClickStart \/ ClickStop \/ CloseWindow
  \/ WindowStep \/ SpinStep \/ Propagate \/ Signal

Spec == Init /\ [][Next]_bridgeVars

\* Both threads run on, a write reaches the other thread in the end, and
\* callbacks return.  Nobody owes a click, a message or a signal.
Fairness ==
  /\ WF_bridgeVars(Create \/ Join \/ Destroy)
  /\ WF_bridgeVars(SpinStep)
  /\ WF_bridgeVars(Propagate)

FairSpec == Spec /\ Fairness

---------------------------------------------------------------------------
(* Properties *)

\* The type invariant.
TypeOK ==
  /\ build \in Builds /\ {running, seen, ok, closing} \subseteq BOOLEAN
  /\ held \subseteq Objects
  /\ window \in {"idle", "create", "join", "closed", "aborted"}
  /\ spin \in {"none", "add", "test", "work", "publish", "deliver", "remove", "done"}
  /\ ready \subseteq {"publish", "deliver"}
  /\ button \in {"start", "stop"} /\ status \in {"idle", "running", "stopped"}
  /\ posted \in 0 .. MaxPosted /\ starts \in 0 .. MaxStarts /\ signals \in 0 .. MaxSignals

\* The members stop() drops (RosBridge.cpp:75-77) are there whenever the spinning
\* thread reads one: m_node in add_node, remove_node and the timer's callback,
\* m_publisher in that callback, also in one that began before m_running was
\* cleared.  An idle window whose bridge is stopped has no thread left, so
\* start() never overwrites a joinable std::thread, and the button offers what
\* a click will do.
HeldWhileUsed ==
  /\ spin \in {"add", "remove", "publish"} => "node" \in held
  /\ spin = "publish" => "publisher" \in held
  /\ window \in {"idle", "create", "closed"} /\ ~running => spin = "none" /\ held = {}
  /\ window = "idle" => (button = "stop" <=> running)

\* stop() returns: the join does not hold the window for ever, whether the
\* thread sees m_running cleared, finds rclcpp shut down or is in a callback,
\* unless the thread ends the program with an exception before its loop.
StopReturns == window = "join" ~> window \in {"idle", "closed", "aborted"}

=============================================================================
