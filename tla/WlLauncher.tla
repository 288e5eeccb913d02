----------------------------- MODULE WlLauncher -----------------------------
(***************************************************************************)
(* onetool wayland_bridge (swm/wayland/wayland_bridge.c): it starts        *)
(* wlbridge and an application as children, polls both, and stops the one  *)
(* when the other ends.  The children are independent processes; a child   *)
(* that ended is a zombie until waitpid has taken it.                      *)
(***************************************************************************)
CONSTANTS WithApp       \* whether an application may be given

VARIABLES
    step,         \* "start", "startup", "launch", "poll_app", "poll_bridge", "end_bridge", "end_app", "wait", "done"
    bridge, app,  \* "none", "runs", "zombie", "reaped"
    termed        \* children that got SIGTERM
vars == <<step, bridge, app, termed>>

States == {"none", "runs", "zombie", "reaped"}
TypeOK ==
    /\ step \in {"start", "startup", "launch", "poll_app", "poll_bridge", "end_bridge", "end_app", "wait", "done"}
    /\ bridge \in States /\ app \in States /\ termed \subseteq {"bridge", "app"}

Init == step = "start" /\ bridge = "none" /\ app = "none" /\ termed = {}

\* The first fork, which may fail.  A child that cannot exec wlbridge exits.
ForkBridge ==
    /\ step = "start"
    /\ \/ step' = "startup" /\ bridge' = "runs"
       \/ step' = "done" /\ UNCHANGED bridge
    /\ UNCHANGED <<app, termed>>

\* After 250 ms: waitpid with WNOHANG, and without an application the blocking wait.
AfterStartup ==
    /\ step = "startup"
    /\ IF bridge = "zombie"
       THEN bridge' = "reaped" /\ step' = "done"
       ELSE step' \in {"wait"} \cup (IF WithApp THEN {"launch"} ELSE {}) /\ UNCHANGED bridge
    /\ UNCHANGED <<app, termed>>

\* The fork of the application; when it fails the bridge is stopped and taken.
ForkApp ==
    /\ step = "launch"
    /\ \/ app' = "runs" /\ step' = "poll_app" /\ UNCHANGED termed
       \/ step' = "end_bridge" /\ termed' = termed \cup {"bridge"} /\ UNCHANGED app
    /\ UNCHANGED bridge

\* Mutant: the bridge is left alone.
PollAppOnly ==
    /\ step = "poll_app"
    /\ IF app = "zombie"
       THEN app' = "reaped" /\ step' = "done" /\ UNCHANGED termed
       ELSE step' = "poll_bridge" /\ UNCHANGED <<app, termed>>
    /\ UNCHANGED bridge

\* One turn of the loop looks at the application first ...
PollApp ==
    /\ step = "poll_app"
    /\ IF app = "zombie"
       THEN app' = "reaped" /\ step' = "end_bridge" /\ termed' = termed \cup {"bridge"}
       ELSE step' = "poll_bridge" /\ UNCHANGED <<app, termed>>
    /\ UNCHANGED bridge

\* ... and then at the bridge; it sleeps 20 ms.
PollBridge ==
    /\ step = "poll_bridge"
    /\ IF bridge = "zombie"
       THEN bridge' = "reaped" /\ step' = "end_app" /\ termed' = termed \cup {"app"}
       ELSE step' = "poll_app" /\ UNCHANGED <<bridge, termed>>
    /\ UNCHANGED app

\* The blocking waitpid on a child that was told to stop, or on the bridge alone
TakeBridge ==
    /\ step \in {"end_bridge", "wait"} /\ bridge = "zombie" /\ bridge' = "reaped" /\ step' = "done"
    /\ UNCHANGED <<app, termed>>
TakeApp ==
    /\ step = "end_app" /\ app = "zombie" /\ app' = "reaped" /\ step' = "done"
    /\ UNCHANGED <<bridge, termed>>

\* A child ends by itself, or by SIGTERM, which neither is known to ignore.
BridgeEnds == bridge = "runs" /\ bridge' = "zombie" /\ UNCHANGED <<step, app, termed>>
AppEnds == app = "runs" /\ app' = "zombie" /\ UNCHANGED <<step, bridge, termed>>

LauncherStep ==
    \/ ForkBridge \/ AfterStartup \/ ForkApp \/ PollApp \/ PollBridge \/ TakeBridge \/ TakeApp
    \/ "bridge" \in termed /\ BridgeEnds
    \/ "app" \in termed /\ AppEnds
Next == LauncherStep \/ BridgeEnds \/ AppEnds
Spec == Init /\ [][Next]_vars /\ WF_vars(LauncherStep)

\* When the launcher has ended, neither child is left running or as a zombie, at
\* whatever moment each of them ended (wayland_bridge.c:232).
NoChildLeft == step = "done" => {bridge, app} \subseteq {"none", "reaped"}
\* When one of the two ends, the launcher ends too.
Waits == "zombie" \in {bridge, app}
Settled == step = "done"
EndsTogether == Waits ~> Settled
=============================================================================
