-------------------------------- MODULE Launcher --------------------------------
(***************************************************************************)
(* The scripts that start and stop the whole system on one machine         *)
(* (scripts/start-all.ps1, stop-all.ps1) and what status-all.ps1 would     *)
(* report: the docker daemon, its containers, and the backend and the      *)
(* frontend, each a process in a window of its own.  A wait ends when what *)
(* it waits for is there or when its time is up; the containers share one  *)
(* deadline.  A step of the stop script may end nothing, or not all it is  *)
(* for, and the script goes on to say that everything has been stopped.    *)
(***************************************************************************)
EXTENDS Integers, Sequences

CONSTANTS
    Container,    \* bound: the containers waited for, in this order
    MaxStarts     \* bound: runs of the start script

App == {"backend", "frontend"}

Containers == {Container[i] : i \in DOMAIN Container}

VARIABLES
    docker,      \* the daemon: off, coming or on
    container,   \* container[c]: down, running or healthy
    app,         \* app[a]: the windows opening a, and the process listening on its port
    start,       \* the step of the start script, or "idle" where none runs
    at,          \* the container it waits for
    stop,        \* the step of the stop script, or "idle"
    starts,      \* runs of the start script
    overlap,     \* history: something was started since the last stop began
    survived     \* history: the apps and containers that a step of it left running

vars == <<docker, container, app, start, at, stop, starts, overlap, survived>>

(* A process that listens was opened in a titled window of the script, or  *)
(* by hand.                                                                *)
Listener == {"none", "window", "hand"}

LauncherTypeOK ==
    /\ docker \in {"off", "coming", "on"}
    /\ container \in [Containers -> {"down", "running", "healthy"}]
    /\ app \in [App -> [windows : 0..MaxStarts, listener : Listener]]
    /\ start \in {"idle", "docker", "compose", "containers", "backend", "frontend", "wait backend",
                  "wait frontend", "ready"}
    /\ at \in 1..Len(Container) + 1
    /\ stop \in {"idle", "frontend window", "frontend", "backend window", "backend", "docker", "done"}
    /\ starts \in 0..MaxStarts /\ overlap \in BOOLEAN
    /\ survived \subseteq App \cup Containers

Idle == [windows |-> 0, listener |-> "none"]

Init ==
    /\ docker \in {"off", "on"}
    /\ container = [c \in Containers |-> "down"]
    /\ app = [a \in App |-> Idle]
    /\ start = "idle" /\ at = 1
    /\ stop = "idle" /\ starts = 0 /\ overlap = FALSE /\ survived = {}

Becomes(a, windows, listener) ==
    app' = [app EXCEPT ![a] = [windows |-> windows, listener |-> listener]]

-------------------------------------------------------------------------------
(* The machine *)

DockerUp ==
    /\ docker = "coming"
    /\ docker' = "on"
    /\ UNCHANGED <<container, app, start, at, stop, starts, overlap, survived>>

Heal(c) ==
    /\ container[c] = "running"
    /\ container' = [container EXCEPT ![c] = "healthy"]
    /\ UNCHANGED <<docker, app, start, at, stop, starts, overlap, survived>>

(* The process of a window begins to listen, or finds the port taken and   *)
(* ends.                                                                   *)
Listens(a) ==
    /\ app[a].windows > 0
    /\ Becomes(a, app[a].windows - 1,
               IF app[a].listener = "none" THEN "window" ELSE app[a].listener)
    /\ UNCHANGED <<docker, container, start, at, stop, starts, overlap, survived>>

Ends(a) ==
    /\ app[a].listener # "none"
    /\ Becomes(a, app[a].windows, "none")
    /\ UNCHANGED <<docker, container, start, at, stop, starts, overlap, survived>>

(* A developer runs it in a terminal. *)
ByHand(a) ==
    /\ app[a].listener = "none"
    /\ Becomes(a, app[a].windows, "hand")
    /\ overlap' = TRUE
    /\ UNCHANGED <<docker, container, start, at, stop, starts, survived>>

-------------------------------------------------------------------------------
(* start-all.ps1 *)

StartAll ==
    /\ start = "idle" /\ starts < MaxStarts
    /\ start' = "docker" /\ at' = 1
    /\ starts' = starts + 1
    /\ overlap' = TRUE
    /\ UNCHANGED <<docker, container, app, stop, survived>>

(* Docker Desktop is launched where its daemon does not answer; the script *)
(* gives up when it takes too long.                                        *)
Docker ==
    /\ start = "docker"
    /\ \/ docker = "on" /\ start' = "compose" /\ UNCHANGED docker
       \/ docker = "off" /\ docker' = "coming" /\ UNCHANGED start
       \/ docker # "on" /\ start' = "idle" /\ UNCHANGED docker
    /\ UNCHANGED <<container, app, at, stop, starts, overlap, survived>>

(* docker compose up; when it fails some of the containers may have come up. *)
Compose ==
    /\ start = "compose"
    /\ overlap' = TRUE
    /\ \E up \in SUBSET Containers :
          /\ docker # "on" => up = {}
          /\ container' = [c \in Containers |->
                             IF c \in up /\ container[c] = "down" THEN "running" ELSE container[c]]
          /\ \/ docker = "on" /\ up = Containers /\ start' = "containers"
             \/ start' = "idle"
    /\ UNCHANGED <<docker, app, at, stop, starts, survived>>

(* One container after the other, under one deadline: once it has passed,  *)
(* the rest are not looked at.                                             *)
AwaitContainer ==
    /\ start = "containers"
    /\ at <= Len(Container)
    /\ \/ /\ container[Container[at]] = "healthy"
          /\ at' = at + 1
       \/ at' = Len(Container) + 1    \* the deadline
    /\ UNCHANGED <<docker, container, app, start, stop, starts, overlap, survived>>

(* The health endpoint of the ML service is asked a few times; either way  *)
(* the script goes on.                                                     *)
AskMl ==
    /\ start = "containers"
    /\ at > Len(Container)
    /\ start' = "backend"
    /\ UNCHANGED <<docker, container, app, at, stop, starts, overlap, survived>>

After(a) == IF a = "backend" THEN "frontend" ELSE "ready"
Wait(a) == IF a = "backend" THEN "wait backend" ELSE "wait frontend"

(* Nothing is opened where the port answers already. *)
Open(a) ==
    /\ start = a
    /\ IF app[a].listener # "none"
         THEN start' = After(a) /\ UNCHANGED <<app, overlap>>
         ELSE /\ Becomes(a, app[a].windows + 1, "none")
              /\ start' = Wait(a)
              /\ overlap' = TRUE
    /\ UNCHANGED <<docker, container, at, stop, starts, survived>>

(* It listens, or the time is up. *)
AwaitApp(a) ==
    /\ start = Wait(a)
    /\ start' = After(a)
    /\ UNCHANGED <<docker, container, app, at, stop, starts, overlap, survived>>

(* The table that calls all of it healthy and ready is printed. *)
Ready ==
    /\ start = "ready"
    /\ start' = "idle"
    /\ UNCHANGED <<docker, container, app, at, stop, starts, overlap, survived>>

-------------------------------------------------------------------------------
(* stop-all.ps1 *)

StopAll ==
    /\ stop \in {"idle", "done"}
    /\ stop' = "frontend window"
    /\ overlap' = (start # "idle") /\ survived' = {}
    /\ UNCHANGED <<docker, container, app, start, at, starts>>

Windows(a) == IF a = "frontend" THEN "frontend window" ELSE "backend window"
Step(a) == IF a = "frontend" THEN "backend window" ELSE "docker"

(* Mutant: the windows are left to the listeners' end. *)
KillNoWindows(a) ==
    /\ stop = Windows(a)
    /\ stop' = a
    /\ UNCHANGED <<docker, container, app, start, at, starts, overlap, survived>>

(* taskkill ends the windows with the script's title and all that runs in  *)
(* them, or not all of them; what it says of that is thrown away.          *)
KillWindows(a) ==
    /\ stop = Windows(a)
    /\ \E left \in 0..app[a].windows, listener \in {app[a].listener, "none"} :
          /\ app[a].listener # "window" => listener = app[a].listener
          /\ Becomes(a, left, listener)
          /\ survived' = survived \cup {x \in {a} : left > 0 \/ listener = "window"}
    /\ stop' = a
    /\ UNCHANGED <<docker, container, start, at, starts, overlap>>

(* A port that cannot be queried and a process that does not end are passed over. *)
StopPortListener(a) ==
    /\ stop = a
    /\ \E listener \in {app[a].listener, "none"} :
          /\ Becomes(a, app[a].windows, listener)
          /\ survived' = survived \cup {x \in {a} : listener # "none"}
    /\ stop' = Step(a)
    /\ UNCHANGED <<docker, container, start, at, starts, overlap>>

(* Without a daemon that answers there is nothing to take down; what docker *)
(* compose down answers is not looked at.                                   *)
ComposeDown ==
    /\ stop = "docker"
    /\ \E left \in SUBSET Containers :
          /\ docker # "on" => left = Containers
          /\ container' = [c \in Containers |-> IF c \in left THEN container[c] ELSE "down"]
          /\ survived' = survived \cup {c \in left : docker = "on" /\ container[c] # "down"}
    /\ stop' = "done"
    /\ UNCHANGED <<docker, app, start, at, starts, overlap>>

Next ==
    \/ DockerUp \/ \E c \in Containers : Heal(c)
    \/ \E a \in App : Listens(a) \/ Ends(a) \/ ByHand(a) \/ Open(a) \/ AwaitApp(a)
                      \/ KillWindows(a) \/ StopPortListener(a)
    \/ StartAll \/ Docker \/ Compose \/ AwaitContainer \/ AskMl \/ Ready
    \/ StopAll \/ ComposeDown

Spec == Init /\ [][Next]_vars

-------------------------------------------------------------------------------
(* When the stop script reports that everything has been stopped, whatever *)
(* still runs is something that one of its steps tried to end and did not: *)
(* nothing is passed over, not even a backend that had a window but did    *)
(* not listen yet, unless something was started while it worked.           *)
StopStopsAll ==
    stop = "done" /\ ~overlap =>
        {c \in Containers : container[c] # "down"} \cup {a \in App : app[a] # Idle} \subseteq survived

===============================================================================
