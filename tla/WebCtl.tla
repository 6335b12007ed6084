------------------------------- MODULE WebCtl -------------------------------
(***************************************************************************)
(* The controller of the public web server, internal/webctl: Start and     *)
(* Stop, which the bot runs in a goroutine per button and main runs once   *)
(* at boot; the listeners, whose Serve goroutines get going on their own;  *)
(* the setting "web_enabled", which is all that a restart keeps.           *)
(*                                                                         *)
(* A step is what happens between two releases of Controller.mu, or one    *)
(* bind, shutdown or write of the setting.                                 *)
(***************************************************************************)
EXTENDS Naturals

CONSTANTS
  Actors,      \* goroutines that run commands
  Main,        \* the one that runs main
  Ports,       \* what is listened on: Http, and ports that may fail
  Http,
  Orders,      \* the buttons pressed: "start", "stop", "domain"
  Others,      \* the ports another program may take
  MaxOrders,   \* bound: buttons pressed
  MaxRestarts  \* bound: restarts of the process

Nobody == "nobody"

ASSUME WebCtlAssumption ==
  /\ Main \in Actors /\ Nobody \notin Actors
  /\ Http \in Ports /\ Others \subseteq Ports
  /\ Orders \subseteq {"start", "stop", "domain"}
  /\ MaxOrders \in Nat /\ MaxRestarts \in Nat

Server == (1..MaxOrders + 1) \X Ports   \* an http.Server: which Start made it, its port

VARIABLES
  \* Controller
  servers, running, holder,      \* holder of mu between two steps
  \* the command of each goroutine
  pc, order, srvs,               \* srvs: what its Stop is shutting down
  fresh, left,                   \* of the Start that holds mu: its listeners, ports to try
  \* net/http
  bound, serving, shut,          \* listeners, those in Serve, those told to stop
  \* what a restart keeps
  web_enabled,
  other,                         \* ports another program has
  starts, orders, restarts,
  raced,                         \* history: a button was pressed while a command ran
  kept                           \* history: "up" or "down" as the process before left the
                                 \* pages; "open" if it ended in a command, a button was
                                 \* pressed since or the port was found taken

controller == <<servers, running, holder>>
command    == <<pc, order, srvs, fresh, left>>
net        == <<bound, serving, shut>>
asked      == <<orders, raced, restarts, kept>>
webVars    == <<controller, command, net, web_enabled, other, starts, asked>>

TypeOK ==
  /\ servers \subseteq Server /\ running \in BOOLEAN /\ holder \in Actors \cup {Nobody}
  /\ pc \in [Actors -> {"idle", "boot", "check", "take", "close", "save0", "lock",
                        "http", "more", "save1"}]
  /\ order \in [Actors -> {"start", "stop"}]
  /\ srvs \in [Actors -> SUBSET Server] /\ fresh \subseteq Server /\ left \subseteq Ports
  /\ bound \subseteq Server /\ serving \subseteq bound /\ shut \subseteq Server
  /\ web_enabled \in {"0", "1"} /\ other \subseteq Ports
  /\ starts \in 0..MaxOrders + 1 /\ orders \in 0..MaxOrders /\ restarts \in 0..MaxRestarts
  /\ raced \in BOOLEAN /\ kept \in {"up", "down", "open"}

(* main has started the bot and comes to the pages next.                   *)
Boot == [a \in Actors |-> IF a = Main THEN "boot" ELSE "idle"]

Init ==
  /\ web_enabled = "1"
  /\ servers = {} /\ running = FALSE /\ holder = Nobody
  /\ pc = Boot
  /\ order = [a \in Actors |-> "start"]
  /\ srvs = [a \in Actors |-> {}] /\ fresh = {} /\ left = {}
  /\ bound = {} /\ serving = {} /\ shut = {}
  /\ starts = 0 /\ orders = 0 /\ restarts = 0
  /\ other \in SUBSET Others
  /\ raced = FALSE
  /\ kept = "up"                 \* a fresh installation has the pages up

Quiet == \A a \in Actors : pc[a] = "idle"
Goto(a, l) == pc' = [pc EXCEPT ![a] = l]
Taken(p)   == p \in other \/ \E x \in bound : x[2] = p

-----------------------------------------------------------------------------
(* A button: "domain" restarts the server only if it runs.                 *)
Order(a, o) ==
  /\ a # Main /\ pc[a] = "idle" /\ orders < MaxOrders
  /\ o \in Orders
  /\ Goto(a, IF o = "domain" THEN "check" ELSE "take")
  /\ order' = [order EXCEPT ![a] = IF o = "stop" THEN "stop" ELSE "start"]
  /\ raced' = (raced \/ ~Quiet)
  /\ kept' = "open"
  /\ orders' = orders + 1
  /\ UNCHANGED <<controller, srvs, fresh, left, net, web_enabled, other, starts, restarts>>

(* main brings the pages up if so stored.                                  *)
Enabled(a) ==
  /\ pc[a] = "boot"
  /\ Goto(a, IF web_enabled = "1" THEN "take" ELSE "idle")
  /\ UNCHANGED <<controller, order, srvs, fresh, left, net, web_enabled, other, starts,
                 asked>>

Check(a) ==
  /\ pc[a] = "check" /\ holder = Nobody
  /\ Goto(a, IF running THEN "take" ELSE "idle")
  /\ UNCHANGED <<controller, order, srvs, fresh, left, net, web_enabled, other, starts,
                 asked>>

(* Mutant: the servers stay with the controller.                           *)
Take_keeps(a) ==
  /\ pc[a] = "take" /\ holder = Nobody
  /\ srvs' = [srvs EXCEPT ![a] = servers]
  /\ running' = FALSE
  /\ Goto(a, "close")
  /\ UNCHANGED <<servers, holder, order, fresh, left, net, web_enabled, other, starts, asked>>
(* Mutant: the servers are forgotten before they are remembered.           *)
Take_forgets(a) ==
  /\ pc[a] = "take" /\ holder = Nobody
  /\ servers' = {}
  /\ running' = FALSE
  /\ Goto(a, "close")
  /\ UNCHANGED <<holder, order, srvs, fresh, left, net, web_enabled, other, starts, asked>>
(* Stop, which is also how Start begins.                                   *)
Take(a) ==
  /\ pc[a] = "take" /\ holder = Nobody
  /\ srvs' = [srvs EXCEPT ![a] = servers]
  /\ servers' = {}
  /\ running' = FALSE
  /\ Goto(a, "close")
  /\ UNCHANGED <<holder, order, fresh, left, net, web_enabled, other, starts, asked>>

(* Mutant: the port is free while the server still serves.                 *)
Shutdown_serving(a, x) ==
  /\ pc[a] = "close" /\ x \in srvs[a]
  /\ srvs' = [srvs EXCEPT ![a] = @ \ {x}]
  /\ shut' = shut \cup {x}
  /\ bound' = bound \ {x}
  /\ UNCHANGED <<controller, pc, order, fresh, left, serving, web_enabled, other, starts,
                 asked>>
(* Shutdown closes the listener of a server that is in Serve; one that is  *)
(* not there yet closes its own when it gets there.                        *)
Shutdown(a, x) ==
  /\ pc[a] = "close" /\ x \in srvs[a]
  /\ srvs' = [srvs EXCEPT ![a] = @ \ {x}]
  /\ shut' = shut \cup {x}
  /\ IF x \in serving THEN bound' = bound \ {x} /\ serving' = serving \ {x}
     ELSE UNCHANGED <<bound, serving>>
  /\ UNCHANGED <<controller, pc, order, fresh, left, web_enabled, other, starts, asked>>

Closed(a) ==
  /\ pc[a] = "close" /\ srvs[a] = {}
  /\ Goto(a, "save0")
  /\ UNCHANGED <<controller, order, srvs, fresh, left, net, web_enabled, other, starts,
                 asked>>

SaveOff(a) ==
  /\ pc[a] = "save0"
  /\ web_enabled' = "0"
  /\ Goto(a, IF order[a] = "start" THEN "lock" ELSE "idle")
  /\ UNCHANGED <<controller, order, srvs, fresh, left, net, other, starts, asked>>

(* The rest of Start holds mu.                                             *)
Lock(a) ==
  /\ pc[a] = "lock" /\ holder = Nobody
  /\ holder' = a
  /\ starts' = starts + 1
  /\ Goto(a, "http")
  /\ UNCHANGED <<servers, running, order, srvs, fresh, left, net, web_enabled, other,
                 asked>>

(* Mutant: the error path leaves mu locked.                                *)
ListenHttp_locked(a) ==
  /\ pc[a] = "http"
  /\ UNCHANGED holder
  /\ IF Taken(Http)
     THEN Goto(a, "idle") /\ UNCHANGED <<fresh, left, bound>>
     ELSE /\ Goto(a, "more")
          /\ bound' = bound \cup {<<starts, Http>>}
          /\ fresh' = {<<starts, Http>>}
          /\ left' = Ports \ {Http}
  /\ kept' = IF Taken(Http) THEN "open" ELSE kept
  /\ UNCHANGED <<servers, running, order, srvs, serving, shut, web_enabled, other,
                 starts, orders, raced, restarts>>
ListenHttp(a) ==
  /\ pc[a] = "http"
  /\ IF Taken(Http)
     THEN Goto(a, "idle") /\ holder' = Nobody /\ UNCHANGED <<fresh, left, bound>>
     ELSE /\ Goto(a, "more")
          /\ bound' = bound \cup {<<starts, Http>>}
          /\ fresh' = {<<starts, Http>>}
          /\ left' = Ports \ {Http}
          /\ UNCHANGED holder
  /\ kept' = IF Taken(Http) THEN "open" ELSE kept
  /\ UNCHANGED <<servers, running, order, srvs, serving, shut, web_enabled, other,
                 starts, orders, raced, restarts>>

(* The other ports come up if they can (no domain, no certificate).        *)
ListenMore(a, p) ==
  /\ pc[a] = "more" /\ p \in left
  /\ left' = left \ {p}
  /\ \/ UNCHANGED <<bound, fresh>>
     \/ /\ ~Taken(p)
        /\ bound' = bound \cup {<<starts, p>>}
        /\ fresh' = fresh \cup {<<starts, p>>}
  /\ UNCHANGED <<controller, pc, order, srvs, serving, shut, web_enabled, other,
                 starts, asked>>

Commit(a) ==
  /\ pc[a] = "more" /\ left = {}
  /\ servers' = fresh
  /\ running' = TRUE
  /\ fresh' = {}
  /\ Goto(a, "save1")
  /\ UNCHANGED <<holder, order, srvs, left, net, web_enabled, other, starts, asked>>

(* Mutant: a server that came up is not stored as up.                      *)
SaveOn_not(a) ==
  /\ pc[a] = "save1"
  /\ holder' = Nobody
  /\ Goto(a, "idle")
  /\ UNCHANGED <<servers, running, order, srvs, fresh, left, net, web_enabled, other, starts,
                 asked>>
SaveOn(a) ==
  /\ pc[a] = "save1"
  /\ web_enabled' = "1"
  /\ holder' = Nobody
  /\ Goto(a, "idle")
  /\ UNCHANGED <<servers, running, order, srvs, fresh, left, net, other, starts, asked>>

(* Mutant: Serve does not look whether Shutdown came before it.            *)
Serve_late(x) ==
  /\ x \in bound \ serving
  /\ serving' = serving \cup {x}
  /\ UNCHANGED <<controller, command, bound, shut, web_enabled, other, starts, asked>>
(* The goroutine of a listener reaches Serve.                              *)
Serve(x) ==
  /\ x \in bound \ serving
  /\ IF x \in shut THEN bound' = bound \ {x} /\ UNCHANGED serving
     ELSE serving' = serving \cup {x} /\ UNCHANGED bound
  /\ UNCHANGED <<controller, command, shut, web_enabled, other, starts, asked>>

-----------------------------------------------------------------------------
(* The process ends, by a crash or by main's Shutdown, which leaves the    *)
(* setting alone, and begins again.                                        *)
Restart ==
  /\ restarts < MaxRestarts
  /\ restarts' = restarts + 1
  /\ servers' = {} /\ running' = FALSE /\ holder' = Nobody
  /\ pc' = Boot
  /\ order' = [a \in Actors |-> "start"]
  /\ srvs' = [a \in Actors |-> {}] /\ fresh' = {} /\ left' = {}
  /\ bound' = {} /\ serving' = {} /\ shut' = {}
  /\ starts' = 0
  /\ raced' = FALSE
  /\ kept' = IF ~Quiet \/ raced THEN "open" ELSE IF running THEN "up" ELSE "down"
  /\ UNCHANGED <<web_enabled, other, orders>>

(* Another program takes a port, or gives it back.                         *)
Elsewhere(p) ==
  /\ p \in Others
  /\ \/ ~Taken(p) /\ other' = other \cup {p}
     \/ p \in other /\ other' = other \ {p}
  /\ UNCHANGED <<controller, command, net, web_enabled, starts, asked>>

Step(a) ==
  \/ Enabled(a) \/ Check(a) \/ Take(a) \/ Closed(a) \/ SaveOff(a) \/ Lock(a) \/ ListenHttp(a)
  \/ Commit(a) \/ SaveOn(a)
  \/ \E x \in Server : Shutdown(a, x)
  \/ \E p \in Ports : ListenMore(a, p)

Next ==
  \/ \E a \in Actors : Step(a) \/ \E o \in Orders : Order(a, o)
  \/ \E x \in Server : Serve(x)
  \/ Restart
  \/ \E p \in Others : Elsewhere(p)

Spec == Init /\ [][Next]_webVars

(* Goroutines run, and mu is given to whoever waits for it long enough.    *)
FairSpec ==
  /\ Spec
  /\ \A a \in Actors : SF_webVars(Step(a))
  /\ \A x \in Server : WF_webVars(Serve(x))

-----------------------------------------------------------------------------
(* Properties.                                                             *)

(* A controller that says it runs has its HTTP listener, and every         *)
(* listener it has is open and not told to stop (Start, Stop).             *)
RunningListens ==
  /\ running => \E x \in servers : x[2] = Http
  /\ servers \subseteq bound \ shut

(* No listener is lost: each one belongs to the controller, to the Start   *)
(* that is making it or to a Stop that will close it, or is closing.       *)
NoLeak == bound \subseteq servers \cup fresh \cup shut \cup (UNION {srvs[a] : a \in Actors})

(* While the server is stopped its ports become free (README), whatever    *)
(* commands raced before.                                                  *)
StoppedFreesPorts == (Quiet /\ ~running) ~> (bound = {} \/ running \/ ~Quiet)

(* Every command ends: none waits for ever for another.                    *)
CommandsEnd == \A a \in Actors : (pc[a] # "idle") ~> (pc[a] = "idle")

(* With no command under way the setting says whether the server runs, and*)
(* what ran with no command under way runs again after the next start, and *)
(* nothing else does ("чтобы переживать рестарт").  Commands that overlap  *)
(* are excepted from both: a Stop saves after it has given up mu, and a    *)
(* Start can come between.  The second says nothing of a process that ends *)
(* in a command, nor of one that finds its port taken: Start begins with a *)
(* Stop, whose "0" is what they leave behind.                              *)
SavedIsState ==
  Quiet /\ ~raced =>
    /\ (web_enabled = "1") <=> running
    /\ kept # "open" => ((kept = "up") <=> running)
=============================================================================
