---------------------------- MODULE LoadBalancer ----------------------------
(***************************************************************************)
(* The load balancer (src/frontend/load_balancer.cc) and the side of the   *)
(* frontends that it sees (src/frontend/httpserver.cc).  A browser's       *)
(* request makes a thread ask every frontend for its number of connections *)
(* and redirects the browser to the frontend with the fewest.  A thread of *)
(* its own asks every two seconds, and so does the administrator's page.   *)
(*                                                                         *)
(* redirect_server_port and min_connections are globals that every scan    *)
(* resets and computes anew without a lock: each read and each write of    *)
(* them is a step here.                                                    *)
(***************************************************************************)
EXTENDS Integers, FiniteSets

CONSTANTS
    FrontendCount,
    Client,           \* browsers, each with its thread of the balancer
    Watcher,          \* heartbeat_func, and heartbeats for administrators
    heartbeat_func,   \* the thread that catches no exception
    MAX_CONNECTIONS,
    MaySwitch,        \* the frontends that are switched and die
    MaxFaults,        \* bound on that, and on failures of the balancer
    MaxRequests       \* bound on requests: of browsers, and for heartbeats

Frontend == 1..FrontendCount
NoPort   == 0         \* redirect_server_port = -1
Scanner  == Client \cup Watcher

ASSUME BalancerAssumption ==
    /\ FrontendCount \in Nat \ {0}
    /\ Client \cap Watcher = {}
    /\ IsFiniteSet(Client)
    /\ heartbeat_func \in Watcher
    /\ MAX_CONNECTIONS \in Nat \ {0}
    /\ MaySwitch \subseteq Frontend
    /\ MaxFaults \in Nat
    /\ MaxRequests \in Nat

VARIABLES
    state,     \* per frontend: switched_on, or a process that is dead
    counted,   \* per frontend: the size of persistent_connections
    redirect_server_port,
    min_connections,
    scan,      \* per scanner: the thread in get_frontend_status
    target,    \* per browser: where it was sent
    running,   \* the balancer's process
    spent,     \* it was without a descriptor once
    faults, requests,
    steady,    \* history: the frontends that were always on
    direct,    \* history, per frontend: connections the balancer did not see
    dropped,   \* history, per frontend: connections counted down again
    alone,     \* history, per scanner: no other scan ran during its scan
    heard,     \* history, per scanner: the frontends that answered with a
               \* number in its scan or in another that ran meanwhile
    crossed    \* history: two scans overlapped

globals  == <<redirect_server_port, min_connections>>
balancer == <<running, spent>>
frontend == <<state, counted, steady, direct, dropped>>
bounds   == <<faults, requests>>
history  == <<alone, heard, crossed>>
vars     == <<frontend, balancer, globals, scan, target, bounds, history>>

-----------------------------------------------------------------------------
Pc == {"idle", "reset", "clear", "ask", "compare", "port", "least", "sent"}

(* What a frontend may answer: "-1" or the number of connections.           *)
Down  == -1
Count == Nat \cup {Down}

(* status: frontend_status as far as it is known.                           *)
Scan == [pc : Pc, next : 1..(FrontendCount + 1), status : [Frontend -> Count]]

NoStatus == [f \in Frontend |-> Down]
NoScan   == [pc |-> "idle", next |-> 1, status |-> NoStatus]

TypeOK ==
    /\ state \in [Frontend -> {"on", "off", "dead"}]
    /\ counted \in [Frontend -> Nat]
    /\ redirect_server_port \in Frontend \cup {NoPort}
    /\ min_connections \in 0..MAX_CONNECTIONS
    /\ scan \in [Scanner -> Scan]
    /\ target \in [Client -> Frontend \cup {NoPort}]
    /\ running \in BOOLEAN /\ spent \in BOOLEAN
    /\ faults \in 0..MaxFaults
    /\ requests \in 0..MaxRequests
    /\ steady \in SUBSET Frontend
    /\ direct \in [Frontend -> Nat] /\ dropped \in [Frontend -> Nat]
    /\ alone \in [Scanner -> BOOLEAN]
    /\ heard \in [Scanner -> SUBSET Frontend]
    /\ crossed \in BOOLEAN

On == {f \in Frontend : state[f] = "on"}

Init ==
    /\ state \in [Frontend -> {"on", "off", "dead"}]
    /\ Frontend \ MaySwitch \subseteq On
    /\ counted = [f \in Frontend |-> 0]
    /\ redirect_server_port = NoPort
    /\ min_connections = MAX_CONNECTIONS
    /\ scan = [s \in Scanner |-> NoScan]
    /\ target = [c \in Client |-> NoPort]
    /\ running = TRUE /\ spent = FALSE
    /\ faults = 0
    /\ requests = 0
    /\ steady = On
    /\ direct = [f \in Frontend |-> 0] /\ dropped = direct
    /\ alone = [s \in Scanner |-> TRUE]
    /\ heard = [s \in Scanner |-> {}]
    /\ crossed = FALSE

-----------------------------------------------------------------------------
(* A scanner leaves: its scan is over, or its page is there.                *)
Stop(S) ==
    /\ scan' = [s \in Scanner |-> IF s \in S THEN NoScan ELSE scan[s]]
    /\ alone' = [s \in Scanner |-> IF s \in S THEN TRUE ELSE alone[s]]
    /\ heard' = [s \in Scanner |-> IF s \in S THEN {} ELSE heard[s]]
    /\ UNCHANGED crossed

Leave(s) == Stop({s})

Scanning == {s \in Scanner : scan[s].pc \notin {"idle", "sent"}}

(* The end of the process ends its scans; their browsers get an error.      *)
End == running' = FALSE /\ Stop(Scanning)

-----------------------------------------------------------------------------
(* The frontends.                                                           *)

Fault == faults < MaxFaults /\ faults' = faults + 1

Change(f, to) ==
    /\ f \in MaySwitch
    /\ Fault
    /\ state' = [state EXCEPT ![f] = to]
    /\ steady' = steady \ {f}
    /\ UNCHANGED <<direct, dropped, spent, globals, target, requests>>

Quietly == UNCHANGED <<running, scan, history>>

(* Handle_Switchoff *)
SwitchOff(f) == state[f] = "on" /\ Change(f, "off") /\ UNCHANGED counted /\ Quietly

(* Handle_Resart *)
SwitchOn(f) == state[f] = "off" /\ Change(f, "on") /\ UNCHANGED counted /\ Quietly

(* The answer of a scan that is connected stays empty, and stoi throws.     *)
(* Thread_Running catches that and leaves its browser without an answer,    *)
(* heartbeat_func does not.                                                 *)
Die(f) ==
    /\ state[f] # "dead"
    /\ Change(f, "dead")
    /\ UNCHANGED counted
    /\ \E thrown \in SUBSET {s \in Scanner : scan[s].pc = "ask" /\ scan[s].next = f} :
          IF heartbeat_func \in thrown THEN End
          ELSE Stop(thrown) /\ UNCHANGED running

(* A frontend that is started again knows of no connections.                *)
Start(f) ==
    /\ state[f] = "dead"
    /\ Change(f, "on")
    /\ counted' = [counted EXCEPT ![f] = 0]
    /\ Quietly

(* Thread_Running counts the first request of any connection, also of one   *)
(* that a browser opens to the frontend it knows.                           *)
Open(f) ==
    /\ state[f] # "dead"
    /\ requests < MaxRequests
    /\ requests' = requests + 1
    /\ counted' = [counted EXCEPT ![f] = @ + 1]
    /\ direct' = [direct EXCEPT ![f] = @ + 1]
    /\ UNCHANGED <<state, steady, dropped, balancer, globals, scan, target, faults, history>>

(* A request that is not HTTP/1.1 ends its connection.                      *)
Drop(f) ==
    /\ state[f] # "dead"
    /\ counted[f] > 0
    /\ requests < MaxRequests
    /\ requests' = requests + 1
    /\ counted' = [counted EXCEPT ![f] = @ - 1]
    /\ dropped' = [dropped EXCEPT ![f] = @ + 1]
    /\ UNCHANGED <<state, steady, direct, balancer, globals, scan, target, faults, history>>

Handle_Load_Balancer(f) == IF state[f] = "on" THEN counted[f] ELSE Down

-----------------------------------------------------------------------------
(* get_frontend_status                                                      *)

(* The call.                                                                *)
Begin(s) ==
    /\ scan' = [scan EXCEPT ![s] = [NoScan EXCEPT !.pc = "reset"]]
    /\ alone' = [t \in Scanner |-> IF t = s THEN Scanning = {}
                                   ELSE alone[t] /\ t \notin Scanning]
    /\ crossed' = (crossed \/ Scanning # {})
    /\ heard' = [heard EXCEPT ![s] =
                    {f \in Frontend : \E t \in Scanning : scan[t].status[f] # Down}]

(* Mutation of Reset: the port of the scan before is kept.                  *)
ResetLeast(s) ==
    /\ scan[s].pc = "reset"
    /\ scan' = [scan EXCEPT ![s].pc = "clear"]
    /\ UNCHANGED <<frontend, balancer, globals, target, bounds, history>>

Reset(s) ==
    /\ scan[s].pc = "reset"
    /\ redirect_server_port' = NoPort
    /\ scan' = [scan EXCEPT ![s].pc = "clear"]
    /\ UNCHANGED <<frontend, balancer, min_connections, target, bounds, history>>

Clear(s) ==
    /\ scan[s].pc = "clear"
    /\ min_connections' = MAX_CONNECTIONS
    /\ scan' = [scan EXCEPT ![s].pc = "ask"]
    /\ UNCHANGED <<frontend, balancer, redirect_server_port, target, bounds, history>>

(* A frontend that is down is passed over.                                  *)
Answer(s, f, n) ==
    /\ scan' = [scan EXCEPT ![s].status[f] = n,
                            ![s].next = IF n = Down THEN f + 1 ELSE f,
                            ![s].pc = IF n = Down THEN "ask" ELSE "compare"]
    /\ heard' = IF n = Down THEN heard
                ELSE [t \in Scanner |-> IF t \in Scanning THEN heard[t] \cup {f}
                                        ELSE heard[t]]

(* Mutation of Ask: a frontend that is off is asked until it is on.         *)
AskUntilOn(s) ==
    LET f == scan[s].next
    IN  /\ scan[s].pc = "ask"
        /\ f \in Frontend
        /\ IF Handle_Load_Balancer(f) = Down THEN UNCHANGED <<scan, heard>>
           ELSE Answer(s, f, Handle_Load_Balancer(f))
        /\ UNCHANGED <<frontend, balancer, globals, target, bounds, alone, crossed>>

(* connect, "LOAD BALANCER" and the answer.  The socket stays open: in the  *)
(* end there is none for the next frontend, which then reads as dead.       *)
Ask(s) ==
    LET f == scan[s].next
    IN  /\ scan[s].pc = "ask"
        /\ f \in Frontend
        /\ \E short \in BOOLEAN :
              LET n == IF short THEN Down ELSE Handle_Load_Balancer(f)
              IN  /\ spent' = (spent \/ short)
                  /\ IF short THEN Fault ELSE UNCHANGED faults
                  /\ Answer(s, f, n)
        /\ UNCHANGED <<frontend, running, globals, target, requests, alone, crossed>>

Heard(s) == scan[s].status[scan[s].next]

(* Mutation of Compare: only the first frontend with a number is taken.     *)
CompareFirst(s) ==
    /\ scan[s].pc = "compare"
    /\ scan' = IF min_connections = MAX_CONNECTIONS /\ Heard(s) < MAX_CONNECTIONS
               THEN [scan EXCEPT ![s].pc = "port"]
               ELSE [scan EXCEPT ![s].pc = "ask", ![s].next = @ + 1]
    /\ UNCHANGED <<frontend, balancer, globals, target, bounds, history>>

Compare(s) ==
    /\ scan[s].pc = "compare"
    /\ scan' = IF min_connections > Heard(s)
               THEN [scan EXCEPT ![s].pc = "port"]
               ELSE [scan EXCEPT ![s].pc = "ask", ![s].next = @ + 1]
    /\ UNCHANGED <<frontend, balancer, globals, target, bounds, history>>

SetPort(s) ==
    /\ scan[s].pc = "port"
    /\ redirect_server_port' = scan[s].next
    /\ scan' = [scan EXCEPT ![s].pc = "least"]
    /\ UNCHANGED <<frontend, balancer, min_connections, target, bounds, history>>

(* Mutation of SetLeast: the minimum stays.                                 *)
SetLeastNot(s) ==
    /\ scan[s].pc = "least"
    /\ scan' = [scan EXCEPT ![s].pc = "ask", ![s].next = @ + 1]
    /\ UNCHANGED <<frontend, balancer, globals, target, bounds, history>>

SetLeast(s) ==
    /\ scan[s].pc = "least"
    /\ min_connections' = Heard(s)
    /\ scan' = [scan EXCEPT ![s].pc = "ask", ![s].next = @ + 1]
    /\ UNCHANGED <<frontend, balancer, redirect_server_port, target, bounds, history>>

Done(s) == scan[s].pc = "ask" /\ scan[s].next > FrontendCount

Scanned(s) ==
    \/ Reset(s) \/ Clear(s) \/ Ask(s) \/ Compare(s) \/ SetPort(s) \/ SetLeast(s)

-----------------------------------------------------------------------------
(* Browsers and watchers.                                                   *)

(* A browser asks the balancer for a page.                                  *)
Request(c) ==
    /\ running
    /\ scan[c].pc = "idle"
    /\ requests < MaxRequests
    /\ requests' = requests + 1
    /\ Begin(c)
    /\ UNCHANGED <<frontend, balancer, globals, target, faults>>

(* Thread_Running reads the global when its scan is over.                   *)
Redirect(c) ==
    /\ Done(c)
    /\ target' = [target EXCEPT ![c] = redirect_server_port]
    /\ scan' = [scan EXCEPT ![c].pc = "sent"]
    /\ UNCHANGED <<frontend, balancer, globals, bounds, history>>

(* The frontend counts a new connection for good: a browser that hangs up   *)
(* leaves its thread reading.  The browser may have one open already.       *)
Arrive(f) ==
    \/ counted' = [counted EXCEPT ![f] = @ + 1]
    \/ counted[f] > 0 /\ UNCHANGED counted

Visit(c) ==
    LET f == target[c]
    IN  /\ scan[c].pc = "sent"
        /\ f # NoPort
        /\ state[f] = "on"
        /\ Arrive(f)
        /\ Leave(c)
        /\ target' = [target EXCEPT ![c] = NoPort]
        /\ UNCHANGED <<state, steady, direct, dropped, balancer, globals, bounds>>

(* A frontend that is off counts, too, and sends the browser back.          *)
Return(c) ==
    LET f == target[c]
    IN  /\ scan[c].pc = "sent"
        /\ f # NoPort
        /\ state[f] = "off"
        /\ Arrive(f)
        /\ IF running THEN Begin(c) ELSE Leave(c)
        /\ target' = [target EXCEPT ![c] = NoPort]
        /\ UNCHANGED <<state, steady, direct, dropped, balancer, globals, bounds>>

(* Port -1, or a frontend that does not answer.                             *)
Fail(c) ==
    /\ scan[c].pc = "sent"
    /\ target[c] # NoPort => state[target[c]] = "dead"
    /\ Leave(c)
    /\ target' = [target EXCEPT ![c] = NoPort]
    /\ UNCHANGED <<frontend, balancer, globals, bounds>>

(* heartbeat_func, or the handler of "heartbeat".                           *)
Watch(w) ==
    /\ running
    /\ scan[w].pc = "idle"
    /\ requests < MaxRequests
    /\ requests' = requests + 1
    /\ Begin(w)
    /\ UNCHANGED <<frontend, balancer, globals, target, faults>>

Report(w) ==
    /\ Done(w)
    /\ Leave(w)
    /\ UNCHANGED <<frontend, balancer, globals, target, bounds>>

(* CreateLoadBalancer returns when accept has no descriptor for a browser.  *)
AcceptEnds ==
    /\ running
    /\ spent
    /\ End
    /\ UNCHANGED <<frontend, spent, globals, target, bounds>>

-----------------------------------------------------------------------------
Browse(c) == Scanned(c) \/ Redirect(c) \/ Visit(c) \/ Return(c) \/ Fail(c)

Next ==
    \/ \E c \in Client : Request(c) \/ Browse(c)
    \/ \E w \in Watcher : Watch(w) \/ Scanned(w) \/ Report(w)
    \/ \E f \in Frontend :
          SwitchOff(f) \/ SwitchOn(f) \/ Die(f) \/ Start(f) \/ Open(f) \/ Drop(f)
    \/ AcceptEnds

Spec == Init /\ [][Next]_vars

FairSpec == Spec /\ \A c \in Client : WF_vars(Browse(c))
-----------------------------------------------------------------------------
(* Properties.                                                              *)

Numbers(c) == {f \in Frontend : scan[c].status[f] \in 0..(MAX_CONNECTIONS - 1)}

(* A browser whose scan ran alone is sent to a frontend that answered with  *)
(* the fewest connections, and to port -1 only if none answered with less   *)
(* than MAX_CONNECTIONS.                                                    *)
LeastLoaded ==
    \A c \in Client : scan[c].pc = "sent" /\ alone[c] =>
        IF Numbers(c) = {} THEN target[c] = NoPort
        ELSE /\ target[c] \in Numbers(c)
             /\ \A f \in Numbers(c) : scan[c].status[target[c]] <= scan[c].status[f]

(* However the scans are interleaved, a browser is sent to port -1 or to a  *)
(* frontend that answered as switched on in a scan that ran at the same     *)
(* time: what an earlier scan left behind reaches nobody.                   *)
HeardOf ==
    \A c \in Client : scan[c].pc = "sent" =>
        target[c] \in heard[c] \cup {NoPort}

(* Why both hold, as an inductive invariant.  What a scan has heard of is   *)
(* in heard of all scans that run, and so is what stands in the global; a   *)
(* scan that runs alone has the fewest of its answers so far in the globals.*)
Entered(s) == scan[s].pc \in {"clear", "ask", "compare", "port", "least"}
Judging(s) == scan[s].pc \in {"compare", "port", "least"}

HeardInv(s) ==
    /\ Entered(s) => redirect_server_port \in heard[s] \cup {NoPort}
    /\ s \in Scanning =>
          \A t \in Scanning : \A f \in Frontend :
              scan[t].status[f] # Down => f \in heard[s]
    /\ Judging(s) => scan[s].next \in Frontend /\ Heard(s) # Down
    /\ scan[s].pc \in {"port", "least"} => Heard(s) < MAX_CONNECTIONS

Before(s) ==
    {f \in Frontend : f < scan[s].next /\ scan[s].status[f] \in 0..(MAX_CONNECTIONS - 1)}

FewestBefore(s) ==
    IF Before(s) = {}
    THEN redirect_server_port = NoPort /\ min_connections = MAX_CONNECTIONS
    ELSE /\ redirect_server_port \in Before(s)
         /\ scan[s].status[redirect_server_port] = min_connections
         /\ \A f \in Before(s) : min_connections <= scan[s].status[f]

AloneInv(s) ==
    s \in Scanning /\ alone[s] =>
        /\ Scanning = {s}
        /\ scan[s].pc = "clear" => redirect_server_port = NoPort
        /\ scan[s].pc \in {"reset", "clear"} => scan[s].next = 1
        /\ scan[s].pc \in {"ask", "compare", "port"} => FewestBefore(s)
        /\ scan[s].pc \in {"port", "least"} => Heard(s) < min_connections
        /\ scan[s].pc = "least" =>
              /\ redirect_server_port = scan[s].next
              /\ \A f \in Before(s) : min_connections <= scan[s].status[f]
        /\ \A f \in Frontend :
              f > scan[s].next \/ (f = scan[s].next /\ ~Judging(s))
                  => scan[s].status[f] = Down

HeardPart == TypeOK /\ (\A s \in Scanner : HeardInv(s)) /\ HeardOf
AlonePart == (\A s \in Scanner : AloneInv(s)) /\ LeastLoaded

BalancerInv == HeardPart /\ AlonePart

(* Without overlapping scans, and as long as the balancer reaches all       *)
(* frontends that are on, the load it gives them stays even: of two that    *)
(* were always on, one counts at most as many connections more as there are *)
(* browsers on their way, but for those that were opened to it without the  *)
(* balancer and those that the other has counted down.                      *)
EvenLoad ==
    ~crossed /\ ~spent =>
        \A f, g \in steady :
            counted[f] <= counted[g] + Cardinality(Client) + direct[f] + dropped[g]

(* Why it holds.  A scan that goes on alone knows of every frontend behind  *)
(* it that was always on, and its answer bounds what that frontend counts   *)
(* and will count of the browsers on their way, of which the scan's own is  *)
(* none; what is compared with an answer is compared with no less than the  *)
(* frontend counts now.                                                     *)
Pending(f) == {c \in Client : scan[c].pc = "sent" /\ target[c] = f}

Load(f) == counted[f] + Cardinality(Pending(f))

Asked(s) ==
    {f \in steady : f < scan[s].next \/ (f = scan[s].next /\ Judging(s))}

AnswerInv(s) ==
    /\ \A f \in steady : scan[s].status[f] <= counted[f] + dropped[f]
    /\ s \in Scanning /\ ~spent => \A f \in Asked(s) : scan[s].status[f] # Down

BoundInv(c) ==
    c \in Scanning =>
        \A f \in steady : scan[c].status[f] # Down =>
            Load(f) <= scan[c].status[f] + Cardinality(Client) - 1 + direct[f]

EvenPart ==
    /\ steady \subseteq On
    /\ \A s \in Scanner : AnswerInv(s)
    /\ ~crossed =>
          /\ \A s \in Scanning : alone[s]
          /\ \A c \in Client : BoundInv(c)
          /\ ~spent => \A f, g \in steady :
                Load(f) <= counted[g] + Cardinality(Client) + direct[f] + dropped[g]

EvenInv == BalancerInv /\ EvenPart

(* Every browser gets to a frontend or an error: a frontend that sends it   *)
(* back and the balancer do not keep it going round.                        *)
Answered == \A c \in Client : scan[c].pc = "reset" ~> scan[c].pc = "idle"
=============================================================================
