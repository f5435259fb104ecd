------------------------------- MODULE Master -------------------------------
(***************************************************************************)
(* The backend master (src/backend/backend_master.cc): which server a user *)
(* gets.  A user belongs to a group by a hash of the name; among the       *)
(* servers of the group that answer "status" with 1 the hash chooses again.*)
(*                                                                         *)
(* A frontend has one connection to the master, on which requests and      *)
(* answers are queued in order; one handler serves it.  all_kvs_mapping is *)
(* left out: the branch that would fill it runs only for users it already  *)
(* has, so it stays empty.                                                 *)
(***************************************************************************)
EXTENDS Integers, Sequences

CONSTANTS
    User,
    Hash,         \* the value of hash_string before the remainder
    ServerCount,  \* the servers of the configuration without the master
    GroupSize,    \* num_server_in_group
    Heartbeat,    \* the request "heartbeat", and its answer
    Quit,         \* the request "quit"
    MaySwitch,    \* the servers that are switched off and on
    MaxFaults     \* bound on switches and failures

Server   == 1..ServerCount
NoServer == 0     \* a line without "#"

ASSUME MasterAssumption ==
    /\ Hash \in [User -> Nat]
    /\ GroupSize \in Nat \ {0}
    /\ ServerCount \in Nat \ {0}
    /\ ServerCount % GroupSize = 0
    /\ Heartbeat \notin User \cup {Quit} \cup Int
    /\ Quit \notin User
    /\ MaySwitch \subseteq Server
    /\ MaxFaults \in Nat

VARIABLES
    on,          \* the servers that answer "status" with 1
    faults,      \* switches and failures so far
    exhausted,   \* its process was without a descriptor once
    steady,      \* history: the servers that were always on
    master,      \* the handler of the frontend's connection
    toMaster,    \* requests on the connection
    fromMaster   \* answers on it

masterVars == <<on, faults, exhausted, steady, master, toMaster, fromMaster>>

-----------------------------------------------------------------------------
(* Groups.                                                                  *)

GroupCount == ServerCount \div GroupSize
Group(u)   == Hash[u] % GroupCount

(* Mutation of FirstOf: the master's own entry 0 of the list is forgotten.  *)
FirstOfUnshifted(g) == g * GroupSize

FirstOf(g) == g * GroupSize + 1
LastOf(g)  == g * GroupSize + GroupSize
Members(g) == FirstOf(g)..LastOf(g)

(* The server among those that answered.                                    *)
Pick(u, valid) == valid[(Hash[u] % Len(valid)) + 1]

-----------------------------------------------------------------------------
Request == User \cup {Heartbeat, Quit}
Answer  == Server \cup {NoServer, Heartbeat}

Idle == [state |-> "idle", user |-> Heartbeat, next |-> 1, valid |-> <<>>]
Dead == [Idle EXCEPT !.state = "dead"]
Gone == [Idle EXCEPT !.state = "gone"]

Handler == [state : {"idle", "polling", "gone", "dead"}, user : Request,
            next : Nat, valid : Seq(Server)]

MasterTypeOK ==
    /\ on \in SUBSET Server
    /\ faults \in 0..MaxFaults
    /\ exhausted \in BOOLEAN
    /\ steady \in SUBSET Server
    /\ master \in Handler
    /\ toMaster \in Seq(Request)
    /\ fromMaster \in Seq(Answer)

(* Some servers may be off from the start.                                  *)
MasterInit ==
    /\ \E off \in SUBSET MaySwitch : on = Server \ off
    /\ faults = 0
    /\ exhausted = FALSE
    /\ steady = on
    /\ master = Idle
    /\ toMaster = <<>>
    /\ fromMaster = <<>>

(* The connection is open.                                                  *)
Up == master.state \in {"idle", "polling"}

Alive == master.state # "dead"

Fault == faults < MaxFaults /\ faults' = faults + 1

(* A server is switched off or crashes; it comes back.                      *)
Switch(s) ==
    /\ s \in MaySwitch
    /\ Fault
    /\ on' = IF s \in on THEN on \ {s} ELSE on \cup {s}
    /\ steady' = steady \ {s}
    /\ UNCHANGED <<exhausted, master, toMaster, fromMaster>>

(* "heartbeat": the states of all servers.                                  *)
AnswerHeartbeat ==
    /\ master.state = "idle"
    /\ toMaster # <<>>
    /\ Head(toMaster) = Heartbeat
    /\ toMaster' = Tail(toMaster)
    /\ fromMaster' = Append(fromMaster, Heartbeat)
    /\ UNCHANGED <<on, faults, exhausted, steady, master>>

(* "quit": the handler takes its leave and closes; what is behind is lost.  *)
AnswerQuit ==
    /\ master.state = "idle"
    /\ toMaster # <<>>
    /\ Head(toMaster) = Quit
    /\ toMaster' = <<>>
    /\ fromMaster' = Append(fromMaster, NoServer)
    /\ master' = Gone
    /\ UNCHANGED <<on, faults, exhausted, steady>>

(* Mutation of GetServer: the servers are asked from the first one, whatever *)
(* the group.                                                               *)
GetServerFromFirst ==
    /\ master.state = "idle"
    /\ toMaster # <<>>
    /\ Head(toMaster) \in User
    /\ toMaster' = Tail(toMaster)
    /\ master' = [state |-> "polling", user |-> Head(toMaster),
                  next |-> 1, valid |-> <<>>]
    /\ UNCHANGED <<on, faults, exhausted, steady, fromMaster>>

(* Mutation of GetServer: the first server of the group is not asked.       *)
GetServerSecond ==
    /\ master.state = "idle"
    /\ toMaster # <<>>
    /\ Head(toMaster) \in User
    /\ toMaster' = Tail(toMaster)
    /\ master' = [state |-> "polling", user |-> Head(toMaster),
                  next |-> FirstOf(Group(Head(toMaster))) + 1, valid |-> <<>>]
    /\ UNCHANGED <<on, faults, exhausted, steady, fromMaster>>

(* "getserver": the servers of the user's group are asked one by one.       *)
GetServer ==
    /\ master.state = "idle"
    /\ toMaster # <<>>
    /\ Head(toMaster) \in User
    /\ toMaster' = Tail(toMaster)
    /\ master' = [state |-> "polling", user |-> Head(toMaster),
                  next |-> FirstOf(Group(Head(toMaster))), valid |-> <<>>]
    /\ UNCHANGED <<on, faults, exhausted, steady, fromMaster>>

Polled == master.next > LastOf(Group(master.user))

(* get_backend_socks, one server.  The socket of every server that is asked *)
(* stays open: in the end there is none for the next one, which then counts *)
(* as off, unless a frontend's connection was closed meanwhile.             *)
Poll ==
    /\ master.state = "polling"
    /\ ~Polled
    /\ \E short \in BOOLEAN :
          /\ exhausted' = (exhausted \/ short)
          /\ IF short THEN Fault ELSE UNCHANGED faults
          /\ master' = [master EXCEPT !.next = @ + 1,
                                      !.valid = IF master.next \in on /\ ~short
                                                THEN Append(@, master.next) ELSE @]
    /\ UNCHANGED <<on, steady, toMaster, fromMaster>>

AnswerServer ==
    /\ master.state = "polling"
    /\ Polled
    /\ master.valid # <<>>
    /\ fromMaster' = Append(fromMaster, Pick(master.user, master.valid))
    /\ master' = Idle
    /\ UNCHANGED <<on, faults, exhausted, steady, toMaster>>

(* Nobody answered: the remainder of a division by zero ends the process.   *)
DivideByZero ==
    /\ master.state = "polling"
    /\ Polled
    /\ master.valid = <<>>
    /\ master' = Dead
    /\ toMaster' = <<>>
    /\ UNCHANGED <<on, faults, exhausted, steady, fromMaster>>

MasterStep ==
    \/ AnswerHeartbeat \/ AnswerQuit \/ GetServer \/ Poll \/ AnswerServer \/ DivideByZero

(* run_backend_master returns when accept has no descriptor for a frontend. *)
AcceptEnds ==
    /\ exhausted
    /\ Up
    /\ master' = Dead
    /\ toMaster' = <<>>
    /\ UNCHANGED <<on, faults, exhausted, steady, fromMaster>>
=============================================================================
