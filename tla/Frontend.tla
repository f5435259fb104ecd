------------------------------ MODULE Frontend ------------------------------
(***************************************************************************)
(* A frontend server (src/frontend/httpserver.cc, utils.cc,                *)
(* frontend_to_client.cc): one thread per browser connection, which serves *)
(* the requests of the browser one after the other.                        *)
(*                                                                         *)
(* Every request opens a connection of its own to a backend server of the  *)
(* user, found in user_servers or asked from the master (SetBackendSocket).*)
(* All threads share one connection to the master, on which a request and  *)
(* its answer are two calls without a lock (Contact_Backend).              *)
(*                                                                         *)
(* The rows of a user are those of a replication group: replication inside *)
(* a group is ReplicaGroup's.  A session identifier is the browser that    *)
(* got it.  Receive_Message takes a whole line here; in the code two       *)
(* threads that read at once may share one, see the ghost overlapped.      *)
(***************************************************************************)
EXTENDS Master

CONSTANTS
    Browser,
    Admin,       \* the user "admin@penncloud"
    Nobody,      \* no user, no browser
    Kinds,       \* bound: the requests that browsers send
    MaxRequests  \* bound: how many

Form    == {"login", "register"}
Private == {"page", "mail", "logout", "admin"}   \* compareSessionId
KindSet == Form \cup Private \cup {"switch", "deliver"}
GroupId == 0..(GroupCount - 1)

ASSUME FrontendAssumption ==
    /\ Admin \in User
    /\ Nobody \notin User \cup Browser
    /\ Kinds \subseteq KindSet \ {"deliver"}
    /\ MaxRequests \in Nat

VARIABLES
    mode,        \* switched_on, or a process that is gone
    starved,     \* its process was without a descriptor once
    balancer,    \* loadbalancer_sock is connected
    cache,       \* user_servers
    req,         \* per browser: its connection's thread
    jar,         \* per browser: the user of its cookies
    account,     \* per group: the users with an account there
    holder,      \* per group and user: the browser whose session is stored
    requests,
    last,        \* history: who logged in last and has not logged out
    overlapped,  \* history: two exchanges with the master overlapped
    mixed,       \* history: a form was sent with the cookie of another user
    cut          \* history: write had nobody at the other end

sessionVars == <<jar, account, holder, last>>
boundVars   == <<requests, overlapped, mixed>>
faultVars   == <<starved, balancer, cut>>
threadVars  == <<mode, cache, req, sessionVars, boundVars, faultVars>>
vars        == <<masterVars, threadVars>>

-----------------------------------------------------------------------------
(* listening: for the heartbeat; blind: the same, and the balancer has not  *)
(* answered.                                                                *)
Exchange == {"waiting", "listening", "blind"}
Pc == Exchange \cup {"idle", "connecting", "asking", "connected", "checked", "bare",
                    "calling"}

(* name: for whom the server is; row: whose cells the command is about.     *)
Thread == [pc : Pc, kind : KindSet, name : User, row : User,
           known : BOOLEAN, server : Server]

NoRequest == [pc |-> "idle", kind |-> "page", name |-> Admin, row |-> Admin,
              known |-> FALSE, server |-> 1]

TypeOK ==
    /\ MasterTypeOK
    /\ mode \in {"on", "off", "crashed"}
    /\ cache \in [User -> Server \cup {NoServer}]
    /\ req \in [Browser -> Thread]
    /\ jar \in [Browser -> User \cup {Nobody}]
    /\ account \in [GroupId -> SUBSET User]
    /\ holder \in [GroupId -> [User -> Browser \cup {Nobody}]]
    /\ requests \in 0..MaxRequests
    /\ last \in [User -> Browser \cup {Nobody}]
    /\ overlapped \in BOOLEAN
    /\ mixed \in BOOLEAN
    /\ starved \in BOOLEAN /\ balancer \in BOOLEAN /\ cut \in BOOLEAN

(* Every server signs the administrator up.                                 *)
Init ==
    /\ MasterInit
    /\ mode = "on"
    /\ cache = [u \in User |-> NoServer]
    /\ req = [b \in Browser |-> NoRequest]
    /\ jar = [b \in Browser |-> Nobody]
    /\ account = [g \in GroupId |-> {Admin}]
    /\ holder = [g \in GroupId |-> [u \in User |-> Nobody]]
    /\ requests = 0
    /\ last = [u \in User |-> Nobody]
    /\ overlapped = FALSE
    /\ mixed = FALSE
    /\ starved = FALSE
    /\ balancer = TRUE
    /\ cut = FALSE

-----------------------------------------------------------------------------
(* A step of a thread that changes nothing but the thread.                  *)
Kept == UNCHANGED <<masterVars, mode, cache, sessionVars, boundVars, faultVars>>

-----------------------------------------------------------------------------
(* SetBackendSocket.                                                        *)

(* The group a server belongs to.                                           *)
GroupOf(s) == (s - 1) \div GroupSize

(* Mutation of Seek: server 1 is tried before the master is asked.          *)
SeekFirst(kind, name, row) ==
    [pc |-> "connecting", kind |-> kind, name |-> name, row |-> row,
     known |-> cache[name] # NoServer,
     server |-> IF cache[name] # NoServer THEN cache[name] ELSE 1]

(* The lookup in user_servers; serverNum is 1 unless it succeeds.           *)
Seek(kind, name, row) ==
    LET known == cache[name] # NoServer
    IN  [pc |-> IF known THEN "connecting" ELSE "asking",
         kind |-> kind, name |-> name, row |-> row, known |-> known,
         server |-> IF known THEN cache[name] ELSE 1]

(* Mutation of Connect: the same server is tried again for ever.            *)
ConnectAgain(b) ==
    /\ req[b].pc = "connecting"
    /\ req' = [req EXCEPT ![b].pc = IF req[b].server \in on THEN "connected"
                                    ELSE "connecting"]
    /\ Kept

(* SetSocket: connect, and the server must answer that it is on.  No socket *)
(* of a request is ever closed: in the end there is none for the next one,  *)
(* unless a browser's connection was closed meanwhile.                      *)
Connect(b) ==
    /\ req[b].pc = "connecting"
    /\ \E short \in BOOLEAN :
          /\ starved' = (starved \/ short)
          /\ IF short THEN Fault ELSE UNCHANGED faults
          /\ req' = [req EXCEPT ![b].pc = IF req[b].server \in on /\ ~short THEN "connected"
                                          ELSE "asking"]
    /\ UNCHANGED <<on, exhausted, steady, master, toMaster, fromMaster,
                   mode, cache, sessionVars, boundVars, balancer, cut>>

Exchanging == {b \in Browser : req[b].pc \in Exchange}

(* The request of Contact_Backend(master_sock); a closed connection does    *)
(* not take it.                                                             *)
Send(b, line, pc) ==
    /\ req' = [req EXCEPT ![b].pc = pc]
    /\ toMaster' = IF Up THEN Append(toMaster, line) ELSE toMaster
    /\ overlapped' = (overlapped \/ Exchanging # {})
    /\ UNCHANGED <<on, exhausted, steady, master, fromMaster,
                   mode, cache, sessionVars, requests, mixed, starved, cut>>

(* Mutation of Ask: the request is sent twice, its answer is read once.     *)
AskTwice(b) ==
    /\ req[b].pc = "asking"
    /\ req' = [req EXCEPT ![b].pc = "waiting"]
    /\ toMaster' = IF Up THEN toMaster \o <<req[b].name, req[b].name>> ELSE toMaster
    /\ overlapped' = (overlapped \/ Exchanging # {})
    /\ UNCHANGED <<on, faults, exhausted, steady, master, fromMaster,
                   mode, cache, sessionVars, requests, mixed, faultVars>>

Ask(b) ==
    /\ req[b].pc = "asking"
    /\ Send(b, req[b].name, "waiting")
    /\ UNCHANGED <<faults, balancer>>

(* The answer is the next line on the connection, whoever asked for it; on  *)
(* a closed connection it is not a line.                                    *)
Heard == IF fromMaster # <<>> THEN Head(fromMaster) ELSE NoServer

Hear ==
    /\ fromMaster # <<>> \/ ~Up
    /\ fromMaster' = IF fromMaster # <<>> THEN Tail(fromMaster) ELSE fromMaster
    /\ UNCHANGED <<on, faults, exhausted, steady, master, toMaster,
                   sessionVars, boundVars, faultVars>>

(* A line without "#" leaves serverNum as it was.  The iterator of the      *)
(* lookup decides between an assignment and an insert, which does not       *)
(* replace an entry.                                                        *)
Receive(b) ==
    LET server == IF Heard \in Server THEN Heard ELSE req[b].server
    IN  /\ req[b].pc = "waiting"
        /\ Hear
        /\ req' = [req EXCEPT ![b].pc = "connecting", ![b].server = server]
        /\ cache' = [cache EXCEPT ![req[b].name] = IF req[b].known \/ @ = NoServer
                                                   THEN server ELSE @]
        /\ UNCHANGED mode

-----------------------------------------------------------------------------
(* Requests: Handle_Get_Head, Handle_Post.                                  *)

Begin(b, r) ==
    /\ mode # "crashed"
    /\ req[b].pc = "idle"
    /\ requests < MaxRequests
    /\ requests' = requests + 1
    /\ req' = [req EXCEPT ![b] = r]
    /\ UNCHANGED <<masterVars, mode, cache, sessionVars, overlapped, faultVars>>

(* A form names a user; the server is that of the cookie if there is one.   *)
OpenForm(b, kind, u) ==
    LET name == IF jar[b] # Nobody THEN jar[b] ELSE u
    IN  /\ Begin(b, Seek(kind, name, u))
        /\ mixed' = (mixed \/ name # u)

(* A page of the user whose cookie the browser has.                         *)
OpenPage(b, kind) ==
    /\ jar[b] # Nobody
    /\ kind = "admin" => jar[b] = Admin
    /\ Begin(b, Seek(kind, jar[b], jar[b]))
    /\ UNCHANGED mixed

(* A mail goes to another row.                                              *)
OpenMail(b, to) ==
    /\ jar[b] # Nobody
    /\ Begin(b, Seek("mail", jar[b], to))
    /\ UNCHANGED mixed

(* /switchFrontendServer, /switchBackendServer: without a cookie they need  *)
(* no backend server, with one no session.                                  *)
OpenSwitch(b) ==
    /\ Begin(b, IF jar[b] # Nobody
                THEN Seek("switch", jar[b], jar[b])
                ELSE [NoRequest EXCEPT !.pc = "bare", !.kind = "switch"])
    /\ UNCHANGED mixed

Open(b) ==
    \/ \E kind \in Kinds \cap Form, u \in User : OpenForm(b, kind, u)
    \/ \E kind \in Kinds \cap {"page", "logout", "admin"} : OpenPage(b, kind)
    \/ \E to \in User : "mail" \in Kinds /\ OpenMail(b, to)
    \/ "switch" \in Kinds /\ OpenSwitch(b)

(* The group whose rows the thread's connection reaches.                    *)
Reached(b) == GroupOf(req[b].server)

(* The answer is sent: 401, loginFailed, the page.                          *)
Reply(b) == req' = [req EXCEPT ![b] = NoRequest]

(* A server that was switched off or died since the connection was made.    *)
Lost(b) ==
    /\ req[b].pc \in {"connected", "checked"}
    /\ req[b].server \notin on
    /\ Reply(b)
    /\ Kept

(* compareSessionId *)
CheckSession(b) ==
    /\ req[b].pc = "connected"
    /\ req[b].kind \in Private
    /\ IF holder[Reached(b)][req[b].name] = b
       THEN req' = [req EXCEPT ![b].pc = "checked"]
       ELSE Reply(b)
    /\ Kept

(* The request is about to be handled.                                      *)
Ready(b, kind) ==
    /\ req[b].kind = kind
    /\ req[b].pc \in {IF kind \in Private THEN "checked" ELSE "connected", "bare"}

Starts(b, kind) == Ready(b, kind) /\ mode = "on"

(* handleSwitchoffRedirect: back to the load balancer.                      *)
Redirect(b) ==
    /\ \E kind \in KindSet \ {"deliver"} : Ready(b, kind)
    /\ mode = "off"
    /\ Reply(b)
    /\ Kept

(* handleLoginVerifyResponse up to the comparison of the passwords, which   *)
(* the browser may have wrong.                                              *)
Verify(b) ==
    /\ Starts(b, "login")
    /\ \/ /\ req[b].row \in account[Reached(b)]
          /\ req' = [req EXCEPT ![b].pc = "checked"]
       \/ Reply(b)
    /\ Kept

(* handleRegisterResponse up to the answer of "register".                   *)
Register(b) ==
    /\ Starts(b, "register")
    /\ IF req[b].row \notin account[Reached(b)]
       THEN /\ req' = [req EXCEPT ![b].pc = "checked"]
            /\ account' = [account EXCEPT ![Reached(b)] = @ \cup {req[b].row}]
       ELSE Reply(b) /\ UNCHANGED account
    /\ UNCHANGED <<masterVars, mode, cache, jar, holder, last, boundVars, faultVars>>

(* Mutation of Issue: the cookie is set and the session is not stored.      *)
IssueUnstored(b) ==
    /\ req[b].pc = "checked"
    /\ req[b].kind \in Form
    /\ jar' = [jar EXCEPT ![b] = req[b].row]
    /\ last' = [last EXCEPT ![req[b].row] = b]
    /\ Reply(b)
    /\ UNCHANGED <<masterVars, mode, cache, account, holder, boundVars, faultVars>>

(* generateSessionId, and the cookies of the answer.                        *)
Issue(b) ==
    /\ req[b].pc = "checked"
    /\ req[b].kind \in Form
    /\ holder' = [holder EXCEPT ![Reached(b)][req[b].row] = b]
    /\ jar' = [jar EXCEPT ![b] = req[b].row]
    /\ last' = [last EXCEPT ![req[b].row] = b]
    /\ Reply(b)
    /\ UNCHANGED <<masterVars, mode, cache, account, boundVars, faultVars>>

(* The handlers of pages, files and mails: commands about the user's row.   *)
Serve(b) ==
    /\ Starts(b, "page")
    /\ Reply(b)
    /\ Kept

(* handleWriteMailResponse: a connection for the recipient, "putemail".     *)
WriteMail(b) ==
    /\ Starts(b, "mail")
    /\ req' = [req EXCEPT ![b] = Seek("deliver", req[b].row, req[b].row)]
    /\ Kept

PutEmail(b) ==
    /\ req[b].pc = "connected"
    /\ req[b].kind = "deliver"
    /\ Reply(b)
    /\ Kept

(* handleLogoutResponse; the browser forgets its cookies.                   *)
Logout(b) ==
    LET u == req[b].name
    IN  /\ Starts(b, "logout")
        /\ holder' = [holder EXCEPT
                         ![Reached(b)][u] = IF u \in account[Reached(b)] THEN Nobody ELSE @]
        /\ jar' = [jar EXCEPT ![b] = Nobody]
        /\ last' = [last EXCEPT ![u] = Nobody]
        /\ Reply(b)
        /\ UNCHANGED <<masterVars, mode, cache, account, boundVars, faultVars>>

(* The end of the process ends its threads.                                 *)
Crash ==
    /\ mode' = "crashed"
    /\ req' = [b \in Browser |-> NoRequest]

(* write raises a signal that nothing handles when the other end is known   *)
(* to be gone: the chunks of an upload to a server that went, a download to *)
(* a browser that hung up, the answer to an unknown command of such a       *)
(* browser.                                                                 *)
BreakPipe(b) ==
    /\ mode # "crashed"
    /\ cut' = TRUE
    /\ Fault
    /\ Starts(b, "page") \/ req[b].pc = "idle"
    /\ Crash
    /\ UNCHANGED <<on, exhausted, steady, master, toMaster, fromMaster,
                   cache, sessionVars, boundVars, starved, balancer>>

(* accept has no descriptor for the next connection.                        *)
AcceptExits ==
    /\ starved
    /\ mode # "crashed"
    /\ Crash
    /\ UNCHANGED <<masterVars, cache, sessionVars, boundVars, faultVars>>

(* handleAdminResponse asks the balancer, on another connection of all      *)
(* threads.  The switch of another server, which Switch and SwitchFrontend  *)
(* stand for, ends with it.                                                 *)
AskBalancer(b) ==
    /\ \/ Starts(b, "admin")
       \/ Starts(b, "switch") /\ req[b].pc = "connected" /\ req[b].name = Admin
    /\ req' = [req EXCEPT ![b].pc = "calling"]
    /\ overlapped' = (overlapped \/ \E c \in Browser : req[c].pc = "calling")
    /\ UNCHANGED <<masterVars, mode, cache, sessionVars, requests, mixed, faultVars>>

(* It hears the answer, unless the balancer or its thread is gone by now,   *)
(* and asks the master for its heartbeat.                                   *)
AskHeartbeat(b) ==
    /\ req[b].pc = "calling"
    /\ \/ UNCHANGED <<balancer, faults>>
       \/ balancer' = FALSE /\ Fault
    /\ Send(b, Heartbeat, IF balancer' THEN "listening" ELSE "blind")

(* The switch of another server by anyone else (401), or of a frontend that *)
(* does not answer +OK.                                                     *)
SwitchOther(b) ==
    /\ Starts(b, "switch")
    /\ Reply(b)
    /\ Kept

(* It takes the n-th field of the answers for every server n, of which      *)
(* there are not more in the first 32 characters that substr keeps.  Of     *)
(* another answer or none there is no such field, and what happens is not   *)
(* defined.                                                                 *)
MaxFields == 16

ShowAdmin(b) ==
    /\ req[b].pc \in {"listening", "blind"}
    /\ Hear
    /\ UNCHANGED cache
    /\ \/ Reply(b) /\ UNCHANGED mode
       \/ /\ req[b].pc = "blind" \/ Heard # Heartbeat \/ ServerCount >= MaxFields
          /\ Crash

(* handleSwitchFrontendServer, this server: the answer to "quit" is not     *)
(* read.  On a closed connection the signal of the send may end the process.*)
SwitchSelf(b) ==
    /\ Starts(b, "switch")
    /\ \/ mode' = "off" /\ Reply(b)
       \/ ~Up /\ Crash
    /\ toMaster' = IF Up THEN Append(toMaster, Quit) ELSE toMaster
    /\ UNCHANGED <<on, faults, exhausted, steady, master, fromMaster,
                   cache, sessionVars, boundVars, faultVars>>

(* Handle_Switchoff and Handle_Resart: an administrator on another frontend.*)
SwitchFrontend ==
    /\ mode # "crashed"
    /\ Fault
    /\ mode' = IF mode = "on" THEN "off" ELSE "on"
    /\ UNCHANGED <<on, exhausted, steady, master, toMaster, fromMaster,
                   cache, req, sessionVars, boundVars, faultVars>>

-----------------------------------------------------------------------------
Thread_Running(b) ==
    \/ Connect(b) \/ Ask(b) \/ Receive(b)
    \/ CheckSession(b) \/ Redirect(b)
    \/ Verify(b) \/ Register(b) \/ Issue(b) \/ Serve(b)
    \/ WriteMail(b) \/ PutEmail(b) \/ Logout(b)
    \/ AskBalancer(b) \/ AskHeartbeat(b) \/ ShowAdmin(b) \/ SwitchSelf(b) \/ SwitchOther(b)

Next ==
    \/ \E b \in Browser : Open(b) \/ Thread_Running(b) \/ Lost(b) \/ BreakPipe(b)
    \/ (MasterStep \/ AcceptEnds \/ \E s \in Server : Switch(s)) /\ UNCHANGED threadVars
    \/ SwitchFrontend \/ AcceptExits

Spec == Init /\ [][Next]_vars

FairSpec ==
    /\ Spec
    /\ \A b \in Browser : WF_vars(Thread_Running(b))
    /\ WF_vars(MasterStep /\ UNCHANGED threadVars)
-----------------------------------------------------------------------------
(* Properties.                                                              *)

Regular == Up /\ ~overlapped

(* As long as the exchanges of the threads with the master did not overlap  *)
(* and the connection is there, a thread talks to a server of the group of  *)
(* the user it wants, and user_servers never names a server of another      *)
(* group, whatever is switched off meanwhile and whichever thread writes    *)
(* the map.                                                                 *)
InGroup(s, u) == s \in Members(Group(u))

RightServer ==
    Regular =>
        /\ \A b \in Browser : req[b].pc \in {"connecting", "connected", "checked"} =>
              InGroup(req[b].server, req[b].name)
        /\ \A u \in User : cache[u] # NoServer => InGroup(cache[u], u)

(* The cells of a user are in one group: a login, a mail or a registration  *)
(* on whatever thread finds the same account.                               *)
AccountsAtHome ==
    Regular /\ ~mixed =>
        \A g \in GroupId, u \in User : u \in account[g] => g = Group(u) \/ u = Admin

(* The browser that logged in last is let in by its cookie until it logs    *)
(* out or another logs in, wherever its requests go.                        *)
LastLoginHolds ==
    Regular /\ ~mixed =>
        \A u \in User : last[u] # Nobody => holder[Group(u)][u] = last[u]

(* A group that keeps one server on keeps the master alive as long as it    *)
(* always had a descriptor, although the servers are asked one after the    *)
(* other while others come and go.                                          *)
MasterStays ==
    ~exhausted /\ (\A g \in GroupId : Members(g) \cap steady # {}) => Alive

(* Without overlap the administrator's page reads the heartbeat it asked    *)
(* for, and the frontend does not crash, as long as it always had a         *)
(* descriptor and the balancer, nobody left whom it wrote to, and the       *)
(* configuration fits the answer.                                           *)
FrontendStays ==
    Regular /\ ~starved /\ balancer /\ ~cut /\ ServerCount < MaxFields
        => mode # "crashed"

(* Why these hold, as an inductive invariant.  The master's list of a group *)
(* has every member that was asked and always on.                           *)
PollInv ==
    /\ steady \subseteq on
    /\ master.state = "polling" =>
          /\ master.user \in User
          /\ master.next >= FirstOf(Group(master.user))
          /\ \A i \in DOMAIN master.valid : InGroup(master.valid[i], master.user)
          /\ ~exhausted => \A s \in Members(Group(master.user)) \cap steady :
                s < master.next => \E i \in DOMAIN master.valid : master.valid[i] = s

(* What a thread waits for, and where it is: with the requests, with the    *)
(* handler, or with the answers.                                            *)
Wants(b) == IF req[b].pc = "waiting" THEN req[b].name ELSE Heartbeat

AnswersTo(answer, line) ==
    IF line = Heartbeat THEN answer = Heartbeat
    ELSE answer \in Server /\ InGroup(answer, line)

QuitsBut(S) == \A i \in DOMAIN toMaster \ S : toMaster[i] = Quit

Requested(b) ==
    /\ master.state = "idle" /\ fromMaster = <<>>
    /\ \E k \in DOMAIN toMaster : toMaster[k] = Wants(b) /\ QuitsBut({k})
Handled(b) ==
    /\ master.state = "polling" /\ fromMaster = <<>>
    /\ master.user = Wants(b) /\ QuitsBut({})
Replied(b) ==
    /\ master.state = "idle" /\ QuitsBut({})
    /\ \E a \in Answer : fromMaster = <<a>> /\ AnswersTo(a, Wants(b))

(* One exchange at a time, and every answer is the asker's.                 *)
ChannelInv ==
    Regular /\ mode # "crashed" =>
        /\ \A b, c \in Exchanging : b = c
        /\ Exchanging = {} => /\ master.state = "idle" /\ fromMaster = <<>>
                              /\ QuitsBut({})
        /\ \A b \in Exchanging : Requested(b) \/ Handled(b) \/ Replied(b)

(* Only a switch goes without a server, the row of a form is that of the    *)
(* server's user, only without the balancer its answer is missing, and a    *)
(* process that ended has no threads.                                       *)
RequestInv ==
    \A b \in Browser :
        /\ req[b].pc = "bare" => req[b].kind = "switch"
        /\ ~mixed /\ req[b].kind \in Form => req[b].name = req[b].row
        /\ req[b].pc = "blind" => ~balancer
        /\ mode = "crashed" => req[b].pc = "idle"

FrontendInv ==
    /\ TypeOK /\ PollInv /\ ChannelInv /\ RequestInv
    /\ RightServer /\ AccountsAtHome /\ LastLoginHolds /\ MasterStays /\ FrontendStays

(* Every thread that looks for a server finds one, also when the cached one *)
(* was switched off and when the chosen one goes before it is used, as long *)
(* as the frontend lives and always had a descriptor.                       *)
GetsServer ==
    \A b \in Browser :
        req[b].pc = "asking" ~>
            (req[b].pc = "connected" \/ mode = "crashed" \/ starved \/ ~Regular)
=============================================================================
