-------------------------- MODULE FrontendProofs --------------------------
(***************************************************************************)
(* Proofs about Frontend and Master, for any number of users, groups,      *)
(* servers and browsers: the inductive invariant FrontendInv, and from it  *)
(* that threads whose exchanges with the master do not overlap reach the   *)
(* right servers, that accounts and sessions are in one group, that the    *)
(* master survives a group with one steady server, and that the frontend   *)
(* does not crash.                                                         *)
(***************************************************************************)
EXTENDS Frontend, TLAPS

USE DEF Exchange

(* Nothing of the master changes but the number of failures.                *)
Held ==
    /\ faults' \in 0..MaxFaults
    /\ UNCHANGED <<on, exhausted, steady, master, toMaster, fromMaster>>

(* What is lost does not come back.                                         *)
Worse ==
    /\ starved' \in BOOLEAN /\ balancer' \in BOOLEAN /\ cut' \in BOOLEAN
    /\ overlapped' \in BOOLEAN
    /\ ~overlapped' => ~overlapped
    /\ ~starved' => ~starved
    /\ balancer' => balancer
    /\ ~cut' => ~cut

Keeps ==
    /\ Held /\ Worse
    /\ UNCHANGED <<mode, cache, jar, account, holder, last, requests, mixed>>

LEMMA FaultRange ==
    ASSUME FrontendInv, faults' = faults \/ Fault
    PROVE  faults' \in 0..MaxFaults
BY MasterAssumption DEF FrontendInv, TypeOK, MasterTypeOK, Fault

LEMMA SameMaster == ASSUME FrontendInv, UNCHANGED masterVars PROVE Held
BY FaultRange DEF masterVars, Held

LEMMA SameFaults == ASSUME FrontendInv, UNCHANGED <<overlapped, faultVars>> PROVE Worse
BY DEF FrontendInv, TypeOK, faultVars, Worse

LEMMA KeptKeeps == ASSUME FrontendInv, Kept PROVE Keeps
BY SameMaster, SameFaults DEF Kept, Keeps, sessionVars, boundVars

(* A process that ended has no threads.                                     *)
LEMMA Living ==
    ASSUME FrontendInv, NEW b \in Browser, req[b].pc # "idle"
    PROVE  mode # "crashed"
BY DEF FrontendInv, RequestInv

-----------------------------------------------------------------------------
(* Arithmetic of groups.                                                    *)

LEMMA ModRange ==
    ASSUME NEW a \in Nat, NEW b \in Nat \ {0}
    PROVE  a % b \in 0..(b - 1)
OBVIOUS

LEMMA DivUnique ==
    ASSUME NEW a \in Nat, NEW b \in Nat \ {0}, NEW q \in Nat, q * b <= a, a < q * b + b
    PROVE  a \div b = q
OBVIOUS

LEMMA DivExact ==
    ASSUME NEW a \in Nat \ {0}, NEW b \in Nat \ {0}, a % b = 0
    PROVE  a \div b \in Nat \ {0} /\ (a \div b) * b = a
OBVIOUS

LEMMA MulBound ==
    ASSUME NEW g \in Nat, NEW c \in Nat, NEW z \in Nat, g < c
    PROVE  g * z \in Nat /\ g * z + z <= c * z
OBVIOUS

LEMMA GroupCountType == GroupCount \in Nat \ {0} /\ GroupCount * GroupSize = ServerCount
BY DivExact, MasterAssumption DEF GroupCount

(* Every user has a group, and the servers of a group are servers.          *)
LEMMA GroupType ==
    ASSUME NEW u \in User
    PROVE  Group(u) \in GroupId
<1>1. Hash[u] \in Nat
  BY MasterAssumption
<1> QED
  BY <1>1, ModRange, GroupCountType DEF Group, GroupId

LEMMA MembersType ==
    ASSUME NEW g \in GroupId
    PROVE  /\ FirstOf(g) \in Nat \ {0}
           /\ LastOf(g) \in Nat
           /\ LastOf(g) >= FirstOf(g)
           /\ Members(g) = FirstOf(g)..LastOf(g)
           /\ Members(g) \subseteq Server
           /\ \A s \in Members(g) : GroupOf(s) = g
<1>1. g \in Nat /\ g < GroupCount
  BY GroupCountType DEF GroupId
<1>2. GroupSize \in Nat \ {0} /\ ServerCount \in Nat
  BY MasterAssumption
<1>3. g * GroupSize \in Nat /\ g * GroupSize + GroupSize <= ServerCount
  BY <1>1, <1>2, MulBound, GroupCountType
<1>4. \A s \in Members(g) : GroupOf(s) = g
  <2> SUFFICES ASSUME NEW s \in Members(g)
               PROVE  GroupOf(s) = g
    OBVIOUS
  <2>1. s - 1 \in Nat /\ g * GroupSize <= s - 1 /\ s - 1 < g * GroupSize + GroupSize
    BY <1>2, <1>3 DEF Members, FirstOf, LastOf
  <2> QED
    BY <1>1, <1>2, <2>1, DivUnique DEF GroupOf
<1> QED
  BY <1>2, <1>3, <1>4 DEF Members, FirstOf, LastOf, Server

(* The server that is picked is one of those that answered.                 *)
LEMMA PickOne ==
    ASSUME NEW u \in User, NEW valid \in Seq(Server), valid # <<>>
    PROVE  \E i \in DOMAIN valid : Pick(u, valid) = valid[i]
<1>1. Len(valid) \in Nat \ {0}
  OBVIOUS
<1>2. Hash[u] % Len(valid) \in 0..(Len(valid) - 1)
  BY <1>1, ModRange, MasterAssumption
<1>3. (Hash[u] % Len(valid)) + 1 \in DOMAIN valid
  BY <1>1, <1>2
<1> QED
  BY <1>3 DEF Pick

-----------------------------------------------------------------------------
(* Threads.                                                                 *)

LEMMA ThreadFields ==
    ASSUME NEW r \in Thread
    PROVE  /\ r.pc \in Pc /\ r.kind \in KindSet
           /\ r.name \in User /\ r.row \in User /\ r.server \in Server
           /\ r.known \in BOOLEAN
BY DEF Thread

LEMMA ThreadPc ==
    ASSUME NEW r \in Thread, NEW p \in Pc
    PROVE  /\ [r EXCEPT !.pc = p] \in Thread
           /\ [r EXCEPT !.pc = p].pc = p
           /\ [r EXCEPT !.pc = p].kind = r.kind
           /\ [r EXCEPT !.pc = p].name = r.name
           /\ [r EXCEPT !.pc = p].row = r.row
           /\ [r EXCEPT !.pc = p].server = r.server
BY DEF Thread

LEMMA NoRequestType ==
    /\ NoRequest \in Thread
    /\ NoRequest.pc = "idle" /\ NoRequest.kind = "page"
<1> DEFINE f == FALSE
<1>1. NoRequest = [pc |-> "idle", kind |-> "page", name |-> Admin, row |-> Admin,
                   known |-> f, server |-> 1]
  BY DEF NoRequest
<1>2. f \in BOOLEAN
  OBVIOUS
<1> HIDE DEF f
<1>3. 1 \in Server /\ Admin \in User
  BY MasterAssumption, FrontendAssumption DEF Server
<1> QED
  BY <1>1, <1>2, <1>3 DEF Thread, Pc, KindSet, Form, Private

LEMMA SeekType ==
    ASSUME TypeOK, NEW kind \in KindSet, NEW name \in User, NEW row \in User
    PROVE  /\ Seek(kind, name, row) \in Thread
           /\ Seek(kind, name, row).pc \in {"connecting", "asking"}
           /\ Seek(kind, name, row).kind = kind
           /\ Seek(kind, name, row).name = name
           /\ Seek(kind, name, row).row = row
           /\ Seek(kind, name, row).pc = "connecting" =>
                 /\ cache[name] # NoServer
                 /\ Seek(kind, name, row).server = cache[name]
<1> DEFINE k == cache[name] # NoServer
<1>1. k \in BOOLEAN
  OBVIOUS
<1>2. k => cache[name] \in Server
  BY DEF TypeOK
<1>3. 1 \in Server
  BY MasterAssumption DEF Server
<1>4. Seek(kind, name, row) =
         [pc |-> IF k THEN "connecting" ELSE "asking",
          kind |-> kind, name |-> name, row |-> row, known |-> k,
          server |-> IF k THEN cache[name] ELSE 1]
  BY DEF Seek
<1>5. k => cache[name] # NoServer
  OBVIOUS
<1> HIDE DEF k
<1> QED
  BY <1>1, <1>2, <1>3, <1>4, <1>5 DEF Thread, Pc

(* One thread changes.                                                      *)
LEMMA ReqSet ==
    ASSUME TypeOK, NEW b \in Browser, NEW r \in Thread, req' = [req EXCEPT ![b] = r]
    PROVE  /\ req' \in [Browser -> Thread]
           /\ req'[b] = r
           /\ \A c \in Browser : c # b => req'[c] = req[c]
BY DEF TypeOK

LEMMA MasterKept ==
    ASSUME Held
    PROVE  /\ MasterTypeOK => MasterTypeOK'
           /\ PollInv => PollInv'
           /\ MasterStays => MasterStays'
           /\ Up' = Up
BY DEF Held, MasterTypeOK, PollInv, MasterStays, Up, Alive, InGroup

(* A step of a thread outside its exchanges with the master.                *)
LEMMA ThreadStep ==
    ASSUME FrontendInv, NEW b \in Browser, NEW r \in Thread,
           Held, Worse, mode # "crashed",
           cache' = cache, mode' = mode,
           req' = [req EXCEPT ![b] = r],
           req[b].pc \notin Exchange, r.pc \notin Exchange,
           Regular /\ r.pc \in {"connecting", "connected", "checked"} =>
               InGroup(r.server, r.name),
           r.pc = "bare" => r.kind = "switch",
           ~mixed' => ~mixed /\ (r.kind \in Form => r.name = r.row)
    PROVE  PollInv' /\ ChannelInv' /\ RequestInv' /\ RightServer' /\ MasterStays' /\ FrontendStays'
<1> USE DEF FrontendInv
<1>1. /\ req'[b] = r
      /\ \A c \in Browser : c # b => req'[c] = req[c]
  BY ReqSet
<1>2. PollInv' /\ MasterStays' /\ (Regular' => Regular)
  BY MasterKept DEF Regular, Worse
<1>3. Exchanging' = Exchanging /\ \A c \in Exchanging : Wants(c)' = Wants(c)
  BY <1>1 DEF Exchanging, Wants
<1>4. ChannelInv'
  BY <1>2, <1>3 DEF ChannelInv, Requested, Handled, Replied, QuitsBut, AnswersTo, InGroup,
                    Held
<1>5. RequestInv'
  BY <1>1 DEF RequestInv, Worse
<1>6. RightServer'
  BY <1>1, <1>2 DEF RightServer, InGroup
<1>7. FrontendStays'
  BY <1>2 DEF FrontendStays
<1> QED
  BY <1>2, <1>4, <1>5, <1>6, <1>7

(* Nothing of the accounts and sessions changes.                            *)
LEMMA SessionsKept ==
    ASSUME AccountsAtHome, LastLoginHolds, UNCHANGED <<account, holder, last>>,
           Regular' => Regular, ~mixed' => ~mixed
    PROVE  AccountsAtHome' /\ LastLoginHolds'
BY DEF AccountsAtHome, LastLoginHolds

(* A thread that has a server reaches the group of the user it is for.      *)
LEMMA ReachedGroup ==
    ASSUME FrontendInv, Regular, NEW b \in Browser,
           req[b].pc \in {"connecting", "connected", "checked"}
    PROVE  Reached(b) = Group(req[b].name)
<1>1. req[b].name \in User /\ req[b].server \in Members(Group(req[b].name))
  BY ThreadFields DEF FrontendInv, TypeOK, RightServer, InGroup
<1> QED
  BY <1>1, GroupType, MembersType DEF Reached

(* A thread changes and nothing else.                                       *)
LEMMA KeptStep ==
    ASSUME FrontendInv, Keeps, NEW b \in Browser, NEW r \in Thread,
           req' = [req EXCEPT ![b] = r], req[b].pc # "idle",
           req[b].pc \notin Exchange, r.pc \notin Exchange,
           r.pc = "bare" => r.kind = "switch",
           Regular /\ r.pc \in {"connecting", "connected", "checked"} =>
               InGroup(r.server, r.name),
           ~mixed /\ r.kind \in Form => r.name = r.row
    PROVE  FrontendInv'
<1>1. /\ Held /\ Worse /\ mode # "crashed"
      /\ mode' = mode /\ cache' = cache /\ mixed' = mixed
      /\ jar' = jar /\ account' = account /\ holder' = holder /\ last' = last
      /\ requests' = requests
  BY Living DEF Keeps
<1>2. PollInv' /\ ChannelInv' /\ RequestInv' /\ RightServer' /\ MasterStays' /\ FrontendStays'
  BY <1>1, ThreadStep
<1>3. TypeOK'
  BY <1>1, ReqSet, MasterKept DEF FrontendInv, TypeOK, Worse
<1>4. AccountsAtHome' /\ LastLoginHolds'
  BY <1>1, SessionsKept, MasterKept DEF FrontendInv, Regular, Worse
<1> QED
  BY <1>2, <1>3, <1>4 DEF FrontendInv

(* A thread answers its browser.                                            *)
LEMMA ReplyStep ==
    ASSUME FrontendInv, Keeps, NEW b \in Browser, Reply(b),
           req[b].pc # "idle", req[b].pc \notin Exchange
    PROVE  FrontendInv'
<1>1. "page" \notin Form
  BY DEF Form
<1> QED
  BY <1>1, KeptStep, NoRequestType DEF Reply

(* A thread goes on with the same server.                                   *)
LEMMA PcStep ==
    ASSUME FrontendInv, Keeps, NEW b \in Browser, NEW p \in {"connected", "asking", "checked", "calling"},
           req' = [req EXCEPT ![b].pc = p], req[b].pc \in {"connecting", "connected", "checked"}
    PROVE  FrontendInv'
<1> DEFINE r == [req[b] EXCEPT !.pc = p]
<1>1. req[b] \in Thread
  BY DEF FrontendInv, TypeOK
<1>2. /\ r \in Thread /\ r.pc = p /\ r.kind = req[b].kind /\ r.name = req[b].name
      /\ r.row = req[b].row /\ r.server = req[b].server
  <2>1. p \in Pc
    BY DEF Pc
  <2> QED
    BY <1>1, <2>1, ThreadPc
<1>3. req' = [req EXCEPT ![b] = r]
  OBVIOUS
<1> HIDE DEF r
<1>4. Regular => InGroup(r.server, r.name)
  BY <1>2 DEF FrontendInv, RightServer
<1>5. ~mixed /\ r.kind \in Form => r.name = r.row
  BY <1>2 DEF FrontendInv, RequestInv
<1> QED
  BY <1>2, <1>3, <1>4, <1>5, KeptStep

LEMMA ConnectStep == ASSUME FrontendInv, NEW b \in Browser, Connect(b) PROVE FrontendInv'
<1>1. Keeps
  BY FaultRange DEF Connect, Keeps, Held, Worse, sessionVars, boundVars, FrontendInv, TypeOK
<1>2. PICK p \in {"connected", "asking"} : req' = [req EXCEPT ![b].pc = p]
  BY DEF Connect
<1> QED
  BY <1>1, <1>2, PcStep DEF Connect

LEMMA LostStep == ASSUME FrontendInv, NEW b \in Browser, Lost(b) PROVE FrontendInv'
BY ReplyStep, KeptKeeps DEF Lost

LEMMA CheckSessionStep == ASSUME FrontendInv, NEW b \in Browser, CheckSession(b) PROVE FrontendInv'
BY ReplyStep, PcStep, KeptKeeps DEF CheckSession

LEMMA RedirectStep == ASSUME FrontendInv, NEW b \in Browser, Redirect(b) PROVE FrontendInv'
BY ReplyStep, KeptKeeps DEF Redirect, Ready

LEMMA ServeStep == ASSUME FrontendInv, NEW b \in Browser, Serve(b) PROVE FrontendInv'
BY ReplyStep, KeptKeeps DEF Serve, Starts, Ready

LEMMA PutEmailStep == ASSUME FrontendInv, NEW b \in Browser, PutEmail(b) PROVE FrontendInv'
BY ReplyStep, KeptKeeps DEF PutEmail

(* A form that is handled has a connection.                                 *)
LEMMA FormReady ==
    ASSUME FrontendInv, NEW b \in Browser, NEW kind \in Form, Ready(b, kind)
    PROVE  req[b].pc = "connected" /\ req[b].kind = kind
BY DEF FrontendInv, RequestInv, Ready, Form, Private

LEMMA VerifyStep == ASSUME FrontendInv, NEW b \in Browser, Verify(b) PROVE FrontendInv'
<1>1. Kept /\ Ready(b, "login")
  BY DEF Verify, Starts
<1>2. req[b].pc = "connected"
  BY <1>1, FormReady DEF Form
<1> QED
  BY <1>1, <1>2, ReplyStep, PcStep, KeptKeeps DEF Verify

LEMMA WriteMailStep == ASSUME FrontendInv, NEW b \in Browser, WriteMail(b) PROVE FrontendInv'
<1> DEFINE r == Seek("deliver", req[b].row, req[b].row)
<1>1. req[b].row \in User
  BY ThreadFields DEF FrontendInv, TypeOK
<1>2. /\ Keeps /\ req' = [req EXCEPT ![b] = r]
      /\ req[b].pc \notin Exchange /\ req[b].pc # "idle"
  BY KeptKeeps DEF WriteMail, Starts, Ready
<1>3. "deliver" \in KindSet \ Form
  BY DEF KindSet, Form
<1>4. /\ r \in Thread /\ r.pc \in {"connecting", "asking"} /\ r.kind = "deliver"
      /\ r.name = req[b].row
      /\ r.pc = "connecting" => cache[r.name] # NoServer /\ r.server = cache[r.name]
  BY <1>1, <1>3, SeekType DEF FrontendInv
<1> HIDE DEF r
<1>5. Regular /\ r.pc = "connecting" => InGroup(r.server, r.name)
  BY <1>1, <1>4 DEF FrontendInv, RightServer
<1> QED
  BY <1>2, <1>3, <1>4, <1>5, KeptStep

(* A request begins.                                                        *)
LEMMA BeginStep ==
    ASSUME FrontendInv, NEW b \in Browser, NEW r \in Thread, Begin(b, r),
           r.pc \in {"connecting", "asking", "bare"}, mixed' \in BOOLEAN,
           r.pc = "bare" => r.kind = "switch",
           Regular /\ r.pc = "connecting" => InGroup(r.server, r.name),
           ~mixed' => ~mixed /\ (r.kind \in Form => r.name = r.row)
    PROVE  FrontendInv'
<1>1. /\ Held /\ Worse /\ mode # "crashed"
      /\ mode' = mode /\ cache' = cache /\ overlapped' = overlapped
      /\ jar' = jar /\ account' = account /\ holder' = holder /\ last' = last
      /\ req' = [req EXCEPT ![b] = r] /\ req[b].pc = "idle"
  BY SameMaster, SameFaults DEF Begin, sessionVars
<1>2. PollInv' /\ ChannelInv' /\ RequestInv' /\ RightServer' /\ MasterStays' /\ FrontendStays'
  BY <1>1, ThreadStep
<1>3. TypeOK'
  <2>1. requests' \in 0..MaxRequests
    BY FrontendAssumption DEF Begin, FrontendInv, TypeOK
  <2> QED
    BY <1>1, <2>1, ReqSet, MasterKept DEF FrontendInv, TypeOK, Worse
<1>4. AccountsAtHome' /\ LastLoginHolds'
  BY <1>1, SessionsKept, MasterKept DEF FrontendInv, Regular
<1> QED
  BY <1>2, <1>3, <1>4 DEF FrontendInv

(* The server of a request that finds one in user_servers is the right one. *)
LEMMA SeekRight ==
    ASSUME FrontendInv, NEW kind \in KindSet, NEW name \in User, NEW row \in User, Regular,
           Seek(kind, name, row).pc = "connecting"
    PROVE  InGroup(Seek(kind, name, row).server, Seek(kind, name, row).name)
<1>1. /\ Seek(kind, name, row).name = name /\ cache[name] # NoServer
      /\ Seek(kind, name, row).server = cache[name]
  BY SeekType DEF FrontendInv
<1> QED
  BY <1>1 DEF FrontendInv, RightServer

LEMMA OpenFormStep ==
    ASSUME FrontendInv, NEW b \in Browser, NEW kind \in Form, NEW u \in User, OpenForm(b, kind, u)
    PROVE  FrontendInv'
<1> DEFINE name == IF jar[b] # Nobody THEN jar[b] ELSE u
           r == Seek(kind, name, u)
<1>1. name \in User /\ kind \in KindSet
  BY DEF FrontendInv, TypeOK, KindSet
<1>2. Begin(b, r) /\ mixed' = (mixed \/ name # u)
  BY DEF OpenForm
<1> HIDE DEF name
<1>3. /\ r \in Thread /\ r.pc \in {"connecting", "asking"} /\ r.kind = kind
      /\ r.name = name /\ r.row = u
  BY <1>1, SeekType DEF FrontendInv
<1>4. Regular /\ r.pc = "connecting" => InGroup(r.server, r.name)
  BY <1>1, SeekRight
<1> HIDE DEF r
<1>5. mixed' \in BOOLEAN /\ (~mixed' => ~mixed /\ r.name = r.row)
  BY <1>2, <1>3
<1> QED
  BY <1>2, <1>3, <1>4, <1>5, BeginStep

(* Requests that are not forms.                                             *)
LEMMA OpenOther ==
    ASSUME FrontendInv, NEW b \in Browser, NEW kind \in KindSet \ Form, NEW row \in User,
           jar[b] # Nobody, Begin(b, Seek(kind, jar[b], row)), UNCHANGED mixed
    PROVE  FrontendInv'
<1> DEFINE r == Seek(kind, jar[b], row)
<1>1. jar[b] \in User /\ mixed \in BOOLEAN
  BY DEF FrontendInv, TypeOK
<1>2. r \in Thread /\ r.pc \in {"connecting", "asking"} /\ r.kind = kind
  BY <1>1, SeekType DEF FrontendInv
<1>3. Regular /\ r.pc = "connecting" => InGroup(r.server, r.name)
  BY <1>1, SeekRight
<1> HIDE DEF r
<1>4. Begin(b, r)
  BY DEF r
<1> QED
  BY <1>1, <1>2, <1>3, <1>4, BeginStep

LEMMA OpenSwitchStep ==
    ASSUME FrontendInv, NEW b \in Browser, OpenSwitch(b)
    PROVE  FrontendInv'
<1>1. "switch" \in KindSet \ Form
  BY DEF KindSet, Form
<1>2. CASE jar[b] # Nobody
  <2>1. jar[b] \in User
    BY <1>2 DEF FrontendInv, TypeOK
  <2> QED
    BY <1>1, <1>2, <2>1, OpenOther DEF OpenSwitch
<1>3. CASE jar[b] = Nobody
  <2> DEFINE r == [NoRequest EXCEPT !.pc = "bare", !.kind = "switch"]
  <2>1. r \in Thread /\ r.pc = "bare" /\ r.kind = "switch"
    BY <1>1, NoRequestType DEF Thread, Pc
  <2>2. Begin(b, r) /\ mixed' = mixed /\ mixed \in BOOLEAN
    BY <1>3 DEF OpenSwitch, FrontendInv, TypeOK
  <2> HIDE DEF r
  <2> QED
    BY <1>1, <2>1, <2>2, BeginStep
<1> QED
  BY <1>2, <1>3

LEMMA OpenStep == ASSUME FrontendInv, NEW b \in Browser, Open(b) PROVE FrontendInv'
<1>1. ASSUME NEW kind \in Kinds \cap Form, NEW u \in User, OpenForm(b, kind, u)
      PROVE  FrontendInv'
  BY <1>1, OpenFormStep
<1>2. ASSUME NEW kind \in {"page", "logout", "admin"}, OpenPage(b, kind)
      PROVE  FrontendInv'
  <2>1. kind \in KindSet \ Form /\ jar[b] # Nobody /\ jar[b] \in User
    BY <1>2 DEF KindSet, Form, Private, OpenPage, FrontendInv, TypeOK
  <2> QED
    BY <1>2, <2>1, OpenOther DEF OpenPage
<1>3. ASSUME NEW to \in User, OpenMail(b, to)
      PROVE  FrontendInv'
  <2>1. "mail" \in KindSet \ Form
    BY DEF KindSet, Form, Private
  <2> QED
    BY <1>3, <2>1, OpenOther DEF OpenMail
<1> QED
  BY <1>1, <1>2, <1>3, OpenSwitchStep DEF Open

LEMMA RegisterStep == ASSUME FrontendInv, NEW b \in Browser, Register(b) PROVE FrontendInv'
<1>1. req[b].pc = "connected" /\ req[b].kind = "register"
  BY FormReady DEF Register, Starts, Form
<1>2. CASE req[b].row \notin account[Reached(b)]
  <2> DEFINE r == [req[b] EXCEPT !.pc = "checked"]
             x == req[b].row
  <2>1. req[b] \in Thread /\ "checked" \in Pc
    BY DEF FrontendInv, TypeOK, Pc
  <2>2. /\ r \in Thread /\ r.pc = "checked" /\ r.kind = req[b].kind /\ r.name = req[b].name
        /\ r.row = req[b].row /\ r.server = req[b].server
    BY <2>1, ThreadPc
  <2>3. x \in User /\ req[b].name \in User
    BY <2>1, ThreadFields
  <2>4. /\ req' = [req EXCEPT ![b] = r]
        /\ account' = [account EXCEPT ![Reached(b)] = @ \cup {x}]
    BY <1>2 DEF Register
  <2>5. /\ Held /\ Worse /\ mode # "crashed"
        /\ mode' = mode /\ cache' = cache /\ overlapped' = overlapped /\ mixed' = mixed
        /\ jar' = jar /\ holder' = holder /\ last' = last /\ requests' = requests
    BY <1>1, SameMaster, SameFaults, Living DEF Register, boundVars
  <2> HIDE DEF r
  <2>6. Regular => InGroup(r.server, r.name)
    BY <1>1, <2>2 DEF FrontendInv, RightServer
  <2>7. ~mixed => r.name = r.row
    BY <1>1, <2>2 DEF FrontendInv, RequestInv, Form
  <2>8. PollInv' /\ ChannelInv' /\ RequestInv' /\ RightServer' /\ MasterStays' /\ FrontendStays'
    BY <1>1, <2>2, <2>4, <2>5, <2>6, <2>7, ThreadStep
  <2>9. TypeOK'
    <3>1. account' \in [GroupId -> SUBSET User]
      BY <2>3, <2>4 DEF FrontendInv, TypeOK
    <3> QED
      BY <2>2, <2>4, <2>5, <3>1, ReqSet, MasterKept DEF FrontendInv, TypeOK, Worse
  <2>10. Regular' = Regular
    BY <2>5, MasterKept DEF Regular
  <2>11. LastLoginHolds'
    BY <2>5, <2>10 DEF FrontendInv, LastLoginHolds
  <2>12. AccountsAtHome'
    <3>1. ASSUME Regular, ~mixed, NEW g \in GroupId, NEW u \in User, u \in account'[g],
                 u \notin account[g]
          PROVE  g = Group(u)
      <4>1. u = x /\ g = Reached(b)
        BY <2>4, <3>1 DEF FrontendInv, TypeOK
      <4>2. Reached(b) = Group(req[b].name)
        BY <1>1, <3>1, ReachedGroup
      <4> QED
        BY <2>2, <2>7, <3>1, <4>1, <4>2
    <3> QED
      BY <2>5, <2>10, <3>1 DEF FrontendInv, AccountsAtHome
  <2> QED
    BY <2>8, <2>9, <2>11, <2>12 DEF FrontendInv
<1>3. CASE req[b].row \in account[Reached(b)]
  <2>1. Kept /\ Reply(b)
    BY <1>3 DEF Register, Kept, sessionVars
  <2> QED
    BY <1>1, <2>1, KeptKeeps, ReplyStep
<1> QED
  BY <1>2, <1>3

(* A thread answers and changes the sessions of its group.                  *)
LEMMA SessionStep ==
    ASSUME FrontendInv, NEW b \in Browser, Reply(b), req[b].pc = "checked",
           UNCHANGED <<masterVars, mode, cache, account, boundVars, faultVars>>,
           jar' \in [Browser -> User \cup {Nobody}],
           holder' \in [GroupId -> [User -> Browser \cup {Nobody}]],
           last' \in [User -> Browser \cup {Nobody}],
           LastLoginHolds'
    PROVE  FrontendInv'
<1>1. /\ Held /\ Worse /\ mode # "crashed"
      /\ mode' = mode /\ cache' = cache /\ overlapped' = overlapped /\ mixed' = mixed
      /\ account' = account /\ requests' = requests
      /\ req' = [req EXCEPT ![b] = NoRequest]
  BY SameMaster, SameFaults, Living DEF boundVars, Reply
<1>2. "page" \notin Form
  BY DEF Form
<1>3. PollInv' /\ ChannelInv' /\ RequestInv' /\ RightServer' /\ MasterStays' /\ FrontendStays'
  BY <1>1, <1>2, ThreadStep, NoRequestType
<1>4. TypeOK'
  BY <1>1, ReqSet, NoRequestType, MasterKept DEF FrontendInv, TypeOK, Worse
<1>5. AccountsAtHome'
  BY <1>1, MasterKept DEF FrontendInv, AccountsAtHome, Regular
<1> QED
  BY <1>3, <1>4, <1>5 DEF FrontendInv

LEMMA IssueStep == ASSUME FrontendInv, NEW b \in Browser, Issue(b) PROVE FrontendInv'
<1> DEFINE x == req[b].row
           g == Reached(b)
<1>1. x \in User /\ req[b].name \in User
  BY ThreadFields DEF FrontendInv, TypeOK
<1>2. /\ req[b].pc = "checked" /\ req[b].kind \in Form
      /\ holder' = [holder EXCEPT ![g][x] = b]
      /\ jar' = [jar EXCEPT ![b] = x]
      /\ last' = [last EXCEPT ![x] = b]
      /\ UNCHANGED <<masterVars, mode, cache, account, boundVars, faultVars>>
      /\ Reply(b)
  BY DEF Issue
<1> HIDE DEF x, g
<1>3. /\ jar' \in [Browser -> User \cup {Nobody}]
      /\ holder' \in [GroupId -> [User -> Browser \cup {Nobody}]]
      /\ last' \in [User -> Browser \cup {Nobody}]
  BY <1>1, <1>2 DEF FrontendInv, TypeOK
<1>4. LastLoginHolds'
  <2>1. Regular' = Regular /\ mixed' = mixed
    BY <1>2, SameMaster, MasterKept DEF Regular, boundVars
  <2>2. ASSUME Regular, ~mixed, NEW u \in User, last'[u] # Nobody
        PROVE  holder'[Group(u)][u] = last'[u]
    <3>1. Group(u) \in GroupId
      BY GroupType
    <3>2. CASE u = x
      <4>1. g = Group(u)
        BY <1>1, <1>2, <2>2, <3>2, ReachedGroup DEF FrontendInv, RequestInv, g, x
      <4> QED
        BY <1>1, <1>2, <3>1, <3>2, <4>1 DEF FrontendInv, TypeOK
    <3>3. CASE u # x
      BY <1>1, <1>2, <2>2, <3>1, <3>3 DEF FrontendInv, TypeOK, LastLoginHolds
    <3> QED
      BY <3>2, <3>3
  <2> QED
    BY <2>1, <2>2 DEF LastLoginHolds
<1> QED
  BY <1>2, <1>3, <1>4, SessionStep

LEMMA LogoutStep == ASSUME FrontendInv, NEW b \in Browser, Logout(b) PROVE FrontendInv'
<1> DEFINE x == req[b].name
           g == Reached(b)
           h == IF x \in account[g] THEN Nobody ELSE holder[g][x]
<1>1. x \in User
  BY ThreadFields DEF FrontendInv, TypeOK
<1>2. /\ req[b].pc = "checked" \/ req[b].pc = "bare"
      /\ req[b].kind = "logout"
      /\ holder' = [holder EXCEPT ![g][x] = h]
      /\ jar' = [jar EXCEPT ![b] = Nobody]
      /\ last' = [last EXCEPT ![x] = Nobody]
      /\ UNCHANGED <<masterVars, mode, cache, account, boundVars, faultVars>>
      /\ Reply(b)
  BY DEF Logout, Starts, Ready, Private
<1>3. req[b].pc = "checked"
  BY <1>2 DEF FrontendInv, RequestInv
<1>4. g \in GroupId => h \in Browser \cup {Nobody}
  BY <1>1 DEF FrontendInv, TypeOK
<1> HIDE DEF x, g, h
<1>5. /\ jar' \in [Browser -> User \cup {Nobody}]
      /\ holder' \in [GroupId -> [User -> Browser \cup {Nobody}]]
      /\ last' \in [User -> Browser \cup {Nobody}]
  BY <1>1, <1>2, <1>4 DEF FrontendInv, TypeOK
<1>6. LastLoginHolds'
  <2>1. Regular' = Regular /\ mixed' = mixed
    BY <1>2, SameMaster, MasterKept DEF Regular, boundVars
  <2>2. ASSUME Regular, ~mixed, NEW u \in User, last'[u] # Nobody
        PROVE  holder'[Group(u)][u] = last'[u]
    <3>1. Group(u) \in GroupId
      BY GroupType
    <3>2. u # x
      BY <1>1, <1>2, <2>2 DEF FrontendInv, TypeOK
    <3> QED
      BY <1>1, <1>2, <2>2, <3>1, <3>2 DEF FrontendInv, TypeOK, LastLoginHolds
  <2> QED
    BY <2>1, <2>2 DEF LastLoginHolds
<1> QED
  BY <1>2, <1>3, <1>5, <1>6, SessionStep

-----------------------------------------------------------------------------
(* Exchanges with the master.                                               *)

LEMMA Lines ==
    /\ Heartbeat \notin User /\ Quit \notin User /\ Heartbeat # Quit
    /\ Heartbeat \notin Server /\ Heartbeat # NoServer
BY MasterAssumption DEF Server, NoServer

(* A request that follows nothing but quits.                                *)
LEMMA SendStep ==
    ASSUME FrontendInv, NEW b \in Browser, NEW p \in Exchange,
           req[b].pc \in {"asking", "calling"},
           Send(b, IF p = "waiting" THEN req[b].name ELSE Heartbeat, p),
           faults' \in 0..MaxFaults, balancer' \in BOOLEAN, balancer' => balancer,
           p = "blind" => ~balancer'
    PROVE  FrontendInv'
<1> DEFINE line == IF p = "waiting" THEN req[b].name ELSE Heartbeat
           r == [req[b] EXCEPT !.pc = p]
<1>1. req[b] \in Thread /\ p \in Pc /\ line \in Request
  <2>1. req[b] \in Thread
    BY DEF FrontendInv, TypeOK
  <2> QED
    BY <2>1, ThreadFields DEF Pc, Request
<1>2. /\ r \in Thread /\ r.pc = p /\ r.kind = req[b].kind /\ r.name = req[b].name
      /\ r.row = req[b].row /\ r.server = req[b].server
  BY <1>1, ThreadPc
<1>3. line = IF r.pc = "waiting" THEN r.name ELSE Heartbeat
  BY <1>2
<1>4. /\ req' = [req EXCEPT ![b] = r]
      /\ toMaster' = IF Up THEN Append(toMaster, line) ELSE toMaster
      /\ overlapped' = (overlapped \/ Exchanging # {})
      /\ UNCHANGED <<on, exhausted, steady, master, fromMaster>>
      /\ UNCHANGED <<mode, cache, jar, account, holder, last, requests, mixed>>
      /\ UNCHANGED <<starved, cut>>
  BY DEF Send, sessionVars
<1> HIDE DEF line, r
<1>5. /\ req' \in [Browser -> Thread]
      /\ req'[b] = r
      /\ \A c \in Browser : c # b => req'[c] = req[c]
  BY <1>2, <1>4, ReqSet DEF FrontendInv
<1>6. Up' = Up /\ (Regular' => Regular /\ Exchanging = {} /\ Up) /\ mode # "crashed"
  BY <1>4, Living DEF Regular, Up
<1>7. TypeOK'
  <2>1. MasterTypeOK'
    BY <1>1, <1>4 DEF FrontendInv, TypeOK, MasterTypeOK
  <2>2. overlapped' \in BOOLEAN
    BY <1>4
  <2> QED
    BY <1>4, <1>5, <2>1, <2>2 DEF FrontendInv, TypeOK
<1>8. PollInv' /\ MasterStays'
  BY <1>4 DEF FrontendInv, PollInv, MasterStays, Alive, InGroup
<1>9. ChannelInv'
  <2> SUFFICES ASSUME Regular'
               PROVE  ChannelInv'
    BY DEF ChannelInv
  <2>1. Exchanging' = {b}
    BY <1>2, <1>5, <1>6 DEF Exchanging
  <2>2. Wants(b)' = line
    BY <1>3, <1>5 DEF Wants
  <2>3. master.state = "idle" /\ fromMaster = <<>> /\ QuitsBut({})
    BY <1>6 DEF FrontendInv, ChannelInv
  <2>4. toMaster \in Seq(Request) /\ toMaster' = Append(toMaster, line)
    BY <1>4, <1>6 DEF FrontendInv, TypeOK, MasterTypeOK
  <2>5. /\ Len(toMaster) + 1 \in DOMAIN toMaster'
        /\ toMaster'[Len(toMaster) + 1] = line
        /\ \A i \in DOMAIN toMaster' \ {Len(toMaster) + 1} : toMaster'[i] = Quit
    BY <1>1, <2>3, <2>4 DEF QuitsBut
  <2>6. Requested(b)'
    BY <1>4, <2>2, <2>3, <2>5 DEF Requested, QuitsBut
  <2> QED
    BY <2>1, <2>6 DEF ChannelInv
<1>10. RequestInv'
  BY <1>2, <1>4, <1>5 DEF FrontendInv, RequestInv
<1>11. RightServer'
  BY <1>2, <1>4, <1>5, <1>6 DEF FrontendInv, RightServer, InGroup
<1>12. AccountsAtHome' /\ LastLoginHolds' /\ FrontendStays'
  BY <1>4, <1>6 DEF FrontendInv, AccountsAtHome, LastLoginHolds, FrontendStays
<1> QED
  BY <1>7, <1>8, <1>9, <1>10, <1>11, <1>12 DEF FrontendInv

LEMMA AskStep == ASSUME FrontendInv, NEW b \in Browser, Ask(b) PROVE FrontendInv'
<1>1. faults' \in 0..MaxFaults /\ balancer' = balancer /\ balancer \in BOOLEAN
  BY FaultRange DEF Ask, FrontendInv, TypeOK
<1> QED
  BY <1>1, SendStep DEF Ask

LEMMA AskBalancerStep == ASSUME FrontendInv, NEW b \in Browser, AskBalancer(b) PROVE FrontendInv'
<1>1. Keeps
  BY SameMaster DEF AskBalancer, Keeps, Worse, faultVars, sessionVars, FrontendInv, TypeOK
<1>2. req' = [req EXCEPT ![b].pc = "calling"]
  BY DEF AskBalancer
<1>3. CASE Starts(b, "admin")
  <2>1. req[b].kind = "admin" /\ req[b].pc \in {"checked", "bare"}
    BY <1>3 DEF Starts, Ready, Private
  <2>2. req[b].pc = "checked"
    BY <2>1 DEF FrontendInv, RequestInv
  <2> QED
    BY <1>1, <1>2, <2>2, PcStep
<1>4. CASE req[b].pc = "connected"
  BY <1>1, <1>2, <1>4, PcStep
<1> QED
  BY <1>3, <1>4 DEF AskBalancer

LEMMA AskHeartbeatStep == ASSUME FrontendInv, NEW b \in Browser, AskHeartbeat(b) PROVE FrontendInv'
<1>1. /\ faults' \in 0..MaxFaults
      /\ balancer' \in BOOLEAN /\ (balancer' => balancer)
  <2>1. balancer \in BOOLEAN
    BY DEF FrontendInv, TypeOK
  <2>2. CASE UNCHANGED <<balancer, faults>>
    BY <2>1, <2>2, FaultRange
  <2>3. CASE balancer' = FALSE /\ Fault
    BY <2>3, FaultRange
  <2> QED
    BY <2>2, <2>3 DEF AskHeartbeat
<1>2. req[b].pc = "calling"
  BY DEF AskHeartbeat
<1>3. CASE balancer'
  BY <1>1, <1>2, <1>3, SendStep DEF AskHeartbeat
<1>4. CASE ~balancer'
  BY <1>1, <1>2, <1>4, SendStep DEF AskHeartbeat
<1> QED
  BY <1>3, <1>4

LEMMA SwitchOtherStep == ASSUME FrontendInv, NEW b \in Browser, SwitchOther(b) PROVE FrontendInv'
BY ReplyStep, KeptKeeps DEF SwitchOther, Starts, Ready, Private

(* Without overlap the line that is read answers the request.               *)
LEMMA HearOwn ==
    ASSUME FrontendInv, Regular, NEW b \in Exchanging, Hear
    PROVE  /\ Exchanging = {b}
           /\ Heard \in Answer /\ AnswersTo(Heard, Wants(b))
           /\ fromMaster' = <<>> /\ master.state = "idle" /\ QuitsBut({})
<1>0. mode # "crashed"
  BY Living DEF Exchanging
<1>1. Exchanging = {b}
  BY <1>0 DEF FrontendInv, ChannelInv
<1>2. fromMaster # <<>> /\ fromMaster' = Tail(fromMaster)
  BY DEF Hear, Regular
<1>3. Replied(b)
  BY <1>0, <1>2 DEF FrontendInv, ChannelInv, Requested, Handled
<1>4. PICK a \in Answer : fromMaster = <<a>> /\ AnswersTo(a, Wants(b))
  BY <1>3 DEF Replied
<1>5. Heard = a /\ fromMaster' = <<>>
  BY <1>2, <1>4 DEF Heard
<1> QED
  BY <1>1, <1>3, <1>4, <1>5 DEF Replied

(* What hearing an answer leaves alone.                                     *)
LEMMA HearKept ==
    ASSUME FrontendInv, Hear
    PROVE  /\ MasterTypeOK' /\ PollInv' /\ MasterStays'
           /\ Up' = Up /\ Regular' = Regular
           /\ UNCHANGED <<master, toMaster, jar, account, holder, last, requests,
                          overlapped, mixed, starved, balancer, cut>>
<1>1. /\ UNCHANGED <<on, faults, exhausted, steady, master, toMaster>>
      /\ UNCHANGED <<jar, account, holder, last, requests, overlapped, mixed>>
      /\ UNCHANGED <<starved, balancer, cut>>
  BY DEF Hear, sessionVars, boundVars, faultVars
<1>2. fromMaster' \in Seq(Answer)
  <2>1. fromMaster \in Seq(Answer)
    BY DEF FrontendInv, TypeOK, MasterTypeOK
  <2> QED
    BY <2>1 DEF Hear
<1>3. MasterTypeOK'
  BY <1>1, <1>2 DEF FrontendInv, TypeOK, MasterTypeOK
<1>4. PollInv' /\ MasterStays'
  BY <1>1 DEF FrontendInv, PollInv, MasterStays, Alive, InGroup
<1>5. Up' = Up /\ Regular' = Regular
  BY <1>1 DEF Up, Regular
<1> QED
  BY <1>1, <1>3, <1>4, <1>5

(* The end of an exchange.                                                  *)
LEMMA ExchangeEnds ==
    ASSUME FrontendInv, NEW b \in Exchanging, Hear, req'[b].pc \notin Exchange,
           \A c \in Browser : c # b => req'[c] = req[c]
    PROVE  ChannelInv'
<1> SUFFICES ASSUME Regular
             PROVE  ChannelInv'
  BY HearKept DEF ChannelInv
<1>1. Exchanging' = {}
  BY HearOwn DEF Exchanging
<1>2. master'.state = "idle" /\ fromMaster' = <<>> /\ QuitsBut({})'
  BY HearOwn, HearKept DEF QuitsBut
<1> QED
  BY <1>1, <1>2 DEF ChannelInv

LEMMA ReceiveStep == ASSUME FrontendInv, NEW b \in Browser, Receive(b) PROVE FrontendInv'
<1> DEFINE server == IF Heard \in Server THEN Heard ELSE req[b].server
           r == [req[b] EXCEPT !.pc = "connecting", !.server = server]
           u == req[b].name
<1>1. req[b] \in Thread /\ u \in User /\ req[b].server \in Server
  <2>1. req[b] \in Thread
    BY DEF FrontendInv, TypeOK
  <2> QED
    BY <2>1, ThreadFields
<1>2. server \in Server
  BY <1>1
<1>3. /\ req[b].pc = "waiting" /\ Hear /\ mode' = mode
      /\ req' = [req EXCEPT ![b] = r]
      /\ cache' = [cache EXCEPT ![u] = IF req[b].known \/ @ = NoServer THEN server ELSE @]
  BY DEF Receive
<1>4. b \in Exchanging /\ Wants(b) = u /\ u # Heartbeat
  BY <1>1, <1>3, Lines DEF Exchanging, Wants
<1>5. Regular => server \in Server /\ InGroup(server, u)
  BY <1>3, <1>4, HearOwn DEF AnswersTo
<1> HIDE DEF server
<1>6. /\ r \in Thread /\ r.pc = "connecting" /\ r.kind = req[b].kind /\ r.name = u
      /\ r.row = req[b].row /\ r.server = server
  BY <1>1, <1>2 DEF Thread, Pc
<1> HIDE DEF r
<1>7. /\ req' \in [Browser -> Thread]
      /\ req'[b] = r
      /\ \A c \in Browser : c # b => req'[c] = req[c]
  BY <1>3, <1>6, ReqSet DEF FrontendInv
<1>8. /\ cache' \in [User -> Server \cup {NoServer}]
      /\ cache'[u] = cache[u] \/ cache'[u] = server
      /\ \A v \in User : v # u => cache'[v] = cache[v]
  BY <1>1, <1>2, <1>3 DEF FrontendInv, TypeOK
<1> HIDE DEF u
<1>9. ChannelInv'
  BY <1>3, <1>4, <1>6, <1>7, ExchangeEnds
<1>10. TypeOK'
  BY <1>3, <1>7, <1>8, HearKept DEF FrontendInv, TypeOK
<1>11. RequestInv'
  BY <1>3, <1>6, <1>7, HearKept DEF FrontendInv, RequestInv, u
<1>12. RightServer'
  BY <1>1, <1>3, <1>5, <1>6, <1>7, <1>8, HearKept DEF FrontendInv, RightServer, InGroup
<1>13. AccountsAtHome' /\ LastLoginHolds' /\ FrontendStays'
  BY <1>3, HearKept DEF FrontendInv, AccountsAtHome, LastLoginHolds, FrontendStays
<1> QED
  BY <1>3, <1>9, <1>10, <1>11, <1>12, <1>13, HearKept DEF FrontendInv

(* The end of the process.                                                  *)
LEMMA CrashStep ==
    ASSUME FrontendInv, Crash, MasterTypeOK', PollInv', MasterStays', Worse, Regular' => Regular,
           UNCHANGED <<cache, jar, account, holder, last, requests, mixed>>,
           ~Regular' \/ starved' \/ ~balancer' \/ cut' \/ ServerCount >= MaxFields
    PROVE  FrontendInv'
<1>1. req' \in [Browser -> Thread] /\ mode' = "crashed"
  BY NoRequestType DEF Crash
<1>2. \A c \in Browser : req'[c] = NoRequest
  BY DEF Crash
<1>3. TypeOK'
  BY <1>1 DEF FrontendInv, TypeOK, Worse
<1>4. ChannelInv'
  BY <1>1 DEF ChannelInv
<1>5. RequestInv' /\ RightServer'
  BY <1>2, NoRequestType DEF FrontendInv, RequestInv, RightServer, InGroup, Form
<1>6. AccountsAtHome' /\ LastLoginHolds'
  BY SessionsKept DEF FrontendInv
<1>7. FrontendStays'
  BY MasterAssumption DEF FrontendStays, MaxFields
<1> QED
  BY <1>3, <1>4, <1>5, <1>6, <1>7 DEF FrontendInv

LEMMA BreakPipeStep == ASSUME FrontendInv, NEW b \in Browser, BreakPipe(b) PROVE FrontendInv'
<1>1. /\ Held /\ Worse /\ cut'
      /\ UNCHANGED <<cache, jar, account, holder, last, requests, overlapped, mixed>>
  BY FaultRange
     DEF BreakPipe, Held, Worse, sessionVars, boundVars, FrontendInv, TypeOK
<1>2. MasterTypeOK' /\ PollInv' /\ MasterStays' /\ (Regular' => Regular) /\ Crash
  BY <1>1, MasterKept DEF BreakPipe, FrontendInv, TypeOK, Regular
<1> QED
  BY <1>1, <1>2, CrashStep

LEMMA AcceptExitsStep == ASSUME FrontendInv, AcceptExits PROVE FrontendInv'
<1>1. /\ Held /\ Worse /\ starved' /\ Crash
      /\ UNCHANGED <<cache, jar, account, holder, last, requests, overlapped, mixed>>
  BY SameMaster, SameFaults DEF AcceptExits, sessionVars, boundVars, faultVars
<1>2. MasterTypeOK' /\ PollInv' /\ MasterStays' /\ (Regular' => Regular)
  BY <1>1, MasterKept DEF FrontendInv, TypeOK, Regular
<1> QED
  BY <1>1, <1>2, CrashStep

LEMMA ShowAdminStep == ASSUME FrontendInv, NEW b \in Browser, ShowAdmin(b) PROVE FrontendInv'
<1>1. req[b].pc \in {"listening", "blind"} /\ Hear /\ cache' = cache
  BY DEF ShowAdmin
<1>2. b \in Exchanging /\ Wants(b) = Heartbeat
  BY <1>1 DEF Exchanging, Wants
<1>3. CASE Reply(b) /\ mode' = mode
  <2>1. /\ req' \in [Browser -> Thread]
        /\ req'[b] = NoRequest
        /\ \A c \in Browser : c # b => req'[c] = req[c]
    BY <1>3, NoRequestType, ReqSet DEF Reply, FrontendInv
  <2>2. ChannelInv'
    BY <1>1, <1>2, <2>1, NoRequestType, ExchangeEnds
  <2>3. TypeOK'
    BY <1>1, <1>3, <2>1, HearKept DEF FrontendInv, TypeOK
  <2>4. RequestInv' /\ RightServer'
    BY <1>1, <1>3, <2>1, NoRequestType, HearKept
       DEF FrontendInv, RequestInv, RightServer, InGroup, Form
  <2>5. AccountsAtHome' /\ LastLoginHolds' /\ FrontendStays'
    BY <1>1, <1>3, HearKept DEF FrontendInv, AccountsAtHome, LastLoginHolds, FrontendStays
  <2> QED
    BY <1>1, <2>2, <2>3, <2>4, <2>5, HearKept DEF FrontendInv
<1>4. CASE Crash /\ (req[b].pc = "blind" \/ Heard # Heartbeat \/ ServerCount >= MaxFields)
  <2>1. ~balancer \/ ~Regular \/ ServerCount >= MaxFields
    BY <1>1, <1>2, <1>4, HearOwn DEF AnswersTo, FrontendInv, RequestInv
  <2>2. Worse
    BY <1>1, HearKept DEF Worse, FrontendInv, TypeOK
  <2> QED
    BY <1>1, <1>4, <2>1, <2>2, HearKept, CrashStep
<1> QED
  BY <1>3, <1>4 DEF ShowAdmin

LEMMA SwitchSelfStep == ASSUME FrontendInv, NEW b \in Browser, SwitchSelf(b) PROVE FrontendInv'
<1>1. /\ toMaster' = IF Up THEN Append(toMaster, Quit) ELSE toMaster
      /\ UNCHANGED <<on, faults, exhausted, steady, master, fromMaster, cache>>
      /\ UNCHANGED <<jar, account, holder, last, requests, overlapped, mixed>>
      /\ UNCHANGED <<starved, balancer, cut>>
      /\ req[b].pc \notin Exchange /\ mode # "crashed"
  BY DEF SwitchSelf, sessionVars, boundVars, faultVars, Starts, Ready
<1>2. MasterTypeOK' /\ PollInv' /\ MasterStays' /\ Up' = Up /\ Regular' = Regular
  <2>1. toMaster' \in Seq(Request)
    BY <1>1 DEF FrontendInv, TypeOK, MasterTypeOK, Request
  <2> QED
    BY <1>1, <2>1
       DEF FrontendInv, TypeOK, MasterTypeOK, PollInv, MasterStays, Alive, InGroup, Up, Regular
<1>3. CASE mode' = "off" /\ Reply(b)
  <2>1. /\ req' \in [Browser -> Thread]
        /\ req'[b] = NoRequest
        /\ \A c \in Browser : c # b => req'[c] = req[c]
    BY <1>3, NoRequestType, ReqSet DEF Reply, FrontendInv
  <2>2. Exchanging' = Exchanging /\ \A c \in Exchanging : Wants(c)' = Wants(c)
    BY <1>1, <2>1, NoRequestType DEF Exchanging, Wants
  <2>3. ChannelInv'
    <3> SUFFICES ASSUME Regular
                 PROVE  ChannelInv'
      BY <1>2 DEF ChannelInv
    <3>1. toMaster \in Seq(Request) /\ toMaster' = Append(toMaster, Quit)
      BY <1>1 DEF FrontendInv, TypeOK, MasterTypeOK, Regular
    <3>2. \A S : QuitsBut(S) => QuitsBut(S)'
      BY <3>1 DEF QuitsBut, Request
    <3>3. ASSUME NEW c \in Exchanging, Requested(c)
          PROVE  Requested(c)'
      <4>1. PICK k \in DOMAIN toMaster : toMaster[k] = Wants(c) /\ QuitsBut({k})
        BY <3>3 DEF Requested
      <4>2. k \in DOMAIN toMaster' /\ toMaster'[k] = toMaster[k]
        BY <3>1
      <4>3. QuitsBut({k})'
        BY <3>2, <4>1
      <4>4. Wants(c)' = Wants(c)
        BY <2>2
      <4> QED
        BY <1>1, <3>3, <4>1, <4>2, <4>3, <4>4 DEF Requested
    <3>4. ASSUME NEW c \in Exchanging, Handled(c) \/ Replied(c)
          PROVE  Handled(c)' \/ Replied(c)'
      BY <1>1, <2>2, <3>2, <3>4 DEF Handled, Replied, AnswersTo, InGroup
    <3>5. QuitsBut({}) => QuitsBut({})'
      BY <3>2
    <3>6. \A c \in Exchanging : Requested(c)' \/ Handled(c)' \/ Replied(c)'
      BY <1>1, <3>3, <3>4 DEF FrontendInv, ChannelInv
    <3> QED
      BY <1>1, <2>2, <3>5, <3>6 DEF FrontendInv, ChannelInv
  <2>4. TypeOK'
    BY <1>1, <1>2, <1>3, <2>1 DEF FrontendInv, TypeOK
  <2>5. RequestInv' /\ RightServer'
    BY <1>1, <1>2, <1>3, <2>1, NoRequestType
       DEF FrontendInv, RequestInv, RightServer, InGroup, Form
  <2>6. AccountsAtHome' /\ LastLoginHolds' /\ FrontendStays'
    BY <1>1, <1>2, <1>3 DEF FrontendInv, AccountsAtHome, LastLoginHolds, FrontendStays
  <2> QED
    BY <1>2, <2>3, <2>4, <2>5, <2>6 DEF FrontendInv
<1>4. CASE ~Up /\ Crash
  <2>1. ~Regular'
    BY <1>2, <1>4 DEF Regular
  <2>2. Worse
    BY <1>1 DEF Worse, FrontendInv, TypeOK
  <2> QED
    BY <1>1, <1>2, <1>4, <2>1, <2>2, CrashStep
<1> QED
  BY <1>3, <1>4 DEF SwitchSelf

-----------------------------------------------------------------------------
(* The master.                                                              *)

(* What a step without the threads leaves alone.                            *)
LEMMA ThreadsKept ==
    ASSUME FrontendInv, UNCHANGED threadVars, MasterTypeOK', Up' => Up
    PROVE  /\ TypeOK' /\ RequestInv' /\ RightServer' /\ AccountsAtHome' /\ LastLoginHolds'
           /\ FrontendStays'
           /\ Regular' => Regular
           /\ mode' = mode
           /\ Exchanging' = Exchanging
           /\ \A b \in Exchanging : Wants(b)' = Wants(b)
<1>1. /\ UNCHANGED <<mode, cache, req, jar, account, holder, last>>
      /\ UNCHANGED <<requests, overlapped, mixed, starved, balancer, cut>>
  BY DEF threadVars, sessionVars, boundVars, faultVars
<1>2. Regular' => Regular
  BY <1>1 DEF Regular
<1>3. TypeOK'
  BY <1>1 DEF FrontendInv, TypeOK
<1>4. RequestInv' /\ RightServer'
  BY <1>1, <1>2 DEF FrontendInv, RequestInv, RightServer, InGroup
<1>5. AccountsAtHome' /\ LastLoginHolds' /\ FrontendStays'
  BY <1>1, <1>2 DEF FrontendInv, AccountsAtHome, LastLoginHolds, FrontendStays
<1>6. Exchanging' = Exchanging /\ \A b \in Exchanging : Wants(b)' = Wants(b)
  BY <1>1 DEF Exchanging, Wants
<1> QED
  BY <1>1, <1>2, <1>3, <1>4, <1>5, <1>6

LEMMA HandlerFields ==
    ASSUME FrontendInv
    PROVE  /\ master \in Handler /\ master.next \in Nat /\ master.valid \in Seq(Server)
           /\ master.user \in Request
           /\ toMaster \in Seq(Request) /\ fromMaster \in Seq(Answer)
           /\ on \in SUBSET Server /\ steady \in SUBSET Server
BY DEF FrontendInv, TypeOK, MasterTypeOK, Handler

LEMMA IdleTypes ==
    /\ Idle \in Handler /\ Dead \in Handler /\ Gone \in Handler
    /\ Idle.state = "idle" /\ Dead.state = "dead" /\ Gone.state = "gone"
<1>1. Idle \in Handler /\ Idle.state = "idle"
  BY DEF Idle, Handler, Request
<1>2. \A p \in {"dead", "gone"} : /\ [Idle EXCEPT !.state = p] \in Handler
                                  /\ [Idle EXCEPT !.state = p].state = p
  BY <1>1 DEF Handler
<1> QED
  BY <1>1, <1>2 DEF Dead, Gone

(* The first request that is no quit is the one that is waited for.         *)
LEMMA NextRequest ==
    ASSUME FrontendInv, Regular, mode # "crashed", master.state = "idle", toMaster # <<>>,
           Head(toMaster) # Quit
    PROVE  \E b \in Exchanging :
              /\ Exchanging = {b}
              /\ Head(toMaster) = Wants(b)
              /\ fromMaster = <<>>
              /\ \A i \in DOMAIN Tail(toMaster) : Tail(toMaster)[i] = Quit
<1>1. toMaster \in Seq(Request) /\ 1 \in DOMAIN toMaster /\ toMaster[1] # Quit
  BY HandlerFields
<1>2. ~QuitsBut({})
  BY <1>1 DEF QuitsBut
<1>3. PICK b \in Exchanging : Exchanging = {b}
  BY <1>2 DEF FrontendInv, ChannelInv
<1>4. Requested(b)
  BY <1>2, <1>3 DEF FrontendInv, ChannelInv, Handled, Replied
<1>5. PICK k \in DOMAIN toMaster : toMaster[k] = Wants(b) /\ QuitsBut({k})
  BY <1>4 DEF Requested
<1>6. k = 1
  BY <1>1, <1>5 DEF QuitsBut
<1>7. \A i \in DOMAIN Tail(toMaster) : Tail(toMaster)[i] = Quit
  BY <1>1, <1>5, <1>6 DEF QuitsBut
<1> QED
  BY <1>1, <1>3, <1>4, <1>5, <1>6, <1>7 DEF Requested

LEMMA AnswerHeartbeatStep ==
    ASSUME FrontendInv, AnswerHeartbeat, UNCHANGED threadVars
    PROVE  FrontendInv'
<1>1. /\ master.state = "idle" /\ toMaster # <<>> /\ Head(toMaster) = Heartbeat
      /\ toMaster' = Tail(toMaster) /\ fromMaster' = Append(fromMaster, Heartbeat)
      /\ UNCHANGED <<on, faults, exhausted, steady, master>>
  BY DEF AnswerHeartbeat
<1>2. MasterTypeOK'
  <2>1. toMaster' \in Seq(Request) /\ fromMaster' \in Seq(Answer)
    BY <1>1, HandlerFields DEF Answer
  <2> QED
    BY <1>1, <2>1 DEF FrontendInv, TypeOK, MasterTypeOK
<1>3. PollInv' /\ MasterStays' /\ Up' = Up
  BY <1>1 DEF FrontendInv, PollInv, MasterStays, Alive, InGroup, Up
<1>4. ChannelInv'
  <2> SUFFICES ASSUME Regular, mode # "crashed"
               PROVE  ChannelInv'
    BY <1>2, <1>3, ThreadsKept DEF ChannelInv
  <2>1. PICK b \in Exchanging :
           /\ Exchanging = {b} /\ Heartbeat = Wants(b) /\ fromMaster = <<>>
           /\ \A i \in DOMAIN Tail(toMaster) : Tail(toMaster)[i] = Quit
    BY <1>1, NextRequest, Lines
  <2>2. fromMaster' = <<Heartbeat>>
    BY <1>1, <2>1
  <2>3. AnswersTo(Heartbeat, Wants(b))
    BY <2>1 DEF AnswersTo
  <2>4. Wants(b)' = Wants(b) /\ Exchanging' = Exchanging
    BY <1>2, <1>3, ThreadsKept
  <2>5. QuitsBut({})'
    BY <1>1, <2>1 DEF QuitsBut
  <2>6. Replied(b)'
    BY <1>1, <2>2, <2>3, <2>4, <2>5 DEF Replied, AnswersTo, Answer, InGroup
  <2> QED
    BY <2>1, <2>4, <2>6 DEF ChannelInv
<1> QED
  BY <1>2, <1>3, <1>4, ThreadsKept DEF FrontendInv

(* The handler is gone for good, or the master is.                          *)
LEMMA DownStep ==
    ASSUME FrontendInv, UNCHANGED threadVars, MasterTypeOK', ~Up',
           UNCHANGED <<on, exhausted, steady>>, MasterStays'
    PROVE  FrontendInv'
<1>1. PollInv'
  BY DEF FrontendInv, PollInv, Up
<1>2. ChannelInv'
  BY DEF ChannelInv, Regular
<1> QED
  BY <1>1, <1>2, ThreadsKept DEF FrontendInv

LEMMA AnswerQuitStep ==
    ASSUME FrontendInv, AnswerQuit, UNCHANGED threadVars
    PROVE  FrontendInv'
<1>1. /\ master.state = "idle" /\ master' = Gone /\ UNCHANGED <<on, faults, exhausted, steady>>
      /\ toMaster' = <<>> /\ fromMaster' = Append(fromMaster, NoServer)
  BY DEF AnswerQuit
<1>2. MasterTypeOK'
  <2>1. toMaster' \in Seq(Request) /\ fromMaster' \in Seq(Answer)
    BY <1>1, HandlerFields DEF Answer
  <2> QED
    BY <1>1, <2>1, IdleTypes DEF FrontendInv, TypeOK, MasterTypeOK
<1>3. ~Up' /\ MasterStays'
  BY <1>1, IdleTypes DEF Up, MasterStays, Alive
<1> QED
  BY <1>1, <1>2, <1>3, DownStep

(* Nobody of the group answered, so none of its servers was always on.      *)
LEMMA DivideByZeroStep ==
    ASSUME FrontendInv, DivideByZero, UNCHANGED threadVars
    PROVE  FrontendInv'
<1>1. /\ master.state = "polling" /\ Polled /\ master.valid = <<>> /\ master' = Dead
      /\ toMaster' = <<>> /\ UNCHANGED <<on, faults, exhausted, steady, fromMaster>>
  BY DEF DivideByZero
<1>2. MasterTypeOK'
  <2>1. toMaster' \in Seq(Request)
    BY <1>1
  <2> QED
    BY <1>1, <2>1, IdleTypes DEF FrontendInv, TypeOK, MasterTypeOK
<1>3. ~Up'
  BY <1>1, IdleTypes DEF Up
<1>4. MasterStays'
  <2> SUFFICES ASSUME ~exhausted
               PROVE  MasterStays'
    BY <1>1 DEF MasterStays
  <2>1. PICK g \in GroupId : g = Group(master.user)
    BY <1>1, GroupType DEF FrontendInv, PollInv
  <2>2. ASSUME NEW s \in Members(g) \cap steady
        PROVE  FALSE
    <3>1. s \in FirstOf(g)..LastOf(g) /\ FirstOf(g) \in Nat /\ LastOf(g) \in Nat
      BY <2>1, MembersType
    <3>2. s < master.next
      BY <1>1, <2>1, <3>1, HandlerFields DEF Polled
    <3>3. \E i \in DOMAIN master.valid : master.valid[i] = s
      BY <1>1, <2>1, <3>2 DEF FrontendInv, PollInv
    <3> QED
      BY <1>1, <3>3
  <2>3. Members(g) \cap steady' = {}
    BY <1>1, <2>2
  <2> QED
    BY <2>1, <2>3 DEF MasterStays
<1> QED
  BY <1>1, <1>2, <1>3, <1>4, DownStep

(* Without a descriptor for the next frontend the master ends.              *)
LEMMA AcceptEndsStep ==
    ASSUME FrontendInv, AcceptEnds, UNCHANGED threadVars
    PROVE  FrontendInv'
<1>1. /\ exhausted /\ master' = Dead /\ toMaster' = <<>>
      /\ UNCHANGED <<on, faults, exhausted, steady, fromMaster>>
  BY DEF AcceptEnds
<1>2. MasterTypeOK'
  <2>1. toMaster' \in Seq(Request)
    BY <1>1
  <2> QED
    BY <1>1, <2>1, IdleTypes DEF FrontendInv, TypeOK, MasterTypeOK
<1>3. ~Up' /\ MasterStays'
  BY <1>1, IdleTypes DEF Up, MasterStays
<1> QED
  BY <1>1, <1>2, <1>3, DownStep

LEMMA GetServerStep ==
    ASSUME FrontendInv, GetServer, UNCHANGED threadVars
    PROVE  FrontendInv'
<1> DEFINE u == Head(toMaster)
           h == [state |-> "polling", user |-> u, next |-> FirstOf(Group(u)), valid |-> <<>>]
<1>1. /\ master.state = "idle" /\ toMaster # <<>> /\ u \in User
      /\ toMaster' = Tail(toMaster) /\ master' = h
      /\ UNCHANGED <<on, faults, exhausted, steady, fromMaster>>
  BY DEF GetServer
<1>2. Group(u) \in GroupId /\ FirstOf(Group(u)) \in Nat
  BY <1>1, GroupType, MembersType
<1>3. h \in Handler /\ h.state = "polling" /\ h.user = u /\ h.next = FirstOf(Group(u)) /\ h.valid = <<>>
  BY <1>1, <1>2 DEF Handler, Request
<1> HIDE DEF h
<1>4. MasterTypeOK'
  <2>1. toMaster' \in Seq(Request)
    BY <1>1, HandlerFields
  <2> QED
    BY <1>1, <1>3, <2>1 DEF FrontendInv, TypeOK, MasterTypeOK
<1>5. PollInv'
  <2>1. \A s \in Members(Group(u)) : ~(s < FirstOf(Group(u)))
    BY <1>2, MembersType
  <2>2. steady' \subseteq on'
    BY <1>1 DEF FrontendInv, PollInv
  <2> QED
    BY <1>1, <1>2, <1>3, <2>1, <2>2 DEF PollInv
<1>6. MasterStays' /\ (Up' => Up)
  BY <1>1, <1>3 DEF FrontendInv, MasterStays, Alive, Up
<1>7. ChannelInv'
  <2> SUFFICES ASSUME Regular, mode # "crashed"
               PROVE  ChannelInv'
    BY <1>4, <1>6, ThreadsKept DEF ChannelInv
  <2>1. PICK b \in Exchanging :
           /\ Exchanging = {b} /\ u = Wants(b) /\ fromMaster = <<>>
           /\ \A i \in DOMAIN Tail(toMaster) : Tail(toMaster)[i] = Quit
    BY <1>1, NextRequest, Lines
  <2>2. Wants(b)' = Wants(b) /\ Exchanging' = Exchanging
    BY <1>4, <1>6, ThreadsKept
  <2>3. QuitsBut({})'
    BY <1>1, <2>1 DEF QuitsBut
  <2>4. Handled(b)'
    BY <1>1, <1>3, <2>1, <2>2, <2>3 DEF Handled
  <2> QED
    BY <2>1, <2>2, <2>4 DEF ChannelInv
<1> QED
  BY <1>4, <1>5, <1>6, <1>7, ThreadsKept DEF FrontendInv

LEMMA PollStep ==
    ASSUME FrontendInv, Poll, UNCHANGED threadVars
    PROVE  FrontendInv'
<1> DEFINE n == master.next
<1>a. PICK short \in BOOLEAN :
         /\ exhausted' = (exhausted \/ short)
         /\ IF short THEN Fault ELSE UNCHANGED faults
         /\ master' = [master EXCEPT !.next = @ + 1,
                                     !.valid = IF n \in on /\ ~short
                                               THEN Append(@, n) ELSE @]
  BY DEF Poll
<1> DEFINE g == Group(master.user)
           v == IF n \in on /\ ~short THEN Append(master.valid, n) ELSE master.valid
           h == [master EXCEPT !.next = n + 1, !.valid = v]
<1>1. /\ master.state = "polling" /\ ~Polled /\ master' = h
      /\ UNCHANGED <<on, steady, toMaster, fromMaster>>
  BY <1>a DEF Poll
<1>0. /\ faults' \in 0..MaxFaults
      /\ exhausted' \in BOOLEAN /\ (~exhausted' => ~exhausted /\ ~short)
  <2>1. exhausted \in BOOLEAN
    BY DEF FrontendInv, TypeOK, MasterTypeOK
  <2>2. faults' = faults \/ Fault
    BY <1>a
  <2>3. faults' \in 0..MaxFaults
    BY <2>2, FaultRange
  <2> QED
    BY <1>a, <2>1, <2>3
<1>2. /\ master.user \in User /\ g \in GroupId /\ n \in Nat /\ n >= FirstOf(g)
      /\ FirstOf(g) \in Nat /\ LastOf(g) \in Nat /\ Members(g) = FirstOf(g)..LastOf(g)
      /\ Members(g) \subseteq Server
  BY <1>1, GroupType, MembersType, HandlerFields DEF FrontendInv, PollInv
<1>3. n \in Members(g)
  <2>1. n <= LastOf(g)
    BY <1>1, <1>2 DEF Polled
  <2> QED
    BY <1>2, <2>1
<1>4. v \in Seq(Server)
  BY HandlerFields
<1>5. /\ h \in Handler /\ h.state = master.state /\ h.user = master.user
      /\ h.next = n + 1 /\ h.valid = v
  <2>1. master \in Handler /\ n + 1 \in Nat
    BY <1>2, HandlerFields
  <2> HIDE DEF v, n
  <2> QED
    BY <1>4, <2>1 DEF Handler
<1> HIDE DEF h
<1>6. MasterTypeOK'
  BY <1>0, <1>1, <1>5 DEF FrontendInv, TypeOK, MasterTypeOK
<1>7. /\ \A i \in DOMAIN v : v[i] = n \/ \E j \in DOMAIN master.valid : v[i] = master.valid[j]
      /\ \A j \in DOMAIN master.valid : j \in DOMAIN v /\ v[j] = master.valid[j]
      /\ n \in on /\ ~short => \E i \in DOMAIN v : v[i] = n
  <2>1. master.valid \in Seq(Server)
    BY HandlerFields
  <2>2. CASE n \in on /\ ~short
    <3>1. v = Append(master.valid, n)
      BY <2>2
    <3>2. /\ DOMAIN v = 1..(Len(master.valid) + 1) /\ v[Len(master.valid) + 1] = n
          /\ \A j \in 1..Len(master.valid) : v[j] = master.valid[j]
          /\ DOMAIN master.valid = 1..Len(master.valid) /\ Len(master.valid) \in Nat
      BY <2>1, <3>1
    <3> QED
      BY <3>2
  <2>3. CASE ~(n \in on /\ ~short)
    BY <2>3
  <2> QED
    BY <2>2, <2>3
<1> HIDE DEF v
<1>8. PollInv'
  <2>1. steady' \subseteq on'
    BY <1>1 DEF FrontendInv, PollInv
  <2>2. \A i \in DOMAIN v : InGroup(v[i], master.user)
    BY <1>1, <1>3, <1>7 DEF FrontendInv, PollInv, InGroup
  <2>3. ASSUME ~exhausted', NEW s \in Members(g) \cap steady, s < n + 1
        PROVE  \E i \in DOMAIN v : v[i] = s
    <3>1. CASE s = n
      BY <1>0, <1>7, <2>3, <3>1 DEF FrontendInv, PollInv
    <3>2. CASE s < n
      BY <1>0, <1>1, <1>7, <2>3, <3>2 DEF FrontendInv, PollInv
    <3> QED
      BY <1>2, <2>3, <3>1, <3>2
  <2>4. n + 1 >= FirstOf(g)
    BY <1>2
  <2> HIDE DEF n, g
  <2>5. master'.user = master.user /\ master'.next = n + 1 /\ master'.valid = v
    BY <1>1, <1>5
  <2>6. g = Group(master.user)
    BY DEF g
  <2> QED
    BY <1>1, <1>2, <2>1, <2>2, <2>3, <2>4, <2>5, <2>6 DEF PollInv, InGroup
<1>9. MasterStays' /\ Up' = Up
  BY <1>0, <1>1, <1>5 DEF FrontendInv, MasterStays, Alive, Up
<1>10. ChannelInv'
  <2> SUFFICES ASSUME Regular, mode # "crashed"
               PROVE  ChannelInv'
    BY <1>6, <1>9, ThreadsKept DEF ChannelInv
  <2>1. Exchanging # {} /\ \A b, c \in Exchanging : b = c
    BY <1>1 DEF FrontendInv, ChannelInv
  <2>2. \A b \in Exchanging : Handled(b)
    BY <1>1 DEF FrontendInv, ChannelInv, Requested, Replied
  <2>3. Exchanging' = Exchanging /\ \A b \in Exchanging : Wants(b)' = Wants(b)
    BY <1>6, <1>9, ThreadsKept
  <2>4. \A b \in Exchanging : Handled(b)'
    BY <1>1, <1>5, <2>2, <2>3 DEF Handled, QuitsBut
  <2> QED
    BY <2>1, <2>3, <2>4 DEF ChannelInv
<1> QED
  BY <1>6, <1>8, <1>9, <1>10, ThreadsKept DEF FrontendInv

LEMMA AnswerServerStep ==
    ASSUME FrontendInv, AnswerServer, UNCHANGED threadVars
    PROVE  FrontendInv'
<1> DEFINE u == master.user
           a == Pick(u, master.valid)
<1>1. /\ master.state = "polling" /\ master.valid # <<>> /\ master' = Idle
      /\ fromMaster' = Append(fromMaster, a)
      /\ UNCHANGED <<on, faults, exhausted, steady, toMaster>>
  BY DEF AnswerServer
<1>2. u \in User /\ master.valid \in Seq(Server)
  BY <1>1, HandlerFields DEF FrontendInv, PollInv
<1>3. PICK i \in DOMAIN master.valid : a = master.valid[i]
  BY <1>1, <1>2, PickOne
<1>4. a \in Server /\ InGroup(a, u)
  BY <1>1, <1>2, <1>3 DEF FrontendInv, PollInv
<1> HIDE DEF a
<1>5. MasterTypeOK'
  <2>1. fromMaster' \in Seq(Answer)
    BY <1>1, <1>4, HandlerFields DEF Answer
  <2> QED
    BY <1>1, <2>1, IdleTypes DEF FrontendInv, TypeOK, MasterTypeOK
<1>6. PollInv'
  BY <1>1, IdleTypes DEF FrontendInv, PollInv
<1>7. MasterStays' /\ Up' = Up
  BY <1>1, IdleTypes DEF MasterStays, Alive, Up
<1>8. ChannelInv'
  <2> SUFFICES ASSUME Regular, mode # "crashed"
               PROVE  ChannelInv'
    BY <1>5, <1>7, ThreadsKept DEF ChannelInv
  <2>1. Exchanging # {} /\ \A b, c \in Exchanging : b = c
    BY <1>1 DEF FrontendInv, ChannelInv
  <2>2. \A b \in Exchanging : Handled(b)
    BY <1>1 DEF FrontendInv, ChannelInv, Requested, Replied
  <2>3. Exchanging' = Exchanging /\ \A b \in Exchanging : Wants(b)' = Wants(b)
    BY <1>5, <1>7, ThreadsKept
  <2>4. ASSUME NEW b \in Exchanging
        PROVE  Replied(b)'
    <3>1. u = Wants(b) /\ fromMaster = <<>> /\ QuitsBut({})
      BY <2>2 DEF Handled
    <3>2. fromMaster' = <<a>> /\ a \in Answer
      BY <1>1, <1>4, <3>1 DEF Answer
    <3>3. AnswersTo(a, Wants(b)')
      BY <1>2, <1>4, <2>3, <3>1, Lines DEF AnswersTo
    <3>4. QuitsBut({})'
      BY <1>1, <3>1 DEF QuitsBut
    <3> QED
      BY <1>1, <3>2, <3>3, <3>4, IdleTypes DEF Replied, AnswersTo, InGroup
  <2> QED
    BY <2>1, <2>3, <2>4 DEF ChannelInv
<1> QED
  BY <1>5, <1>6, <1>7, <1>8, ThreadsKept DEF FrontendInv

LEMMA SwitchStep ==
    ASSUME FrontendInv, NEW s \in Server, Switch(s), UNCHANGED threadVars
    PROVE  FrontendInv'
<1>1. /\ on' = (IF s \in on THEN on \ {s} ELSE on \cup {s}) /\ steady' = steady \ {s}
      /\ UNCHANGED <<exhausted, master, toMaster, fromMaster>>
  BY DEF Switch
<1>2. MasterTypeOK'
  <2>1. faults' \in 0..MaxFaults
    BY FaultRange DEF Switch
  <2> QED
    BY <1>1, <2>1 DEF FrontendInv, TypeOK, MasterTypeOK
<1>3. PollInv' /\ MasterStays' /\ Up' = Up
  BY <1>1 DEF FrontendInv, PollInv, MasterStays, Alive, InGroup, Up
<1>4. ChannelInv'
  <2>1. Exchanging' = Exchanging /\ (\A b \in Exchanging : Wants(b)' = Wants(b))
        /\ (Regular' => Regular) /\ mode' = mode
    BY <1>2, <1>3, ThreadsKept
  <2> QED
    BY <1>1, <2>1
       DEF FrontendInv, ChannelInv, Requested, Handled, Replied, QuitsBut, AnswersTo, InGroup
<1> QED
  BY <1>2, <1>3, <1>4, ThreadsKept DEF FrontendInv

LEMMA SwitchFrontendStep == ASSUME FrontendInv, SwitchFrontend PROVE FrontendInv'
<1>1. /\ mode # "crashed" /\ mode' \in {"on", "off"}
      /\ UNCHANGED <<on, exhausted, steady, master, toMaster, fromMaster, cache, req>>
      /\ UNCHANGED <<jar, account, holder, last, requests, overlapped, mixed>>
      /\ UNCHANGED <<starved, balancer, cut>>
  BY DEF SwitchFrontend, sessionVars, boundVars, faultVars
<1>2. faults' \in 0..MaxFaults
  BY FaultRange DEF SwitchFrontend
<1>3. TypeOK'
  BY <1>1, <1>2 DEF FrontendInv, TypeOK, MasterTypeOK
<1>4. PollInv' /\ MasterStays' /\ Regular' = Regular /\ FrontendStays'
  BY <1>1 DEF FrontendInv, PollInv, MasterStays, Alive, InGroup, Up, Regular, FrontendStays
<1>5. Exchanging' = Exchanging /\ \A b \in Exchanging : Wants(b)' = Wants(b)
  BY <1>1 DEF Exchanging, Wants
<1>6. ChannelInv'
  BY <1>1, <1>4, <1>5
     DEF FrontendInv, ChannelInv, Requested, Handled, Replied, QuitsBut, AnswersTo, InGroup
<1>7. RequestInv' /\ RightServer'
  BY <1>1, <1>4 DEF FrontendInv, RequestInv, RightServer, InGroup
<1>8. AccountsAtHome' /\ LastLoginHolds'
  BY <1>1, <1>4 DEF FrontendInv, AccountsAtHome, LastLoginHolds
<1> QED
  BY <1>3, <1>4, <1>6, <1>7, <1>8 DEF FrontendInv

-----------------------------------------------------------------------------
LEMMA InitInv == Init => FrontendInv
<1> SUFFICES ASSUME Init
             PROVE  FrontendInv
  OBVIOUS
<1>1. /\ master = Idle /\ toMaster = <<>> /\ fromMaster = <<>> /\ steady = on
      /\ on \in SUBSET Server /\ faults \in 0..MaxFaults /\ exhausted = FALSE
  BY MasterAssumption DEF Init, MasterInit
<1>2. \A b \in Browser : req[b] = NoRequest
  BY DEF Init
<1>3. TypeOK
  <2>1. MasterTypeOK
    <3>1. exhausted \in BOOLEAN
      BY <1>1
    <3>2. toMaster \in Seq(Request) /\ fromMaster \in Seq(Answer)
      BY <1>1
    <3> QED
      BY <1>1, <3>1, <3>2, IdleTypes DEF MasterTypeOK
  <2>2. /\ req \in [Browser -> Thread]
        /\ cache \in [User -> Server \cup {NoServer}]
        /\ jar \in [Browser -> User \cup {Nobody}]
    BY NoRequestType DEF Init
  <2>3. /\ account \in [GroupId -> SUBSET User]
        /\ holder \in [GroupId -> [User -> Browser \cup {Nobody}]]
        /\ last \in [User -> Browser \cup {Nobody}]
    BY FrontendAssumption DEF Init
  <2>4. requests \in 0..MaxRequests
    BY FrontendAssumption DEF Init
  <2>5. /\ overlapped \in BOOLEAN /\ mixed \in BOOLEAN /\ mode \in {"on", "off", "crashed"}
        /\ starved \in BOOLEAN /\ balancer \in BOOLEAN /\ cut \in BOOLEAN
    BY DEF Init
  <2> QED
    BY <2>1, <2>2, <2>3, <2>4, <2>5 DEF TypeOK
<1>4. Exchanging = {}
  BY <1>2, NoRequestType DEF Exchanging
<1>5. PollInv /\ ChannelInv /\ MasterStays
  BY <1>1, <1>4, IdleTypes DEF PollInv, ChannelInv, QuitsBut, MasterStays, Alive
<1>6. RequestInv /\ RightServer
  BY <1>2, NoRequestType DEF RequestInv, RightServer, Init, Form
<1>7. AccountsAtHome /\ LastLoginHolds /\ FrontendStays
  BY DEF AccountsAtHome, LastLoginHolds, FrontendStays, Init
<1> QED
  BY <1>3, <1>5, <1>6, <1>7 DEF FrontendInv

LEMMA StutterInv == ASSUME FrontendInv, UNCHANGED vars PROVE FrontendInv'
<1>1. UNCHANGED masterVars /\ UNCHANGED threadVars
  BY DEF vars
<1>2. MasterTypeOK' /\ PollInv' /\ MasterStays' /\ Up' = Up
  BY <1>1, SameMaster, MasterKept DEF FrontendInv, TypeOK
<1>3. ChannelInv'
  <2>1. Exchanging' = Exchanging /\ (\A b \in Exchanging : Wants(b)' = Wants(b))
        /\ (Regular' => Regular) /\ mode' = mode
    BY <1>1, <1>2, ThreadsKept
  <2> QED
    BY <1>1, <2>1
       DEF FrontendInv, ChannelInv, Requested, Handled, Replied, QuitsBut, AnswersTo, InGroup,
           masterVars
<1> QED
  BY <1>1, <1>2, <1>3, ThreadsKept DEF FrontendInv

LEMMA NextInv == FrontendInv /\ [Next]_vars => FrontendInv'
<1> SUFFICES ASSUME FrontendInv, [Next]_vars
             PROVE  FrontendInv'
  OBVIOUS
<1>1. ASSUME NEW b \in Browser, Thread_Running(b)
      PROVE  FrontendInv'
  BY <1>1, ConnectStep, AskStep, ReceiveStep, CheckSessionStep, RedirectStep, VerifyStep,
     RegisterStep, IssueStep, ServeStep, WriteMailStep, PutEmailStep, LogoutStep,
     AskBalancerStep, AskHeartbeatStep, ShowAdminStep, SwitchSelfStep, SwitchOtherStep
     DEF Thread_Running
<1>2. ASSUME NEW b \in Browser, Open(b) \/ Lost(b) \/ BreakPipe(b)
      PROVE  FrontendInv'
  BY <1>2, OpenStep, LostStep, BreakPipeStep
<1>3. ASSUME MasterStep, UNCHANGED threadVars
      PROVE  FrontendInv'
  BY <1>3, AnswerHeartbeatStep, AnswerQuitStep, GetServerStep, PollStep, AnswerServerStep,
     DivideByZeroStep
     DEF MasterStep
<1> QED
  BY <1>1, <1>2, <1>3, AcceptEndsStep, SwitchStep, SwitchFrontendStep, AcceptExitsStep,
     StutterInv DEF Next

(* The inductive invariant of a frontend and its master: where the one      *)
(* request is whose answer a thread waits for (utils.cc:229-237), what the  *)
(* master knows of a group while it asks (backend_master.cc:297-353), and   *)
(* the properties below, which need each other.                             *)
THEOREM FrontendInvariant == Spec => []FrontendInv
<1>1. Init => FrontendInv
  BY InitInv
<1>2. FrontendInv /\ [Next]_vars => FrontendInv'
  BY NextInv
<1> QED
  BY <1>1, <1>2, PTL DEF Spec

(* Type correctness of the threads, the cells and the master's connection.  *)
THEOREM TypeCorrect == Spec => []TypeOK
<1>1. FrontendInv => TypeOK
  BY DEF FrontendInv
<1> QED
  BY <1>1, FrontendInvariant, PTL

(* Threads and user_servers keep to the user's group (utils.cc:300-337),    *)
(* for any configuration of servers and groups and any hash.                *)
THEOREM ThreadsReachTheirGroup == Spec => []RightServer
<1>1. FrontendInv => RightServer
  BY DEF FrontendInv
<1> QED
  BY <1>1, FrontendInvariant, PTL

(* An account is in the group of its user (frontend_to_client.cc:201-235).  *)
THEOREM AccountsStayAtHome == Spec => []AccountsAtHome
<1>1. FrontendInv => AccountsAtHome
  BY DEF FrontendInv
<1> QED
  BY <1>1, FrontendInvariant, PTL

(* The last login of a user holds (frontend_to_client.cc:85-120).           *)
THEOREM LastLoginsHold == Spec => []LastLoginHolds
<1>1. FrontendInv => LastLoginHolds
  BY DEF FrontendInv
<1> QED
  BY <1>1, FrontendInvariant, PTL

(* The remainder of backend_master.cc:237 is never by zero while each group *)
(* has a server that was always on, until the sockets that lines 102-132    *)
(* leave open have used up the descriptors.                                 *)
THEOREM MasterNeverDivides == Spec => []MasterStays
<1>1. FrontendInv => MasterStays
  BY DEF FrontendInv
<1> QED
  BY <1>1, FrontendInvariant, PTL

(* The frontend lives while exchanges do not overlap: the administrator's   *)
(* page (frontend_to_client.cc:1131-1305) never takes another answer for    *)
(* its heartbeat.  Four other ends are excepted: no descriptors, no         *)
(* balancer, a file sent to somebody who left, and 16 or more servers.      *)
THEOREM FrontendNeverCrashes == Spec => []FrontendStays
<1>1. FrontendInv => FrontendStays
  BY DEF FrontendInv
<1> QED
  BY <1>1, FrontendInvariant, PTL
=============================================================================
