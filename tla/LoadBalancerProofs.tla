------------------------ MODULE LoadBalancerProofs ------------------------
(***************************************************************************)
(* Proofs about LoadBalancer, for any number of frontends, browsers and    *)
(* watchers: the inductive invariant BalancerInv, and from it that a       *)
(* browser is sent only where a running scan heard of a frontend (HeardOf) *)
(* and, if its scan ran alone, to one with the fewest connections          *)
(* (LeastLoaded); with EvenPart, that the load the balancer gives stays    *)
(* even while no scans overlap and no frontend is missed (EvenLoad).       *)
(***************************************************************************)
EXTENDS LoadBalancer, FiniteSetTheorems, TLAPS

LEMMA FaultRange ==
    ASSUME TypeOK, faults' = faults \/ Fault
    PROVE  faults' \in 0..MaxFaults
BY BalancerAssumption DEF TypeOK, Fault

(* One scan changes.                                                        *)
LEMMA ScanSet ==
    ASSUME TypeOK, NEW s \in Scanner, NEW r \in Scan, scan' = [scan EXCEPT ![s] = r]
    PROVE  /\ scan' \in [Scanner -> Scan]
           /\ scan'[s] = r
           /\ \A t \in Scanner : t # s => scan'[t] = scan[t]
BY DEF TypeOK

(* What a scan is made of.                                                  *)
LEMMA ScanTypes ==
    ASSUME TypeOK, NEW s \in Scanner
    PROVE  /\ scan[s] \in Scan
           /\ scan[s].next \in 1..(FrontendCount + 1)
           /\ \A f \in Frontend : scan[s].status[f] \in Count
           /\ \A p \in Pc : [scan[s] EXCEPT !.pc = p] \in Scan
BY DEF TypeOK, Scan

(* A scan that begins has heard nothing.                                    *)
LEMMA NoScanType ==
    /\ NoScan \in Scan
    /\ [NoScan EXCEPT !.pc = "reset"] \in Scan
    /\ NoScan.pc = "idle" /\ NoScan.next = 1 /\ NoScan.status = NoStatus
    /\ [NoScan EXCEPT !.pc = "reset"].pc = "reset"
    /\ [NoScan EXCEPT !.pc = "reset"].next = 1
    /\ [NoScan EXCEPT !.pc = "reset"].status = NoStatus
    /\ \A f \in Frontend : NoStatus[f] = Down
BY BalancerAssumption DEF NoScan, NoStatus, Scan, Pc, Count, Down, Frontend

(* Reset keeps the invariant. *)
LEMMA ResetStep ==
    ASSUME BalancerInv, NEW s \in Scanner, Reset(s)
    PROVE  BalancerInv'
<1> USE DEF BalancerInv, HeardPart, AlonePart
<1> DEFINE r == [scan[s] EXCEPT !.pc = "clear"]
<1>1. r \in Scan
  BY ScanTypes DEF Pc
<1>2. scan' = [scan EXCEPT ![s] = r]
  BY DEF Reset
<1>3. r.pc = "clear" /\ r.next = scan[s].next /\ r.status = scan[s].status
  BY ScanTypes DEF Scan
<1> HIDE DEF r
<1>4. /\ scan' \in [Scanner -> Scan]
      /\ scan'[s] = r
      /\ \A t \in Scanner : t # s => scan'[t] = scan[t]
  BY <1>1, <1>2, ScanSet
<1>5. TypeOK'
  BY <1>4, BalancerAssumption, ScanTypes
     DEF TypeOK, Reset, frontend, balancer, bounds, history, HeardInv, Judging, Heard, Frontend, Count, Down
<1>6. Scanning' = Scanning
  BY <1>3, <1>4 DEF Scanning, Reset
<1>7. ASSUME NEW t \in Scanner
      PROVE  HeardInv(t)'
  BY <1>3, <1>4, <1>6, ScanTypes
     DEF HeardInv, Entered, Judging, Heard, Scanning, Reset, history, TypeOK, Frontend, Count, Down
<1>8. HeardOf'
  BY <1>3, <1>4 DEF HeardOf, Reset, history, Scanner
<1>9. ASSUME NEW t \in Scanner
      PROVE  AloneInv(t)'
  BY <1>3, <1>4, <1>6, ScanTypes
     DEF AloneInv, FewestBefore, Before, Judging, Heard, Scanning, Reset, history, TypeOK, Frontend, Count, Down
<1>10. LeastLoaded'
  BY <1>3, <1>4 DEF LeastLoaded, Numbers, Reset, history, Scanner
<1> QED
  BY <1>5, <1>7, <1>8, <1>9, <1>10

(* Clear keeps the invariant. *)
LEMMA ClearStep ==
    ASSUME BalancerInv, NEW s \in Scanner, Clear(s)
    PROVE  BalancerInv'
<1> USE DEF BalancerInv, HeardPart, AlonePart
<1> DEFINE r == [scan[s] EXCEPT !.pc = "ask"]
<1>1. r \in Scan
  BY ScanTypes DEF Pc
<1>2. scan' = [scan EXCEPT ![s] = r]
  BY DEF Clear
<1>3. r.pc = "ask" /\ r.next = scan[s].next /\ r.status = scan[s].status
  BY ScanTypes DEF Scan
<1> HIDE DEF r
<1>4. /\ scan' \in [Scanner -> Scan]
      /\ scan'[s] = r
      /\ \A t \in Scanner : t # s => scan'[t] = scan[t]
  BY <1>1, <1>2, ScanSet
<1>5. TypeOK'
  BY <1>4, BalancerAssumption, ScanTypes
     DEF TypeOK, Clear, frontend, balancer, bounds, history, HeardInv, Judging, Heard, Frontend, Count, Down
<1>6. Scanning' = Scanning
  BY <1>3, <1>4 DEF Scanning, Clear
<1>7. ASSUME NEW t \in Scanner
      PROVE  HeardInv(t)'
  <2>1. heard' = heard /\ \A u \in Scanner : scan'[u].status = scan[u].status
    BY <1>3, <1>4 DEF Clear, history
  <2>2. CASE t # s
    BY <1>3, <1>4, <1>6, <2>1, <2>2 DEF HeardInv, Entered, Judging, Heard, Clear
  <2>3. CASE t = s
    BY <1>3, <1>4, <1>6, <2>1, <2>3 DEF HeardInv, Entered, Judging, Heard, Scanning, Clear
  <2> QED
    BY <2>2, <2>3
<1>8. HeardOf'
  BY <1>3, <1>4 DEF HeardOf, Clear, history, Scanner
<1>9. ASSUME NEW t \in Scanner
      PROVE  AloneInv(t)'
  <2>1. CASE t # s
    BY <1>6, <2>1 DEF AloneInv, Clear, history, Scanning
  <2>2. CASE t = s /\ alone[s]
    <3>1. scan[s].next = 1 /\ Scanning = {s} /\ redirect_server_port = NoPort
      BY <2>2 DEF AloneInv, Clear, Scanning
    <3>2. Before(s)' = {}
      BY <1>3, <1>4, <3>1, BalancerAssumption DEF Before, Frontend
    <3>3. FewestBefore(s)'
      BY <3>1, <3>2 DEF FewestBefore, Clear
    <3>4. \A f \in Frontend : scan[s].status[f] = Down
      BY <2>2, <3>1, BalancerAssumption DEF AloneInv, Clear, Scanning, Judging, Frontend
    <3> QED
      BY <1>3, <1>4, <1>6, <2>2, <3>1, <3>3, <3>4 DEF AloneInv
  <2>3. CASE t = s /\ ~alone[s]
    BY <2>3 DEF AloneInv, Clear, history
  <2> QED
    BY <2>1, <2>2, <2>3
<1>10. LeastLoaded'
  BY <1>3, <1>4 DEF LeastLoaded, Numbers, Clear, history, Scanner
<1> QED
  BY <1>5, <1>7, <1>8, <1>9, <1>10

(* SetPort keeps the invariant. *)
LEMMA SetPortStep ==
    ASSUME BalancerInv, NEW s \in Scanner, SetPort(s)
    PROVE  BalancerInv'
<1> USE DEF BalancerInv, HeardPart, AlonePart
<1> DEFINE r == [scan[s] EXCEPT !.pc = "least"]
<1>1. r \in Scan
  BY ScanTypes DEF Pc
<1>2. scan' = [scan EXCEPT ![s] = r]
  BY DEF SetPort
<1>3. r.pc = "least" /\ r.next = scan[s].next /\ r.status = scan[s].status
  BY ScanTypes DEF Scan
<1> HIDE DEF r
<1>4. /\ scan' \in [Scanner -> Scan]
      /\ scan'[s] = r
      /\ \A t \in Scanner : t # s => scan'[t] = scan[t]
  BY <1>1, <1>2, ScanSet
<1>5. TypeOK'
  BY <1>4, BalancerAssumption, ScanTypes
     DEF TypeOK, SetPort, frontend, balancer, bounds, history, HeardInv, Judging, Heard, Frontend, Count, Down
<1>6. Scanning' = Scanning
  BY <1>3, <1>4 DEF Scanning, SetPort
<1>7. ASSUME NEW t \in Scanner
      PROVE  HeardInv(t)'
  <2>1. heard' = heard /\ \A u \in Scanner : scan'[u].status = scan[u].status
    BY <1>3, <1>4 DEF SetPort, history
  <2>2. CASE t # s
    <3>1. s \in Scanning /\ Judging(s) /\ (Entered(t) => t \in Scanning)
      BY DEF SetPort, Scanning, Judging, Entered
    <3>2. Entered(t) => scan[s].next \in heard[t]
      BY <3>1 DEF HeardInv, Heard
    <3>3. /\ redirect_server_port' = scan[s].next
          /\ scan'[t] = scan[t]
          /\ Scanning \subseteq Scanner
      BY <1>4, <2>2 DEF SetPort, Scanning
    <3> QED
      BY <1>6, <2>1, <3>2, <3>3 DEF HeardInv, Entered, Judging, Heard
  <2>3. CASE t = s
    BY <1>3, <1>4, <1>6, <2>1, <2>3 DEF HeardInv, Entered, Judging, Heard, Scanning, SetPort
  <2> QED
    BY <2>2, <2>3
<1>8. HeardOf'
  BY <1>3, <1>4 DEF HeardOf, SetPort, history, Scanner
<1>9. ASSUME NEW t \in Scanner
      PROVE  AloneInv(t)'
  <2>1. CASE t # s
    BY <1>6, <2>1 DEF AloneInv, SetPort, history, Scanning
  <2>2. CASE t = s /\ alone[s]
    <3>1. /\ Scanning = {s}
          /\ FewestBefore(s)
          /\ Heard(s) < min_connections
          /\ \A f \in Frontend : f > scan[s].next => scan[s].status[f] = Down
      BY <2>2 DEF AloneInv, SetPort, Scanning, Judging
    <3>2. \A f \in Before(s) : min_connections <= scan[s].status[f]
      BY <3>1 DEF FewestBefore
    <3>3. Before(s)' = Before(s) /\ Heard(s)' = Heard(s) /\ Judging(s)'
      BY <1>3, <1>4 DEF Before, Heard, Judging
    <3>4. redirect_server_port' = scan'[s].next /\ min_connections' = min_connections
      BY <1>3, <1>4 DEF SetPort
    <3> QED
      BY <1>3, <1>4, <1>6, <2>2, <3>1, <3>2, <3>3, <3>4 DEF AloneInv
  <2>3. CASE t = s /\ ~alone[s]
    BY <2>3 DEF AloneInv, SetPort, history
  <2> QED
    BY <2>1, <2>2, <2>3
<1>10. LeastLoaded'
  BY <1>3, <1>4 DEF LeastLoaded, Numbers, SetPort, history, Scanner
<1> QED
  BY <1>5, <1>7, <1>8, <1>9, <1>10

(* SetLeast keeps the invariant: the answer is less than those before. *)
LEMMA SetLeastStep ==
    ASSUME BalancerInv, NEW s \in Scanner, SetLeast(s)
    PROVE  BalancerInv'
<1> USE DEF BalancerInv, HeardPart, AlonePart
<1> DEFINE r == [scan[s] EXCEPT !.pc = "ask", !.next = @ + 1]
           n == scan[s].next
           k == Heard(s)
<1>1. /\ n \in Frontend
      /\ k = scan[s].status[n]
      /\ k \in 0..(MAX_CONNECTIONS - 1)
      /\ s \in Scanning
  <2>1. n \in Frontend /\ k # Down /\ k < MAX_CONNECTIONS
    BY DEF HeardInv, SetLeast, Judging
  <2>2. k = scan[s].status[n]
    BY DEF Heard
  <2> QED
    BY <2>1, <2>2, ScanTypes, BalancerAssumption DEF Count, Down, Scanning, SetLeast
<1>2. r \in Scan
  <2>1. scan[s] \in Scan /\ n + 1 \in 1..(FrontendCount + 1)
    BY <1>1, ScanTypes, BalancerAssumption DEF Frontend
  <2> QED
    BY <2>1 DEF Scan, Pc
<1>3. r.pc = "ask" /\ r.next = n + 1 /\ r.status = scan[s].status
  BY ScanTypes DEF Scan
<1>4. scan' = [scan EXCEPT ![s] = r] /\ min_connections' = k
  BY DEF SetLeast
<1> HIDE DEF r
<1>5. /\ scan' \in [Scanner -> Scan]
      /\ scan'[s] = r
      /\ \A t \in Scanner : t # s => scan'[t] = scan[t]
  BY <1>2, <1>4, ScanSet
<1> HIDE DEF n, k
<1>6. TypeOK'
  <2>1. min_connections' \in 0..MAX_CONNECTIONS
    BY <1>1, <1>4, BalancerAssumption
  <2> QED
    BY <1>5, <2>1 DEF TypeOK, SetLeast, frontend, balancer, bounds, history
<1>7. Scanning' = Scanning
  BY <1>3, <1>5 DEF Scanning, SetLeast
<1>8. ASSUME NEW t \in Scanner
      PROVE  HeardInv(t)'
  BY <1>1, <1>3, <1>5, <1>7
     DEF HeardInv, Entered, Judging, Heard, Scanning, SetLeast, history, TypeOK
<1>9. HeardOf'
  BY <1>3, <1>5 DEF HeardOf, SetLeast, history, Scanner
<1>10. ASSUME NEW t \in Scanner
       PROVE  AloneInv(t)'
  <2>1. CASE t # s
    BY <1>1, <1>7, <2>1 DEF AloneInv, SetLeast, history
  <2>2. CASE t = s /\ alone[s]
    <3>1. /\ Scanning = {s}
          /\ redirect_server_port = n
          /\ \A f \in Before(s) : min_connections <= scan[s].status[f]
          /\ k < min_connections
          /\ \A f \in Frontend : f > n => scan[s].status[f] = Down
      BY <1>1, <2>2 DEF AloneInv, SetLeast, n, k, Judging
    <3>2. Before(s)' = Before(s) \cup {n}
      BY <1>1, <1>3, <1>5, ScanTypes DEF Before, n, Frontend, Count, Down
    <3>3. FewestBefore(s)'
      <4>1. redirect_server_port' = n
        BY <3>1 DEF SetLeast
      <4>2. ASSUME NEW f \in Before(s) \cup {n}
            PROVE  k <= scan[s].status[f]
        BY <1>1, <3>1, ScanTypes, BalancerAssumption DEF Before, TypeOK, Count, Down
      <4> QED
        BY <1>1, <1>3, <1>4, <1>5, <3>2, <4>1, <4>2 DEF FewestBefore
    <3>4. ASSUME NEW f \in Frontend, f >= n + 1
          PROVE  scan'[s].status[f] = Down
      <4>1. f > n
        BY <1>1, <3>4, BalancerAssumption DEF Frontend
      <4> QED
        BY <1>3, <1>5, <3>1, <4>1
    <3> QED
      BY <1>1, <1>3, <1>5, <1>7, <2>2, <3>1, <3>3, <3>4 DEF AloneInv, Judging, Frontend
  <2>3. CASE t = s /\ ~alone[s]
    BY <2>3 DEF AloneInv, SetLeast, history
  <2> QED
    BY <2>1, <2>2, <2>3
<1>11. LeastLoaded'
  BY <1>3, <1>5 DEF LeastLoaded, Numbers, SetLeast, history, Scanner
<1> QED
  BY <1>6, <1>8, <1>9, <1>10, <1>11

(* Compare keeps the invariant: an answer that is not less does not matter. *)
LEMMA CompareStep ==
    ASSUME BalancerInv, NEW s \in Scanner, Compare(s)
    PROVE  BalancerInv'
<1> USE DEF BalancerInv, HeardPart, AlonePart
<1> DEFINE less == min_connections > Heard(s)
           n == scan[s].next
           k == Heard(s)
           r == IF less THEN [scan[s] EXCEPT !.pc = "port"]
                ELSE [scan[s] EXCEPT !.pc = "ask", !.next = @ + 1]
<1>1. /\ n \in Frontend
      /\ k = scan[s].status[n]
      /\ k \in Nat
      /\ s \in Scanning
  <2>1. n \in Frontend /\ k # Down
    BY DEF HeardInv, Compare, Judging
  <2>2. k = scan[s].status[n]
    BY DEF Heard
  <2> QED
    BY <2>1, <2>2, ScanTypes, BalancerAssumption DEF Count, Down, Scanning, Compare
<1>2. r \in Scan
  <2>1. scan[s] \in Scan /\ n + 1 \in 1..(FrontendCount + 1)
    BY <1>1, ScanTypes, BalancerAssumption DEF Frontend
  <2> QED
    BY <2>1 DEF Scan, Pc
<1>3. /\ r.pc = IF less THEN "port" ELSE "ask"
      /\ r.next = IF less THEN n ELSE n + 1
      /\ r.status = scan[s].status
  BY ScanTypes DEF Scan
<1>4. scan' = [scan EXCEPT ![s] = r]
  <2>1. CASE less
    BY <2>1 DEF Compare
  <2>2. CASE ~less
    BY <2>2 DEF Compare
  <2> QED
    BY <2>1, <2>2
<1> HIDE DEF r
<1>5. /\ scan' \in [Scanner -> Scan]
      /\ scan'[s] = r
      /\ \A t \in Scanner : t # s => scan'[t] = scan[t]
  BY <1>2, <1>4, ScanSet
<1>6. less => k < min_connections /\ k < MAX_CONNECTIONS
  BY <1>1, BalancerAssumption DEF TypeOK
<1>7. ~less => min_connections <= k
  BY <1>1, BalancerAssumption DEF TypeOK
<1> HIDE DEF n, k, less
<1>8. TypeOK'
  BY <1>5 DEF TypeOK, Compare, frontend, balancer, bounds, globals, history
<1>9. Scanning' = Scanning
  BY <1>3, <1>5 DEF Scanning, Compare
<1>10. ASSUME NEW t \in Scanner
       PROVE  HeardInv(t)'
  <2>1. CASE t # s
    BY <1>3, <1>5, <1>9, <2>1
       DEF HeardInv, Entered, Judging, Heard, Scanning, Compare, globals, history
  <2>2. CASE t = s
    <3>1. Entered(s) /\ Entered(s)' /\ redirect_server_port' = redirect_server_port /\ heard' = heard
      BY <1>3, <1>5 DEF Entered, Compare, globals, history
    <3>2. \A u \in Scanning : scan'[u].status = scan[u].status
      BY <1>3, <1>5 DEF Scanning
    <3>3. Judging(s)' => less
      BY <1>3, <1>5 DEF Judging
    <3>4. less => scan'[s].next = n /\ Heard(s)' = k
      BY <1>1, <1>3, <1>5 DEF Heard
    <3>5. k # Down
      BY <1>1 DEF Down
    <3>6. scan'[s].pc \in {"port", "least"} => less
      BY <1>3, <1>5
    <3> QED
      BY <1>1, <1>6, <1>9, <2>2, <3>1, <3>2, <3>3, <3>4, <3>5, <3>6 DEF HeardInv
  <2> QED
    BY <2>1, <2>2
<1>11. HeardOf'
  BY <1>3, <1>5 DEF HeardOf, Compare, history, Scanner
<1>12. ASSUME NEW t \in Scanner
       PROVE  AloneInv(t)'
  <2>1. CASE t # s
    BY <1>1, <1>9, <2>1 DEF AloneInv, Compare, history
  <2>2. CASE t = s /\ alone[s]
    <3>1. /\ Scanning = {s}
          /\ FewestBefore(s)
          /\ \A f \in Frontend : f > n => scan[s].status[f] = Down
      BY <1>1, <2>2 DEF AloneInv, Compare, n, Judging
    <3>2. CASE less
      <4>1. Before(s)' = Before(s)
        BY <1>3, <1>5, <3>2 DEF Before, n
      <4>2. FewestBefore(s)'
        BY <1>3, <1>5, <3>1, <4>1 DEF FewestBefore, Compare, globals
      <4>3. scan'[s].pc = "port" /\ Heard(s)' = k /\ min_connections' = min_connections
        BY <1>1, <1>3, <1>5, <3>2 DEF Heard, Compare, globals, n
      <4> QED
        BY <1>3, <1>5, <1>6, <1>9, <2>2, <3>1, <3>2, <4>2, <4>3 DEF AloneInv, Judging
    <3>3. CASE ~less
      <4>1. Before(s)' = IF k < MAX_CONNECTIONS THEN Before(s) \cup {n} ELSE Before(s)
        BY <1>1, <1>3, <1>5, <3>3, ScanTypes, BalancerAssumption
           DEF Before, Frontend, Count, Down, n
      <4>2. FewestBefore(s)'
        <5>1. CASE Before(s) = {}
          <6>1. min_connections = MAX_CONNECTIONS
            BY <3>1, <5>1 DEF FewestBefore
          <6>2. Before(s)' = {}
            BY <1>1, <1>7, <3>3, <4>1, <5>1, <6>1, BalancerAssumption
          <6> QED
            BY <3>1, <5>1, <6>2 DEF FewestBefore, Compare, globals
        <5>2. CASE Before(s) # {}
          <6>1. /\ redirect_server_port \in Before(s)
                /\ scan[s].status[redirect_server_port] = min_connections
                /\ \A f \in Before(s) : min_connections <= scan[s].status[f]
            BY <3>1, <5>2 DEF FewestBefore
          <6>2. \A f \in Before(s)' : min_connections <= scan[s].status[f]
            BY <1>1, <1>7, <3>3, <4>1, <6>1
          <6>3. redirect_server_port \in Before(s)'
            BY <4>1, <6>1
          <6> QED
            BY <1>3, <1>5, <6>1, <6>2, <6>3 DEF FewestBefore, Compare, globals
        <5> QED
          BY <5>1, <5>2
      <4>3. ASSUME NEW f \in Frontend, f >= n + 1
            PROVE  scan'[s].status[f] = Down
        <5>1. f > n
          BY <1>1, <4>3, BalancerAssumption DEF Frontend
        <5> QED
          BY <1>3, <1>5, <3>1, <5>1
      <4>4. scan'[s].pc = "ask" /\ scan'[s].next = n + 1
        BY <1>3, <1>5, <3>3
      <4> QED
        BY <1>1, <1>9, <2>2, <3>1, <4>2, <4>3, <4>4 DEF AloneInv, Judging, Frontend
    <3> QED
      BY <3>2, <3>3
  <2>3. CASE t = s /\ ~alone[s]
    BY <2>3 DEF AloneInv, Compare, history
  <2> QED
    BY <2>1, <2>2, <2>3
<1>13. LeastLoaded'
  BY <1>3, <1>5 DEF LeastLoaded, Numbers, Compare, history, Scanner
<1> QED
  BY <1>8, <1>10, <1>11, <1>12, <1>13

(* Ask keeps the invariant: whoever answers has been heard of by all scans. *)
LEMMA AskStep ==
    ASSUME BalancerInv, NEW s \in Scanner, Ask(s)
    PROVE  BalancerInv'
<1> USE DEF BalancerInv, HeardPart, AlonePart
<1> DEFINE n == scan[s].next
<1>0. PICK short \in BOOLEAN :
         /\ spent' = (spent \/ short)
         /\ IF short THEN Fault ELSE UNCHANGED faults
         /\ Answer(s, n, IF short THEN Down ELSE Handle_Load_Balancer(n))
  BY DEF Ask
<1> DEFINE k == IF short THEN Down ELSE Handle_Load_Balancer(n)
           r == [scan[s] EXCEPT !.status[n] = k,
                                !.next = IF k = Down THEN n + 1 ELSE n,
                                !.pc = IF k = Down THEN "ask" ELSE "compare"]
<1>1. n \in Frontend /\ k \in Count /\ s \in Scanning
  BY DEF Ask, TypeOK, Handle_Load_Balancer, Count, Scanning, Frontend
<1>2. scan' = [scan EXCEPT ![s] = r]
  BY <1>0 DEF Answer
<1>3. heard' = IF k = Down THEN heard
               ELSE [t \in Scanner |-> IF t \in Scanning THEN heard[t] \cup {n} ELSE heard[t]]
  BY <1>0 DEF Answer
<1> HIDE DEF k
<1>4. r \in Scan
  <2>1. scan[s] \in Scan /\ n + 1 \in 1..(FrontendCount + 1) /\ n \in 1..(FrontendCount + 1)
    BY <1>1, ScanTypes, BalancerAssumption DEF Frontend
  <2> QED
    BY <1>1, <2>1 DEF Scan, Pc
<1>5. /\ r.pc = IF k = Down THEN "ask" ELSE "compare"
      /\ r.next = IF k = Down THEN n + 1 ELSE n
      /\ r.status = [scan[s].status EXCEPT ![n] = k]
  BY ScanTypes DEF Scan
<1>6. /\ r.status[n] = k
      /\ \A f \in Frontend : f # n => r.status[f] = scan[s].status[f]
  BY <1>1, <1>5, ScanTypes DEF Scan
<1> HIDE DEF r
<1>7. /\ scan' \in [Scanner -> Scan]
      /\ scan'[s] = r
      /\ \A t \in Scanner : t # s => scan'[t] = scan[t]
  BY <1>2, <1>4, ScanSet
<1> HIDE DEF n
<1>8. /\ heard' \in [Scanner -> SUBSET Frontend]
      /\ \A t \in Scanner : heard[t] \subseteq heard'[t]
      /\ \A t \in Scanner : t \notin Scanning => heard'[t] = heard[t]
      /\ k # Down => \A t \in Scanning : n \in heard'[t]
  BY <1>1, <1>3 DEF TypeOK, Scanning
<1>9. TypeOK'
  <2>1. faults' \in 0..MaxFaults
    BY <1>0, FaultRange
  <2>2. spent' \in BOOLEAN
    BY <1>0 DEF TypeOK
  <2> QED
    BY <1>7, <1>8, <2>1, <2>2 DEF TypeOK, Ask, frontend, globals
<1>10. Scanning' = Scanning
  BY <1>5, <1>7 DEF Scanning, Ask
<1>11. ASSUME NEW t \in Scanner
       PROVE  HeardInv(t)'
  <2>1. Entered(t)' => redirect_server_port' \in heard'[t] \cup {NoPort}
    <3>1. Entered(t)' = Entered(t)
      BY <1>5, <1>7 DEF Entered, Ask
    <3> QED
      BY <1>8, <3>1 DEF HeardInv, Ask, globals
  <2>2. ASSUME t \in Scanning, NEW u \in Scanning, NEW f \in Frontend,
               scan'[u].status[f] # Down
        PROVE  f \in heard'[t]
    <3>1. CASE u = s /\ f = n
      BY <1>6, <1>7, <1>8, <2>2, <3>1
    <3>2. CASE u # s \/ f # n
      <4>1. scan[u].status[f] # Down
        BY <1>6, <1>7, <2>2, <3>2 DEF Scanning
      <4>2. f \in heard[t]
        BY <2>2, <4>1 DEF HeardInv
      <4> QED
        BY <1>8, <4>2
    <3> QED
      BY <3>1, <3>2
  <2>3. Judging(t)' => scan'[t].next \in Frontend /\ Heard(t)' # Down
    BY <1>1, <1>5, <1>6, <1>7 DEF HeardInv, Judging, Heard
  <2>4. scan'[t].pc \in {"port", "least"} => Heard(t)' < MAX_CONNECTIONS
    BY <1>5, <1>7 DEF HeardInv, Heard
  <2> QED
    BY <1>10, <2>1, <2>2, <2>3, <2>4 DEF HeardInv
<1>12. HeardOf'
  BY <1>5, <1>7, <1>8 DEF HeardOf, Ask, Scanner
<1>13. ASSUME NEW t \in Scanner
       PROVE  AloneInv(t)'
  <2>1. CASE t # s
    BY <1>1, <1>10, <2>1 DEF AloneInv, Ask
  <2>2. CASE t = s /\ alone[s]
    <3>1. /\ Scanning = {s}
          /\ FewestBefore(s)
          /\ \A f \in Frontend : f >= n => scan[s].status[f] = Down
      BY <1>1, <2>2, BalancerAssumption DEF AloneInv, Ask, n, Judging, Frontend
    <3>2. Before(s)' = Before(s)
      <4>1. ASSUME NEW f \in Frontend
            PROVE  f \in Before(s)' <=> f \in Before(s)
        <5>0. scan'[s].next = n \/ scan'[s].next = n + 1
          BY <1>5, <1>7
        <5>1. CASE f < n
          <6>1. scan'[s].status[f] = scan[s].status[f]
            BY <1>1, <1>6, <1>7, <5>1, BalancerAssumption DEF Frontend
          <6>2. f < scan'[s].next
            BY <1>1, <5>0, <5>1, BalancerAssumption DEF Frontend
          <6> QED
            BY <5>1, <6>1, <6>2 DEF Before, n
        <5>2. CASE f = n
          <6>1. ~(f < n)
            BY <1>1, <5>2, BalancerAssumption DEF Frontend
          <6>2. CASE k = Down
            <7>1. scan'[s].status[f] = Down
              BY <1>6, <1>7, <5>2, <6>2
            <7> QED
              BY <6>1, <7>1, BalancerAssumption DEF Before, Down, n
          <6>3. CASE k # Down
            <7>1. scan'[s].next = n
              BY <1>5, <1>7, <6>3
            <7> QED
              BY <5>2, <6>1, <7>1 DEF Before, n
          <6> QED
            BY <6>2, <6>3
        <5>3. CASE f > n
          BY <1>1, <1>5, <1>6, <1>7, <5>3, BalancerAssumption DEF Before, Frontend, Down, n
        <5> QED
          BY <1>1, <5>1, <5>2, <5>3, BalancerAssumption DEF Frontend
      <4> QED
        BY <4>1 DEF Before
    <3>3. \A f \in Before(s) : scan'[s].status[f] = scan[s].status[f]
      BY <1>1, <1>6, <1>7, BalancerAssumption DEF Before, Frontend, n
    <3>4. FewestBefore(s)'
      BY <3>1, <3>2, <3>3 DEF FewestBefore, Ask, globals
    <3>5. ASSUME NEW f \in Frontend,
                 (f > scan[s].next \/ (f = scan[s].next /\ ~Judging(s)))'
          PROVE  scan'[s].status[f] = Down
      <4>1. f > n
        BY <1>1, <1>5, <1>7, <3>5, BalancerAssumption DEF Judging, Frontend
      <4> QED
        BY <1>1, <1>6, <1>7, <3>1, <4>1, BalancerAssumption DEF Frontend
    <3> QED
      BY <1>5, <1>7, <1>10, <2>2, <3>1, <3>4, <3>5 DEF AloneInv
  <2>3. CASE t = s /\ ~alone[s]
    BY <2>3 DEF AloneInv, Ask
  <2> QED
    BY <2>1, <2>2, <2>3
<1>14. LeastLoaded'
  <2>1. target' = target /\ alone' = alone
    BY DEF Ask
  <2>2. ASSUME NEW c \in Client, scan'[c].pc = "sent"
        PROVE  scan'[c] = scan[c]
    BY <1>5, <1>7, <2>2 DEF Scanner
  <2> QED
    BY <2>1, <2>2 DEF LeastLoaded, Numbers
<1> QED
  BY <1>9, <1>11, <1>12, <1>13, <1>14

(* A scan that begins keeps the invariants of the scans: it has heard of    *)
(* all that the others have, and none of them is alone any more.            *)
LEMMA BeginStep ==
    ASSUME BalancerInv, NEW s \in Scanner, s \notin Scanning, Begin(s),
           UNCHANGED globals
    PROVE  /\ scan' \in [Scanner -> Scan]
           /\ alone' \in [Scanner -> BOOLEAN]
           /\ heard' \in [Scanner -> SUBSET Frontend]
           /\ crossed' \in BOOLEAN
           /\ scan'[s].pc = "reset"
           /\ \A t \in Scanner : t # s => scan'[t] = scan[t] /\ heard'[t] = heard[t]
           /\ \A t \in Scanner : t # s /\ t \notin Scanning => alone'[t] = alone[t]
           /\ \A t \in Scanner : HeardInv(t)'
           /\ \A t \in Scanner : AloneInv(t)'
<1> USE DEF BalancerInv, HeardPart, AlonePart
<1> DEFINE r == [NoScan EXCEPT !.pc = "reset"]
<1>1. r \in Scan /\ r.pc = "reset" /\ r.next = 1 /\ r.status = NoStatus
  BY NoScanType
<1>2. scan' = [scan EXCEPT ![s] = r]
  BY DEF Begin
<1> HIDE DEF r
<1>3. /\ scan' \in [Scanner -> Scan]
      /\ scan'[s] = r
      /\ \A t \in Scanner : t # s => scan'[t] = scan[t]
  BY <1>1, <1>2, ScanSet
<1>4. \A f \in Frontend : scan'[s].status[f] = Down
  BY <1>1, <1>3, NoScanType
<1>5. /\ heard' \in [Scanner -> SUBSET Frontend]
      /\ \A t \in Scanner : t # s => heard'[t] = heard[t]
      /\ \A f \in Frontend, t \in Scanning : scan[t].status[f] # Down => f \in heard'[s]
  BY DEF Begin, TypeOK
<1>6. /\ alone' \in [Scanner -> BOOLEAN]
      /\ \A t \in Scanner : t # s /\ t \notin Scanning => alone'[t] = alone[t]
      /\ \A t \in Scanning : ~alone'[t]
      /\ alone'[s] => Scanning = {}
  BY DEF Begin, TypeOK, Scanning
<1>7. crossed' \in BOOLEAN
  BY DEF Begin, TypeOK
<1>8. Scanning' = Scanning \cup {s}
  BY <1>1, <1>3 DEF Scanning
<1>9. ASSUME NEW t \in Scanner
      PROVE  HeardInv(t)'
  <2>1. Entered(t)' => t # s /\ Entered(t)
    BY <1>1, <1>3 DEF Entered
  <2>2. Entered(t)' => redirect_server_port' \in heard'[t] \cup {NoPort}
    BY <1>5, <2>1 DEF HeardInv, globals
  <2>3. ASSUME t \in Scanning \cup {s}, NEW u \in Scanning \cup {s}, NEW f \in Frontend,
               scan'[u].status[f] # Down
        PROVE  f \in heard'[t]
    <3>1. u # s /\ scan[u].status[f] # Down
      BY <1>3, <1>4, <2>3 DEF Scanning
    <3>2. CASE t = s
      BY <1>5, <2>3, <3>1, <3>2
    <3>3. CASE t # s
      BY <1>5, <2>3, <3>1, <3>3 DEF HeardInv
    <3> QED
      BY <3>2, <3>3
  <2>4. CASE t = s
    BY <1>1, <1>3, <1>8, <2>2, <2>3, <2>4 DEF HeardInv, Judging
  <2>5. CASE t # s
    BY <1>3, <1>8, <2>2, <2>3, <2>5 DEF HeardInv, Judging, Heard
  <2> QED
    BY <2>4, <2>5
<1>10. ASSUME NEW t \in Scanner
       PROVE  AloneInv(t)'
  <2>1. CASE t # s
    BY <1>6, <1>8, <2>1 DEF AloneInv
  <2>2. CASE t = s /\ alone'[s]
    <3>1. Scanning' = {s}
      BY <1>6, <1>8, <2>2
    <3> QED
      BY <1>1, <1>3, <1>4, <2>2, <3>1 DEF AloneInv
  <2>3. CASE t = s /\ ~alone'[s]
    BY <2>3 DEF AloneInv
  <2> QED
    BY <2>1, <2>2, <2>3
<1> QED
  BY <1>1, <1>3, <1>5, <1>6, <1>7, <1>9, <1>10

(* Scanners that leave.                                                     *)
LEMMA Stopped ==
    ASSUME TypeOK, NEW S, S \subseteq Scanner, Stop(S)
    PROVE  /\ scan' \in [Scanner -> Scan]
           /\ alone' \in [Scanner -> BOOLEAN]
           /\ heard' \in [Scanner -> SUBSET Frontend]
           /\ crossed' \in BOOLEAN /\ crossed' = crossed
           /\ \A t \in S : scan'[t] = NoScan
           /\ \A t \in Scanner \ S : /\ scan'[t] = scan[t] /\ heard'[t] = heard[t]
                                     /\ alone'[t] = alone[t]
           /\ Scanning' = Scanning \ S
<1>1. /\ scan' \in [Scanner -> Scan]
      /\ \A t \in S : scan'[t] = NoScan
      /\ \A t \in Scanner \ S : scan'[t] = scan[t]
  BY NoScanType DEF Stop, TypeOK
<1>2. /\ heard' \in [Scanner -> SUBSET Frontend]
      /\ \A t \in Scanner \ S : heard'[t] = heard[t]
  BY DEF Stop, TypeOK
<1>3. /\ alone' \in [Scanner -> BOOLEAN]
      /\ \A t \in Scanner \ S : alone'[t] = alone[t]
  BY DEF Stop, TypeOK
<1>4. Scanning' = Scanning \ S
  BY <1>1, NoScanType DEF Scanning
<1> QED
  BY <1>1, <1>2, <1>3, <1>4 DEF Stop, TypeOK

LEMMA StopStep ==
    ASSUME BalancerInv, NEW S, S \subseteq Scanner, Stop(S), UNCHANGED globals
    PROVE  \A t \in Scanner : HeardInv(t)' /\ AloneInv(t)'
<1> USE DEF BalancerInv, HeardPart, AlonePart
<1>1. /\ \A t \in S : scan'[t] = NoScan
      /\ \A t \in Scanner \ S : /\ scan'[t] = scan[t] /\ heard'[t] = heard[t]
                                /\ alone'[t] = alone[t]
      /\ Scanning' = Scanning \ S
  BY Stopped
<1>2. ASSUME NEW t \in Scanner
      PROVE  HeardInv(t)'
  <2>1. CASE t \in S
    BY <1>1, <2>1, NoScanType DEF HeardInv, Entered, Judging
  <2>2. CASE t \notin S
    <3>1. \A u \in Scanning' : u \in Scanning /\ scan'[u] = scan[u]
      BY <1>1 DEF Scanning
    <3> QED
      BY <1>1, <2>2, <3>1 DEF HeardInv, Entered, Judging, Heard, globals
  <2> QED
    BY <2>1, <2>2
<1>3. ASSUME NEW t \in Scanner
      PROVE  AloneInv(t)'
  <2>1. CASE t \in S
    BY <1>1, <2>1 DEF AloneInv
  <2>2. CASE t \notin S /\ t \in Scanning /\ alone[t]
    <3>1. Scanning = {t}
      BY <2>2 DEF AloneInv
    <3>2. Scanning' = Scanning
      BY <1>1, <2>2, <3>1
    <3> QED
      BY <1>1, <2>2, <3>2 DEF AloneInv, FewestBefore, Before, Judging, Heard, globals
  <2>3. CASE t \notin S /\ ~(t \in Scanning /\ alone[t])
    BY <1>1, <2>3 DEF AloneInv
  <2> QED
    BY <2>1, <2>2, <2>3
<1> QED
  BY <1>2, <1>3

(* Nothing happens to the other scans and to browsers on their way.         *)
LEMMA StopInv ==
    ASSUME BalancerInv, NEW S, S \subseteq Scanner, Stop(S), UNCHANGED <<globals, target>>,
           TypeOK'
    PROVE  BalancerInv'
<1>1. ASSUME NEW c \in Client, scan'[c].pc = "sent"
      PROVE  scan'[c] = scan[c] /\ heard'[c] = heard[c] /\ alone'[c] = alone[c]
  <2>1. c \in Scanner \ S
    BY <1>1, Stopped, NoScanType DEF Scanner, BalancerInv, HeardPart
  <2> QED
    BY <2>1, Stopped DEF BalancerInv, HeardPart
<1>2. HeardOf' /\ LeastLoaded'
  BY <1>1 DEF BalancerInv, HeardPart, AlonePart, HeardOf, LeastLoaded, Numbers
<1> QED
  BY <1>2, StopStep DEF BalancerInv, HeardPart, AlonePart

(* A scanner that leaves, by a scan that is over or a page that is served.  *)
LEMMA LeaveStep ==
    ASSUME BalancerInv, NEW s \in Scanner, Leave(s), UNCHANGED globals
    PROVE  /\ scan' \in [Scanner -> Scan]
           /\ alone' \in [Scanner -> BOOLEAN]
           /\ heard' \in [Scanner -> SUBSET Frontend]
           /\ crossed' \in BOOLEAN
           /\ scan'[s] = NoScan /\ scan'[s].pc = "idle"
           /\ \A t \in Scanner : t # s => /\ scan'[t] = scan[t] /\ heard'[t] = heard[t]
                                          /\ alone'[t] = alone[t]
           /\ \A t \in Scanner : HeardInv(t)'
           /\ \A t \in Scanner : AloneInv(t)'
<1>1. {s} \subseteq Scanner /\ Stop({s}) /\ s \in {s} /\ TypeOK
  BY DEF Leave, BalancerInv, HeardPart
<1>2. \A t \in Scanner : t # s => t \in Scanner \ {s}
  OBVIOUS
<1> QED
  BY <1>1, <1>2, Stopped, StopStep, NoScanType

(* The properties of browsers that are not concerned.                       *)
LEMMA OthersKept ==
    ASSUME BalancerInv, NEW s \in Scanner, scan'[s].pc # "sent",
           \A c \in Client : c # s => target'[c] = target[c],
           \A t \in Scanner : t # s => scan'[t] = scan[t] /\ heard'[t] = heard[t],
           \A t \in Scanner : t # s /\ t \notin Scanning => alone'[t] = alone[t]
    PROVE  HeardOf' /\ LeastLoaded'
<1>1. ASSUME NEW c \in Client, scan'[c].pc = "sent"
      PROVE  /\ scan'[c] = scan[c] /\ heard'[c] = heard[c] /\ target'[c] = target[c]
             /\ alone'[c] = alone[c]
  BY <1>1 DEF Scanner, Scanning
<1> QED
  BY <1>1 DEF BalancerInv, HeardPart, AlonePart, HeardOf, LeastLoaded, Numbers

LEMMA RequestStep ==
    ASSUME BalancerInv, NEW c \in Client, Request(c)
    PROVE  BalancerInv'
<1>1. c \in Scanner /\ c \notin Scanning /\ UNCHANGED globals /\ UNCHANGED target
  BY DEF Request, Scanning, Scanner
<1>2. Begin(c)
  BY DEF Request
<1>3. TypeOK'
  BY <1>1, <1>2, BeginStep, BalancerAssumption
     DEF TypeOK, Request, frontend, balancer, bounds, globals, BalancerInv, HeardPart
<1>4. HeardOf' /\ LeastLoaded'
  BY <1>1, <1>2, BeginStep, OthersKept
<1> QED
  BY <1>1, <1>2, <1>3, <1>4, BeginStep DEF BalancerInv, HeardPart, AlonePart

LEMMA WatchStep ==
    ASSUME BalancerInv, NEW w \in Watcher, Watch(w)
    PROVE  BalancerInv'
<1>1. w \in Scanner /\ w \notin Scanning /\ UNCHANGED globals /\ UNCHANGED target
  BY DEF Watch, Scanning, Scanner
<1>2. Begin(w)
  BY DEF Watch
<1>3. TypeOK'
  BY <1>1, <1>2, BeginStep, BalancerAssumption
     DEF TypeOK, Watch, frontend, balancer, bounds, globals, BalancerInv, HeardPart
<1>4. HeardOf' /\ LeastLoaded'
  BY <1>1, <1>2, BeginStep, OthersKept
<1> QED
  BY <1>1, <1>2, <1>3, <1>4, BeginStep DEF BalancerInv, HeardPart, AlonePart

LEMMA ReturnStep ==
    ASSUME BalancerInv, NEW c \in Client, Return(c)
    PROVE  BalancerInv'
<1>1. c \in Scanner /\ c \notin Scanning /\ UNCHANGED globals
  BY DEF Return, Scanning, Scanner
<1>2. /\ target' \in [Client -> Frontend \cup {NoPort}]
      /\ counted' \in [Frontend -> Nat]
      /\ \A d \in Client : d # c => target'[d] = target[d]
  BY DEF Return, Arrive, TypeOK, BalancerInv, HeardPart
<1>3. CASE Begin(c)
  <2>1. TypeOK'
    BY <1>1, <1>2, <1>3, BeginStep
       DEF TypeOK, Return, balancer, bounds, globals, BalancerInv, HeardPart
  <2>2. HeardOf' /\ LeastLoaded'
    BY <1>1, <1>2, <1>3, BeginStep, OthersKept
  <2> QED
    BY <1>1, <1>3, <2>1, <2>2, BeginStep DEF BalancerInv, HeardPart, AlonePart
<1>4. CASE Leave(c)
  <2>1. TypeOK'
    BY <1>1, <1>2, <1>4, LeaveStep
       DEF TypeOK, Return, balancer, bounds, globals, BalancerInv, HeardPart
  <2>2. HeardOf' /\ LeastLoaded'
    BY <1>1, <1>2, <1>4, LeaveStep, OthersKept
  <2> QED
    BY <1>1, <1>4, <2>1, <2>2, LeaveStep DEF BalancerInv, HeardPart, AlonePart
<1> QED
  BY <1>3, <1>4 DEF Return

LEMMA VisitStep ==
    ASSUME BalancerInv, NEW c \in Client, Visit(c)
    PROVE  BalancerInv'
<1>1. c \in Scanner /\ Leave(c) /\ UNCHANGED globals
  BY DEF Visit, Scanner
<1>2. /\ target' \in [Client -> Frontend \cup {NoPort}]
      /\ counted' \in [Frontend -> Nat]
      /\ \A d \in Client : d # c => target'[d] = target[d]
  BY DEF Visit, Arrive, TypeOK, BalancerInv, HeardPart
<1>3. TypeOK'
  BY <1>1, <1>2, LeaveStep DEF TypeOK, Visit, balancer, bounds, globals, BalancerInv, HeardPart
<1>4. HeardOf' /\ LeastLoaded'
  BY <1>1, <1>2, LeaveStep, OthersKept
<1> QED
  BY <1>1, <1>3, <1>4, LeaveStep DEF BalancerInv, HeardPart, AlonePart

LEMMA FailStep ==
    ASSUME BalancerInv, NEW c \in Client, Fail(c)
    PROVE  BalancerInv'
<1>1. c \in Scanner /\ Leave(c) /\ UNCHANGED globals
  BY DEF Fail, Scanner
<1>2. /\ target' \in [Client -> Frontend \cup {NoPort}]
      /\ \A d \in Client : d # c => target'[d] = target[d]
  BY DEF Fail, TypeOK, BalancerInv, HeardPart
<1>3. TypeOK'
  BY <1>1, <1>2, LeaveStep DEF TypeOK, Fail, frontend, balancer, bounds, globals, BalancerInv, HeardPart
<1>4. HeardOf' /\ LeastLoaded'
  BY <1>1, <1>2, LeaveStep, OthersKept
<1> QED
  BY <1>1, <1>3, <1>4, LeaveStep DEF BalancerInv, HeardPart, AlonePart

LEMMA ReportStep ==
    ASSUME BalancerInv, NEW w \in Watcher, Report(w)
    PROVE  BalancerInv'
<1>1. w \in Scanner /\ Leave(w) /\ UNCHANGED globals /\ UNCHANGED target
  BY DEF Report, Scanner
<1>2. TypeOK'
  BY <1>1, LeaveStep DEF TypeOK, Report, frontend, balancer, bounds, globals, BalancerInv, HeardPart
<1>3. HeardOf' /\ LeastLoaded'
  BY <1>1, LeaveStep, OthersKept
<1> QED
  BY <1>1, <1>2, <1>3, LeaveStep DEF BalancerInv, HeardPart, AlonePart

(* Redirect reads the global that the invariants are about.                 *)
LEMMA RedirectStep ==
    ASSUME BalancerInv, NEW c \in Client, Redirect(c)
    PROVE  BalancerInv'
<1> USE DEF BalancerInv, HeardPart, AlonePart
<1> DEFINE r == [scan[c] EXCEPT !.pc = "sent"]
<1>1. c \in Scanner /\ c \in Scanning /\ scan[c].pc = "ask" /\ scan[c].next > FrontendCount
  BY DEF Redirect, Done, Scanning, Scanner
<1>2. r \in Scan
  BY <1>1, ScanTypes DEF Pc
<1>3. r.pc = "sent" /\ r.next = scan[c].next /\ r.status = scan[c].status
  BY <1>1, ScanTypes DEF Scan
<1>4. scan' = [scan EXCEPT ![c] = r]
  BY DEF Redirect
<1> HIDE DEF r
<1>5. /\ scan' \in [Scanner -> Scan]
      /\ scan'[c] = r
      /\ \A t \in Scanner : t # c => scan'[t] = scan[t]
  BY <1>1, <1>2, <1>4, ScanSet
<1>6. /\ target' \in [Client -> Frontend \cup {NoPort}]
      /\ target'[c] = redirect_server_port
      /\ \A d \in Client : d # c => target'[d] = target[d]
  BY DEF Redirect, TypeOK
<1>7. heard' = heard /\ alone' = alone /\ crossed' = crossed /\ UNCHANGED globals
  BY DEF Redirect, globals, history
<1>8. TypeOK'
  BY <1>5, <1>6, <1>7 DEF TypeOK, Redirect, frontend, balancer, bounds, globals
<1>9. Scanning' = Scanning \ {c}
  BY <1>1, <1>3, <1>5 DEF Scanning
<1>10. ASSUME NEW t \in Scanner
       PROVE  HeardInv(t)'
  <2>1. CASE t = c
    BY <1>3, <1>5, <1>9, <2>1 DEF HeardInv, Entered, Judging
  <2>2. CASE t # c
    <3>1. \A u \in Scanning' : u \in Scanning /\ scan'[u] = scan[u]
      BY <1>5, <1>9 DEF Scanning
    <3> QED
      BY <1>5, <1>7, <1>9, <2>2, <3>1 DEF HeardInv, Entered, Judging, Heard, globals
  <2> QED
    BY <2>1, <2>2
<1>11. HeardOf'
  <2>1. redirect_server_port \in heard[c] \cup {NoPort}
    BY <1>1 DEF HeardInv, Entered
  <2> QED
    BY <1>5, <1>6, <1>7, <2>1 DEF HeardOf, Scanner
<1>12. ASSUME NEW t \in Scanner
       PROVE  AloneInv(t)'
  <2>1. CASE t = c
    BY <1>9, <2>1 DEF AloneInv
  <2>2. CASE t # c
    BY <1>1, <1>7, <1>9, <2>2 DEF AloneInv
  <2> QED
    BY <2>1, <2>2
<1>13. LeastLoaded'
  <2>1. ASSUME NEW d \in Client, d # c
        PROVE  scan'[d] = scan[d] /\ target'[d] = target[d]
    BY <1>5, <1>6, <2>1 DEF Scanner
  <2>2. Before(c) = Numbers(c)
    <3>1. \A f \in Frontend : f < scan[c].next
      BY <1>1, ScanTypes, BalancerAssumption DEF Frontend
    <3> QED
      BY <3>1 DEF Before, Numbers
  <2>3. alone[c] => FewestBefore(c)
    BY <1>1 DEF AloneInv
  <2>4. Numbers(c)' = Numbers(c)
    BY <1>3, <1>5 DEF Numbers
  <2>5. alone[c] => IF Numbers(c) = {} THEN target'[c] = NoPort
                    ELSE /\ target'[c] \in Numbers(c)
                         /\ \A f \in Numbers(c) : scan[c].status[target'[c]] <= scan[c].status[f]
    BY <1>6, <2>2, <2>3 DEF FewestBefore
  <2>6. ASSUME NEW d \in Client, scan'[d].pc = "sent", alone'[d]
        PROVE  (IF Numbers(d) = {} THEN target[d] = NoPort
                ELSE /\ target[d] \in Numbers(d)
                     /\ \A f \in Numbers(d) : scan[d].status[target[d]] <= scan[d].status[f])'
    <3>1. CASE d = c
      BY <1>3, <1>5, <1>7, <2>4, <2>5, <2>6, <3>1
    <3>2. CASE d # c
      <4>1. Numbers(d)' = Numbers(d)
        BY <2>1, <3>2 DEF Numbers
      <4> QED
        BY <1>7, <2>1, <2>6, <3>2, <4>1 DEF LeastLoaded
    <3> QED
      BY <3>1, <3>2
  <2> QED
    BY <2>6 DEF LeastLoaded
<1> QED
  BY <1>8, <1>10, <1>11, <1>12, <1>13

(* The frontends come and go, and count by themselves.                      *)
LEMMA QuietlyStops == ASSUME TypeOK, Quietly PROVE Stop({})
BY DEF Quietly, Stop, TypeOK, history

LEMMA ChangeStep ==
    ASSUME BalancerInv, NEW f \in Frontend, NEW to \in {"on", "off", "dead"}, Change(f, to),
           NEW S, S \subseteq Scanner, Stop(S),
           counted' \in [Frontend -> Nat], running' \in BOOLEAN
    PROVE  BalancerInv'
<1>1. TypeOK'
  <2>1. state' \in [Frontend -> {"on", "off", "dead"}] /\ steady' \in SUBSET Frontend
    BY DEF TypeOK, Change, BalancerInv, HeardPart
  <2>2. faults' \in 0..MaxFaults
    BY FaultRange DEF Change, BalancerInv, HeardPart
  <2> QED
    BY <2>1, <2>2, Stopped DEF TypeOK, Change, globals, BalancerInv, HeardPart
<1> QED
  BY <1>1, StopInv DEF Change

LEMMA FrontendStep ==
    ASSUME BalancerInv, NEW f \in Frontend, SwitchOff(f) \/ SwitchOn(f) \/ Die(f) \/ Start(f)
    PROVE  \E to \in {"on", "off", "dead"}, S \in SUBSET Scanner :
              /\ Change(f, to) /\ Stop(S)
              /\ counted' \in [Frontend -> Nat] /\ running' \in BOOLEAN
              /\ \A g \in Frontend : g # f => counted'[g] = counted[g]
<1>1. TypeOK /\ running \in BOOLEAN /\ counted \in [Frontend -> Nat]
  BY DEF BalancerInv, HeardPart, TypeOK
<1>2. CASE SwitchOff(f) \/ SwitchOn(f) \/ Start(f)
  <2>1. Stop({}) /\ running' = running
    BY <1>1, <1>2, QuietlyStops DEF SwitchOff, SwitchOn, Start, Quietly
  <2>2. /\ counted' \in [Frontend -> Nat]
        /\ \A g \in Frontend : g # f => counted'[g] = counted[g]
    BY <1>1, <1>2 DEF SwitchOff, SwitchOn, Start
  <2>3. {} \in SUBSET Scanner
    OBVIOUS
  <2> QED
    BY <1>1, <1>2, <2>1, <2>2, <2>3 DEF SwitchOff, SwitchOn, Start
<1>3. CASE Die(f)
  <2>1. Change(f, "dead") /\ counted' = counted
    BY <1>3 DEF Die
  <2>2. \E S \in SUBSET Scanner : Stop(S) /\ running' \in BOOLEAN
    <3>1. PICK thrown \in SUBSET {s \in Scanner : scan[s].pc = "ask" /\ scan[s].next = f} :
             IF heartbeat_func \in thrown THEN End ELSE Stop(thrown) /\ UNCHANGED running
      BY <1>3 DEF Die
    <3>2. thrown \in SUBSET Scanner /\ Scanning \in SUBSET Scanner
      BY DEF Scanning
    <3> QED
      BY <1>1, <3>1, <3>2 DEF End
  <2> QED
    BY <1>1, <2>1, <2>2
<1> QED
  BY <1>2, <1>3

(* A connection is opened or counted down.                                  *)
LEMMA ConnectionStep ==
    ASSUME BalancerInv, NEW f \in Frontend, Open(f) \/ Drop(f)
    PROVE  BalancerInv'
<1>1. TypeOK
  BY DEF BalancerInv, HeardPart
<1>2. Stop({}) /\ {} \subseteq Scanner /\ UNCHANGED <<globals, target>>
  BY <1>1, QuietlyStops DEF Open, Drop, Quietly, balancer
<1>3. TypeOK'
  <2>1. requests' \in 0..MaxRequests
    BY <1>1, BalancerAssumption DEF Open, Drop, TypeOK
  <2>2. /\ counted' \in [Frontend -> Nat] /\ direct' \in [Frontend -> Nat]
        /\ dropped' \in [Frontend -> Nat]
    BY <1>1 DEF Open, Drop, TypeOK
  <2> QED
    BY <1>1, <2>1, <2>2 DEF TypeOK, Open, Drop, balancer, globals, history
<1> QED
  BY <1>2, <1>3, StopInv

LEMMA AcceptEndsStep == ASSUME BalancerInv, AcceptEnds PROVE BalancerInv'
<1>1. TypeOK /\ Stop(Scanning) /\ Scanning \subseteq Scanner /\ running' = FALSE
  BY DEF AcceptEnds, End, Scanning, BalancerInv, HeardPart
<1>2. TypeOK'
  BY <1>1, Stopped DEF TypeOK, AcceptEnds, frontend, bounds, globals
<1> QED
  BY <1>1, <1>2, StopInv DEF AcceptEnds

LEMMA InitInv == Init => BalancerInv
<1> SUFFICES ASSUME Init
             PROVE  BalancerInv
  OBVIOUS
<1>1. \A s \in Scanner : scan[s] = NoScan
  BY DEF Init
<1>2. TypeOK
  <2>1. /\ alone \in [Scanner -> BOOLEAN] /\ crossed \in BOOLEAN
        /\ running \in BOOLEAN /\ spent \in BOOLEAN
    BY DEF Init
  <2>2. scan \in [Scanner -> Scan] /\ heard \in [Scanner -> SUBSET Frontend]
    BY NoScanType DEF Init
  <2>3. /\ redirect_server_port \in Frontend \cup {NoPort}
        /\ min_connections \in 0..MAX_CONNECTIONS
        /\ target \in [Client -> Frontend \cup {NoPort}]
        /\ counted \in [Frontend -> Nat]
        /\ faults \in 0..MaxFaults
        /\ direct \in [Frontend -> Nat] /\ dropped \in [Frontend -> Nat]
        /\ requests \in 0..MaxRequests
    BY BalancerAssumption DEF Init
  <2> QED
    BY <2>1, <2>2, <2>3 DEF Init, TypeOK, On
<1>3. Scanning = {}
  BY <1>1, NoScanType DEF Scanning
<1>4. \A s \in Scanner : HeardInv(s) /\ AloneInv(s)
  BY <1>1, <1>3, NoScanType DEF HeardInv, AloneInv, Entered, Judging
<1>5. HeardOf /\ LeastLoaded
  BY <1>1, NoScanType DEF HeardOf, LeastLoaded, Scanner
<1> QED
  BY <1>2, <1>4, <1>5 DEF BalancerInv, HeardPart, AlonePart

LEMMA StutterInv == BalancerInv /\ UNCHANGED vars => BalancerInv'
<1> SUFFICES ASSUME BalancerInv, UNCHANGED vars
             PROVE  BalancerInv'
  OBVIOUS
<1> USE DEF BalancerInv, HeardPart, AlonePart, vars, frontend, balancer, bounds, globals, history
<1>1. Scanning' = Scanning
  BY DEF Scanning
<1>2. TypeOK'
  BY DEF TypeOK
<1>3. ASSUME NEW t \in Scanner
      PROVE  HeardInv(t)' /\ AloneInv(t)'
  BY <1>1 DEF HeardInv, AloneInv, Entered, FewestBefore, Before, Judging, Heard
<1>4. HeardOf' /\ LeastLoaded'
  BY DEF HeardOf, LeastLoaded, Numbers
<1> QED
  BY <1>2, <1>3, <1>4

LEMMA NextInv == BalancerInv /\ [Next]_vars => BalancerInv'
<1> SUFFICES ASSUME BalancerInv, [Next]_vars
             PROVE  BalancerInv'
  OBVIOUS
<1>1. ASSUME NEW s \in Scanner, Scanned(s)
      PROVE  BalancerInv'
  BY <1>1, ResetStep, ClearStep, AskStep, CompareStep, SetPortStep, SetLeastStep DEF Scanned
<1>2. ASSUME NEW c \in Client, Request(c) \/ Browse(c)
      PROVE  BalancerInv'
  <2>1. c \in Scanner
    BY DEF Scanner
  <2> QED
    BY <1>1, <1>2, <2>1, RequestStep, RedirectStep, VisitStep, ReturnStep, FailStep DEF Browse
<1>3. ASSUME NEW w \in Watcher, Watch(w) \/ Scanned(w) \/ Report(w)
      PROVE  BalancerInv'
  <2>1. w \in Scanner
    BY DEF Scanner
  <2> QED
    BY <1>1, <1>3, <2>1, WatchStep, ReportStep
<1>4. ASSUME NEW f \in Frontend, SwitchOff(f) \/ SwitchOn(f) \/ Die(f) \/ Start(f)
      PROVE  BalancerInv'
  BY <1>4, FrontendStep, ChangeStep
<1> QED
  BY <1>2, <1>3, <1>4, ConnectionStep, AcceptEndsStep, StutterInv DEF Next

-----------------------------------------------------------------------------
(* The load: EvenPart is preserved, step by step.                           *)

(* How many browsers there are in a set of them.                            *)
LEMMA Browsers ==
    ASSUME NEW S, S \subseteq Client
    PROVE  /\ Cardinality(S) \in Nat
           /\ Cardinality(Client) \in Nat
           /\ Cardinality(S) <= Cardinality(Client)
           /\ \A c \in Client \ S : /\ Cardinality(S) <= Cardinality(Client) - 1
                                    /\ Cardinality(S \cup {c}) = Cardinality(S) + 1
           /\ \A c \in S : Cardinality(S \ {c}) = Cardinality(S) - 1
<1>1. IsFiniteSet(Client) /\ Cardinality(Client) \in Nat
  BY BalancerAssumption, FS_CardinalityType
<1>2. IsFiniteSet(S) /\ Cardinality(S) \in Nat /\ Cardinality(S) <= Cardinality(Client)
  BY <1>1, FS_Subset, FS_CardinalityType
<1>3. ASSUME NEW c \in Client \ S
      PROVE  /\ Cardinality(S) <= Cardinality(Client) - 1
             /\ Cardinality(S \cup {c}) = Cardinality(S) + 1
  <2>1. Cardinality(S \cup {c}) = Cardinality(S) + 1
    BY <1>2, <1>3, FS_AddElement
  <2>2. Cardinality(S \cup {c}) <= Cardinality(Client)
    <3>1. S \cup {c} \subseteq Client
      BY <1>3
    <3> QED
      BY <1>1, <3>1, FS_Subset
  <2> QED
    BY <1>1, <1>2, <2>1, <2>2
<1>4. ASSUME NEW c \in S
      PROVE  Cardinality(S \ {c}) = Cardinality(S) - 1
  BY <1>2, <1>4, FS_RemoveElement
<1> QED
  BY <1>1, <1>2, <1>3, <1>4

(* Counts are numbers.                                                      *)
LEMMA LoadTypes ==
    ASSUME TypeOK, NEW f \in Frontend
    PROVE  /\ Pending(f) \subseteq Client
           /\ Cardinality(Pending(f)) \in Nat
           /\ Cardinality(Client) \in Nat
           /\ counted[f] \in Nat /\ direct[f] \in Nat /\ dropped[f] \in Nat
           /\ Load(f) \in Nat
           /\ counted[f] <= Load(f)
           /\ Load(f) = counted[f] + Cardinality(Pending(f))
<1>1. Pending(f) \subseteq Client
  BY DEF Pending
<1>2. Cardinality(Pending(f)) \in Nat /\ Cardinality(Client) \in Nat
  BY <1>1, Browsers
<1>3. counted[f] \in Nat /\ direct[f] \in Nat /\ dropped[f] \in Nat
  BY DEF TypeOK
<1>4. Load(f) = counted[f] + Cardinality(Pending(f))
  BY DEF Load
<1> QED
  BY <1>1, <1>2, <1>3, <1>4

(* A scan that goes on and hears nothing changes no load.                   *)
LEMMA QuietStep ==
    ASSUME EvenInv, NEW s \in Scanner, s \in Scanning,
           UNCHANGED <<frontend, balancer, target, alone, crossed>>,
           \A t \in Scanner : t # s => scan'[t] = scan[t],
           scan'[s].status = scan[s].status,
           scan'[s].pc \notin {"idle", "sent"},
           Asked(s)' \subseteq Asked(s)
    PROVE  EvenPart'
<1> USE DEF EvenInv, EvenPart
<1>1. Scanning' = Scanning
  BY DEF Scanning
<1>2. ASSUME NEW f
      PROVE  Load(f)' = Load(f)
  <2>1. Pending(f)' = Pending(f)
    BY DEF Pending, Scanning, Scanner
  <2> QED
    BY <2>1 DEF Load, frontend
<1>3. /\ On' = On /\ steady' = steady /\ counted' = counted
      /\ direct' = direct /\ dropped' = dropped /\ spent' = spent
  BY DEF On, frontend, balancer
<1>4. ASSUME NEW t \in Scanner
      PROVE  AnswerInv(t)'
  <2>1. scan'[t].status = scan[t].status
    OBVIOUS
  <2>2. Asked(t)' \subseteq Asked(t)
    BY <1>3 DEF Asked, Judging
  <2> QED
    BY <1>1, <1>3, <2>1, <2>2 DEF AnswerInv
<1>5. ASSUME NEW c \in Client, ~crossed
      PROVE  BoundInv(c)'
  <2>1. scan'[c].status = scan[c].status
    BY DEF Scanner
  <2> QED
    BY <1>1, <1>2, <1>3, <1>5, <2>1 DEF BoundInv
<1> QED
  BY <1>1, <1>2, <1>3, <1>4, <1>5

(* An answer bounds the load of who gave it: the browser that asks for it   *)
(* is not on its way.                                                       *)
LEMMA AskKeepsEven ==
    ASSUME EvenInv, NEW s \in Scanner, Ask(s)
    PROVE  EvenPart'
<1> USE DEF EvenInv, EvenPart, BalancerInv, HeardPart
<1> DEFINE n == scan[s].next
<1>0. PICK short \in BOOLEAN :
         /\ spent' = (spent \/ short)
         /\ Answer(s, n, IF short THEN Down ELSE Handle_Load_Balancer(n))
  BY DEF Ask
<1> DEFINE k == IF short THEN Down ELSE Handle_Load_Balancer(n)
<1>1. n \in Frontend /\ scan[s].pc = "ask" /\ s \in Scanning
  BY DEF Ask, Scanning
<1>2. /\ \A t \in Scanner : t # s => scan'[t] = scan[t]
      /\ scan'[s].pc = IF k = Down THEN "ask" ELSE "compare"
      /\ scan'[s].next = IF k = Down THEN n + 1 ELSE n
      /\ scan'[s].status[n] = k
      /\ \A f \in Frontend : f # n => scan'[s].status[f] = scan[s].status[f]
  <2>1. scan[s] \in Scan
    BY ScanTypes
  <2> QED
    BY <1>0, <1>1, <2>1 DEF Answer, TypeOK, Scan
<1>3. /\ On' = On /\ steady' = steady /\ counted' = counted /\ target' = target
      /\ direct' = direct /\ dropped' = dropped
      /\ alone' = alone /\ crossed' = crossed
  BY DEF Ask, On, frontend
<1>4. Scanning' = Scanning
  BY <1>1, <1>2 DEF Scanning
<1>5. ASSUME NEW f \in Frontend
      PROVE  Load(f)' = Load(f)
  <2>1. Pending(f)' = Pending(f)
    BY <1>1, <1>2, <1>3 DEF Pending, Scanner
  <2> QED
    BY <1>3, <2>1 DEF Load
<1>6. n \in steady /\ ~spent' => k = counted[n]
  BY <1>0 DEF On, Handle_Load_Balancer
<1>7. k # Down => k = counted[n]
  BY DEF Handle_Load_Balancer
<1>8. steady \subseteq Frontend
  BY DEF TypeOK
<1> HIDE DEF n, k
<1>11. ~spent' => ~spent
  BY <1>0
<1>9. ASSUME NEW t \in Scanner
      PROVE  AnswerInv(t)'
  <2>1. CASE t # s
    BY <1>2, <1>3, <1>4, <1>11, <2>1 DEF AnswerInv, Asked, Judging
  <2>2. CASE t = s
    <3>1. ASSUME NEW f \in steady
          PROVE  scan'[s].status[f] <= counted[f] + dropped[f]
      <4>1. CASE f = n
        BY <1>1, <1>2, <1>7, <4>1, LoadTypes DEF Down
      <4>2. CASE f # n
        BY <1>2, <1>8, <4>2 DEF AnswerInv
      <4> QED
        BY <4>1, <4>2
    <3>2. ASSUME ~spent', NEW f \in Asked(s)'
          PROVE  scan'[s].status[f] # Down
      <4>1. f \in steady /\ f \in Frontend
        BY <1>3, <1>8, <3>2 DEF Asked
      <4>2. CASE f = n
        BY <1>2, <1>6, <3>2, <4>1, <4>2, LoadTypes DEF Down
      <4>3. CASE f # n
        <5>1. f < n
          BY <1>1, <1>2, <3>2, <4>1, <4>3, BalancerAssumption DEF Asked, Judging, Frontend
        <5>2. f \in Asked(s)
          BY <4>1, <5>1 DEF Asked, n
        <5> QED
          BY <1>1, <1>2, <1>11, <3>2, <4>1, <4>3, <5>2 DEF AnswerInv
      <4> QED
        BY <4>2, <4>3
    <3> QED
      BY <1>3, <2>2, <3>1, <3>2 DEF AnswerInv
  <2> QED
    BY <2>1, <2>2
<1>10. ASSUME NEW c \in Client, ~crossed
       PROVE  BoundInv(c)'
  <2>1. CASE c # s
    BY <1>2, <1>3, <1>4, <1>5, <1>8, <1>10, <2>1 DEF BoundInv, Scanner
  <2>2. CASE c = s
    <3>1. ASSUME NEW f \in steady, scan'[s].status[f] # Down
          PROVE  Load(f) <= scan'[s].status[f] + Cardinality(Client) - 1 + direct[f]
      <4>1. CASE f # n
        BY <1>1, <1>2, <1>8, <1>10, <2>2, <3>1, <4>1 DEF BoundInv
      <4>2. CASE f = n
        <5>1. s \in Client \ Pending(n) /\ Pending(n) \subseteq Client
          BY <1>1, <2>2 DEF Pending
        <5>2. Cardinality(Pending(n)) <= Cardinality(Client) - 1
          BY <5>1, Browsers
        <5>3. scan'[s].status[f] = counted[n]
          BY <1>2, <1>7, <3>1, <4>2
        <5> QED
          BY <1>1, <4>2, <5>2, <5>3, LoadTypes
      <4> QED
        BY <4>1, <4>2
    <3> QED
      BY <1>3, <1>5, <1>8, <2>2, <3>1 DEF BoundInv
  <2> QED
    BY <2>1, <2>2
<1> QED
  BY <1>3, <1>4, <1>5, <1>8, <1>9, <1>10, <1>11

(* A scan that begins knows nothing, and is not crossed only if no other    *)
(* scan runs.                                                               *)
LEMMA BeginKeepsEven ==
    ASSUME EvenInv, NEW s \in Scanner, s \notin Scanning, Begin(s),
           UNCHANGED <<state, steady, direct, dropped, spent>>,
           \A f \in steady : counted'[f] = counted[f] /\ s \notin Pending(f),
           \A c \in Client : c # s => target'[c] = target[c]
    PROVE  EvenPart'
<1> USE DEF EvenInv, EvenPart, BalancerInv, HeardPart
<1> DEFINE r == [NoScan EXCEPT !.pc = "reset"]
<1>1. r \in Scan /\ r.pc = "reset" /\ r.next = 1 /\ r.status = NoStatus
  BY NoScanType
<1>2. scan' = [scan EXCEPT ![s] = r]
  BY DEF Begin
<1> HIDE DEF r
<1>3. /\ scan'[s] = r
      /\ \A t \in Scanner : t # s => scan'[t] = scan[t]
  BY <1>1, <1>2, ScanSet
<1>4. \A f \in Frontend : scan'[s].status[f] = Down
  BY <1>1, <1>3, NoScanType
<1>5. Scanning' = Scanning \cup {s}
  BY <1>1, <1>3 DEF Scanning
<1>6. ~crossed' => ~crossed /\ Scanning = {} /\ alone'[s]
  BY DEF Begin
<1>7. On' = On /\ steady \subseteq Frontend
  BY DEF On, TypeOK
<1>8. ASSUME NEW f \in steady
      PROVE  Load(f)' = Load(f)
  <2>1. Pending(f)' = Pending(f)
    <3>1. s \notin Pending(f)'
      BY <1>1, <1>3 DEF Pending
    <3>2. \A c \in Client : c # s => (c \in Pending(f)' <=> c \in Pending(f))
      BY <1>3 DEF Pending, Scanner
    <3> QED
      BY <3>1, <3>2 DEF Pending
  <2> QED
    BY <2>1 DEF Load
<1>9. ASSUME NEW t \in Scanner
      PROVE  AnswerInv(t)'
  <2>1. CASE t # s
    BY <1>3, <1>5, <2>1 DEF AnswerInv, Asked, Judging
  <2>2. CASE t = s
    <3>1. Asked(s)' = {}
      <4>1. scan'[s].next = 1 /\ ~Judging(s)'
        BY <1>1, <1>3 DEF Judging
      <4>2. \A f \in steady' : ~(f < 1)
        BY <1>7, BalancerAssumption DEF Frontend
      <4> QED
        BY <4>1, <4>2 DEF Asked
    <3>2. \A f \in steady : scan'[s].status[f] <= counted[f] + dropped[f]
      BY <1>4, <1>7, LoadTypes DEF Down
    <3> QED
      BY <2>2, <3>1, <3>2 DEF AnswerInv
  <2> QED
    BY <2>1, <2>2
<1>10. ASSUME NEW c \in Client, ~crossed'
       PROVE  BoundInv(c)'
  BY <1>4, <1>5, <1>6, <1>7, <1>10 DEF BoundInv
<1> QED
  BY <1>5, <1>6, <1>7, <1>8, <1>9, <1>10

(* A step that adds to the load of a frontend no more than is opened to it  *)
(* directly, and takes from its count no more than is counted down.         *)
Eased(f) ==
    /\ Load(f)' + direct[f] <= Load(f) + direct'[f]
    /\ counted[f] + dropped[f] <= counted'[f] + dropped'[f]

LEMMA NextTypes ==
    ASSUME TypeOK', NEW f \in Frontend
    PROVE  /\ Load(f)' \in Nat
           /\ Load(f)' = counted'[f] + Cardinality(Pending(f)')
           /\ Cardinality(Pending(f)') \in Nat
           /\ counted'[f] \in Nat /\ direct'[f] \in Nat /\ dropped'[f] \in Nat
<1>1. Pending(f)' \subseteq Client
  BY DEF Pending
<1>2. Cardinality(Pending(f)') \in Nat
  BY <1>1, Browsers
<1>3. counted'[f] \in Nat /\ direct'[f] \in Nat /\ dropped'[f] \in Nat
  BY DEF TypeOK
<1>4. Load(f)' = counted'[f] + Cardinality(Pending(f)')
  BY DEF Load
<1> QED
  BY <1>2, <1>3, <1>4

(* Scanners that leave keep the load even if the step eases it.             *)
LEMMA StopKeepsEven ==
    ASSUME EvenInv, NEW S, S \subseteq Scanner, Stop(S), TypeOK',
           steady' \subseteq steady, steady' \subseteq On', spent' = spent,
           \A f \in steady' : Eased(f)
    PROVE  EvenPart'
<1> USE DEF EvenInv, EvenPart, BalancerInv, HeardPart
<1>1. /\ \A t \in S : scan'[t] = NoScan
      /\ \A t \in Scanner \ S : scan'[t] = scan[t] /\ alone'[t] = alone[t]
      /\ Scanning' = Scanning \ S
      /\ crossed' = crossed
  BY Stopped
<1>2. Scanning \subseteq Scanner /\ steady \subseteq Frontend
  BY DEF Scanning, TypeOK
<1>3. ASSUME NEW f \in steady'
      PROVE  f \in steady /\ f \in Frontend
  BY <1>2
<1>4. ASSUME NEW t \in Scanner
      PROVE  AnswerInv(t)'
  <2>1. CASE t \in S
    <3>1. ASSUME NEW f \in steady'
          PROVE  scan'[t].status[f] <= counted'[f] + dropped'[f]
      <4>1. scan'[t].status[f] = Down
        BY <1>1, <1>3, <2>1, NoScanType
      <4> QED
        BY <1>3, <4>1, NextTypes DEF Down
    <3> QED
      BY <1>1, <2>1, <3>1 DEF AnswerInv
  <2>2. CASE t \notin S
    <3>1. ASSUME NEW f \in steady'
          PROVE  scan[t].status[f] <= counted'[f] + dropped'[f]
      <4>1. /\ scan[t].status[f] <= counted[f] + dropped[f]
            /\ scan[t].status[f] \in Count
        BY <1>3, ScanTypes DEF AnswerInv
      <4>2. counted[f] + dropped[f] <= counted'[f] + dropped'[f]
        BY DEF Eased
      <4> QED
        BY <1>3, <4>1, <4>2, LoadTypes, NextTypes DEF Count, Down
    <3>2. Asked(t)' \subseteq Asked(t)
      BY <1>1, <2>2 DEF Asked, Judging
    <3> QED
      BY <1>1, <2>2, <3>1, <3>2 DEF AnswerInv
  <2> QED
    BY <2>1, <2>2
<1>5. ASSUME NEW f \in steady'
      PROVE  Load(f)' + direct[f] <= Load(f) + direct'[f]
  BY DEF Eased
<1>6. ASSUME NEW c \in Client, ~crossed
      PROVE  BoundInv(c)'
  <2> SUFFICES ASSUME c \in Scanning', NEW f \in steady', scan'[c].status[f] # Down
               PROVE  Load(f)' <= scan'[c].status[f] + Cardinality(Client) - 1 + direct'[f]
    BY DEF BoundInv
  <2>1. c \in Scanning /\ c \in Scanner /\ scan'[c] = scan[c]
    BY <1>1, <1>2
  <2>2. Load(f) <= scan[c].status[f] + Cardinality(Client) - 1 + direct[f]
    BY <1>3, <1>6, <2>1 DEF BoundInv
  <2>3. scan[c].status[f] \in Nat
    BY <1>3, <2>1, ScanTypes DEF Count
  <2> QED
    BY <1>3, <1>5, <2>1, <2>2, <2>3, LoadTypes, NextTypes
<1>7. ASSUME NEW f \in steady', NEW g \in steady', ~crossed, ~spent
      PROVE  Load(f)' <= counted'[g] + Cardinality(Client) + direct'[f] + dropped'[g]
  <2>1. Load(f) <= counted[g] + Cardinality(Client) + direct[f] + dropped[g]
    BY <1>3, <1>7
  <2>2. counted[g] + dropped[g] <= counted'[g] + dropped'[g]
    BY DEF Eased
  <2>3. f \in Frontend /\ g \in Frontend
    BY <1>3
  <2> QED
    BY <1>5, <2>1, <2>2, <2>3, LoadTypes, NextTypes
<1>8. ~crossed => \A t \in Scanning' : alone'[t]
  BY <1>1, <1>2
<1> QED
  BY <1>1, <1>4, <1>6, <1>7, <1>8

(* Who leaves is on no way any more.                                        *)
LEMMA StopEases ==
    ASSUME TypeOK, TypeOK', NEW S, S \subseteq Scanner, Stop(S),
           \A d \in Client \ S : target'[d] = target[d],
           NEW f \in Frontend,
           counted'[f] = counted[f] /\ direct'[f] = direct[f] /\ dropped'[f] = dropped[f]
    PROVE  Eased(f)
<1>1. Pending(f)' \subseteq Pending(f) /\ Pending(f) \subseteq Client
  BY Stopped, NoScanType DEF Pending, Scanner
<1>2. Cardinality(Pending(f)') <= Cardinality(Pending(f))
  <2>1. IsFiniteSet(Pending(f))
    BY <1>1, BalancerAssumption, FS_Subset
  <2> QED
    BY <1>1, <2>1, FS_Subset
<1> QED
  BY <1>2, LoadTypes, NextTypes DEF Eased

(* Redirect adds a browser to the load of a frontend with the fewest: no    *)
(* frontend that was always on counts less than its answer.                 *)
LEMMA RedirectKeepsEven ==
    ASSUME EvenInv, NEW c \in Client, Redirect(c)
    PROVE  EvenPart'
<1> USE DEF EvenInv, EvenPart, BalancerInv, HeardPart, AlonePart
<1> DEFINE p == redirect_server_port
<1>1. /\ c \in Scanner /\ c \in Scanning
      /\ scan[c].pc = "ask" /\ scan[c].next > FrontendCount
  BY DEF Redirect, Done, Scanning, Scanner
<1>2. /\ \A t \in Scanner : t # c => scan'[t] = scan[t]
      /\ scan'[c].pc = "sent"
      /\ scan'[c].next = scan[c].next
      /\ scan'[c].status = scan[c].status
  <2>1. scan[c] \in Scan
    BY <1>1, ScanTypes
  <2> QED
    BY <1>1, <2>1 DEF Redirect, TypeOK, Scan
<1>3. /\ target'[c] = p
      /\ \A d \in Client : d # c => target'[d] = target[d]
  BY DEF Redirect, TypeOK
<1>4. /\ On' = On /\ steady' = steady /\ counted' = counted
      /\ direct' = direct /\ dropped' = dropped /\ spent' = spent
      /\ alone' = alone /\ crossed' = crossed
  BY DEF Redirect, On, frontend, balancer, history
<1>5. Scanning' = Scanning \ {c}
  BY <1>1, <1>2 DEF Scanning
<1>6. steady \subseteq Frontend
  BY DEF TypeOK
<1> HIDE DEF p
<1>7. ASSUME NEW f \in Frontend
      PROVE  Load(f)' = IF f = p THEN Load(f) + 1 ELSE Load(f)
  <2>1. c \in Client \ Pending(f) /\ Pending(f) \subseteq Client
    BY <1>1 DEF Pending
  <2>2. Pending(f)' = IF f = p THEN Pending(f) \cup {c} ELSE Pending(f)
    <3>1. c \in Pending(f)' <=> f = p
      BY <1>2, <1>3 DEF Pending
    <3>2. \A d \in Client : d # c => (d \in Pending(f)' <=> d \in Pending(f))
      BY <1>2, <1>3 DEF Pending, Scanner
    <3>3. Pending(f)' \subseteq Client
      BY DEF Pending
    <3> QED
      BY <2>1, <3>1, <3>2, <3>3
  <2>3. Cardinality(Pending(f) \cup {c}) = Cardinality(Pending(f)) + 1
    BY <2>1, Browsers
  <2>4. counted[f] \in Nat /\ Cardinality(Pending(f)) \in Nat
    BY LoadTypes
  <2> QED
    BY <1>4, <2>2, <2>3, <2>4 DEF Load
<1>8. ASSUME NEW t \in Scanner
      PROVE  AnswerInv(t)'
  <2>1. scan'[t].status = scan[t].status
    BY <1>2
  <2>2. t \in Scanning' => t \in Scanning /\ Asked(t)' = Asked(t)
    BY <1>2, <1>4, <1>5 DEF Asked, Judging
  <2> QED
    BY <1>4, <2>1, <2>2 DEF AnswerInv
<1>9. ASSUME ~crossed
      PROVE  /\ Scanning' = {}
             /\ ~spent => \A f, g \in steady :
                   Load(f)' <= counted[g] + Cardinality(Client) + direct[f] + dropped[g]
  <2>1. Scanning = {c} /\ FewestBefore(c) /\ BoundInv(c)
    BY <1>1, <1>9 DEF AloneInv
  <2>2. ASSUME ~spent, NEW f \in steady, NEW g \in steady
        PROVE  Load(f)' <= counted[g] + Cardinality(Client) + direct[f] + dropped[g]
    <3>1. f \in Frontend /\ g \in Frontend
      BY <1>6
    <3>2. Load(f) <= counted[g] + Cardinality(Client) + direct[f] + dropped[g]
      BY <1>9, <2>2
    <3>3. CASE f # p
      BY <1>7, <3>1, <3>2, <3>3
    <3>4. CASE f = p
      <4>1. Before(c) = Numbers(c)
        <5>1. \A h \in Frontend : h < scan[c].next
          BY <1>1, ScanTypes, BalancerAssumption DEF Frontend
        <5> QED
          BY <5>1 DEF Before, Numbers
      <4>2. p \in Numbers(c) /\ \A h \in Numbers(c) : scan[c].status[p] <= scan[c].status[h]
        <5>1. p # NoPort
          BY <3>1, <3>4, BalancerAssumption DEF Frontend, NoPort
        <5> QED
          BY <2>1, <4>1, <5>1 DEF FewestBefore, p
      <4>3. scan[c].status[g] \in Nat /\ scan[c].status[g] <= counted[g] + dropped[g]
        <5>1. g \in Asked(c)
          BY <1>1, <3>1, ScanTypes, BalancerAssumption DEF Asked, Frontend
        <5>2. /\ scan[c].status[g] # Down
              /\ scan[c].status[g] <= counted[g] + dropped[g]
          BY <1>1, <2>2, <5>1 DEF AnswerInv
        <5> QED
          BY <1>1, <3>1, <5>2, ScanTypes DEF Count
      <4>4. scan[c].status[p] \in Nat /\ scan[c].status[p] < MAX_CONNECTIONS
        BY <4>2, BalancerAssumption DEF Numbers
      <4>5. scan[c].status[p] <= scan[c].status[g]
        BY <3>1, <4>2, <4>3, <4>4, BalancerAssumption DEF Numbers
      <4>6. Load(f) <= scan[c].status[p] + Cardinality(Client) - 1 + direct[f]
        <5>1. scan[c].status[p] # Down
          BY <4>4 DEF Down
        <5> QED
          BY <1>1, <2>1, <3>4, <5>1 DEF BoundInv
      <4>7. /\ Load(f) \in Nat /\ counted[g] \in Nat /\ Cardinality(Client) \in Nat
            /\ direct[f] \in Nat /\ dropped[g] \in Nat
        BY <3>1, LoadTypes
      <4>8. Load(f)' = Load(f) + 1
        BY <1>7, <3>1, <3>4
      <4> QED
        BY <4>3, <4>4, <4>5, <4>6, <4>7, <4>8
    <3> QED
      BY <3>3, <3>4
  <2> QED
    BY <1>5, <2>1, <2>2
<1> QED
  BY <1>4, <1>8, <1>9 DEF BoundInv

(* A page that is served counts the browser that was on its way.            *)
LEMMA VisitKeepsEven ==
    ASSUME EvenInv, TypeOK', NEW c \in Client, Visit(c)
    PROVE  EvenPart'
<1> USE DEF EvenInv, EvenPart, BalancerInv, HeardPart
<1> DEFINE p == target[c]
<1>1. /\ c \in Scanner /\ {c} \subseteq Scanner /\ scan[c].pc = "sent" /\ p \in Frontend
      /\ Stop({c})
  BY DEF Visit, Leave, Scanner, TypeOK
<1>2. /\ On' = On /\ steady' = steady /\ spent' = spent
      /\ direct' = direct /\ dropped' = dropped
  BY DEF Visit, On, balancer
<1>3. /\ counted'[p] \in {counted[p], counted[p] + 1}
      /\ \A f \in Frontend : f # p => counted'[f] = counted[f]
  BY <1>1 DEF Visit, Arrive, TypeOK
<1>4. \A d \in Client \ {c} : target'[d] = target[d]
  BY DEF Visit, TypeOK
<1>5. scan'[c].pc = "idle" /\ \A d \in Client \ {c} : scan'[d] = scan[d]
  BY <1>1, Stopped, NoScanType DEF Scanner
<1> HIDE DEF p
<1>6. ASSUME NEW f \in Frontend
      PROVE  Eased(f)
  <2>1. CASE f # p
    BY <1>1, <1>2, <1>3, <1>4, <2>1, StopEases
  <2>2. CASE f = p
    <3>1. c \in Pending(f) /\ Pending(f) \subseteq Client
      BY <1>1, <2>2 DEF Pending, p
    <3>2. Pending(f)' = Pending(f) \ {c}
      BY <1>4, <1>5 DEF Pending
    <3>3. Cardinality(Pending(f) \ {c}) = Cardinality(Pending(f)) - 1
      BY <3>1, Browsers
    <3>4. Load(f) = counted[f] + Cardinality(Pending(f))
      BY LoadTypes
    <3>5. Load(f)' = counted'[f] + Cardinality(Pending(f)) - 1
      BY <3>2, <3>3, LoadTypes, NextTypes
    <3>6. counted[f] <= counted'[f] /\ counted'[f] <= counted[f] + 1
      BY <1>3, <2>2, LoadTypes
    <3>7. Load(f)' <= Load(f)
      BY <3>4, <3>5, <3>6, LoadTypes, NextTypes
    <3> QED
      BY <1>2, <3>6, <3>7, LoadTypes, NextTypes DEF Eased
  <2> QED
    BY <2>1, <2>2
<1> QED
  BY <1>1, <1>2, <1>6, StopKeepsEven DEF TypeOK

(* A browser that gets no page, or that a frontend sends back to a balancer *)
(* that has ended.                                                          *)
LEMMA LeaveKeepsEven ==
    ASSUME EvenInv, TypeOK', NEW s \in Scanner, Leave(s), spent' = spent,
           UNCHANGED <<state, steady, direct, dropped>>,
           \A f \in steady : counted'[f] = counted[f],
           \A d \in Client \ {s} : target'[d] = target[d]
    PROVE  EvenPart'
<1>1. Stop({s}) /\ {s} \subseteq Scanner /\ TypeOK /\ steady \subseteq Frontend
  BY DEF Leave, EvenInv, BalancerInv, HeardPart, TypeOK
<1>2. \A f \in steady : Eased(f)
  BY <1>1, StopEases
<1>3. steady' = steady /\ steady \subseteq On'
  BY DEF On, EvenInv, EvenPart
<1> QED
  BY <1>1, <1>2, <1>3, StopKeepsEven

(* A frontend that changes is not one that was always on.                   *)
LEMMA ChangeKeepsEven ==
    ASSUME EvenInv, TypeOK', NEW f \in Frontend, NEW to, Change(f, to),
           NEW S, S \subseteq Scanner, Stop(S),
           \A g \in Frontend : g # f => counted'[g] = counted[g]
    PROVE  EvenPart'
<1> USE DEF EvenInv, EvenPart, BalancerInv, HeardPart
<1>1. /\ steady' = steady \ {f} /\ steady \subseteq Frontend /\ target' = target
      /\ direct' = direct /\ dropped' = dropped /\ spent' = spent
  BY DEF Change, TypeOK
<1>2. steady' \subseteq steady /\ steady' \subseteq On'
  BY <1>1 DEF On, Change, TypeOK
<1>3. \A g \in steady' : g \in Frontend /\ counted'[g] = counted[g]
  BY <1>1
<1>4. \A g \in steady' : Eased(g)
  BY <1>1, <1>3, StopEases
<1> QED
  BY <1>1, <1>2, <1>4, StopKeepsEven

(* A connection that is opened, or counted down.                            *)
LEMMA ConnectionKeepsEven ==
    ASSUME EvenInv, TypeOK', NEW f \in Frontend, Open(f) \/ Drop(f)
    PROVE  EvenPart'
<1> USE DEF EvenInv, EvenPart, BalancerInv, HeardPart
<1>1. /\ scan' = scan /\ target' = target /\ state' = state /\ steady' = steady
      /\ spent' = spent /\ Quietly
  BY DEF Open, Drop, balancer, Quietly
<1>2. Stop({}) /\ {} \subseteq Scanner
  BY <1>1, QuietlyStops
<1>3. ASSUME NEW g \in Frontend
      PROVE  Eased(g)
  <2>1. Pending(g)' = Pending(g)
    BY <1>1 DEF Pending
  <2>2. /\ counted'[g] + direct[g] <= counted[g] + direct'[g]
        /\ counted[g] + dropped[g] <= counted'[g] + dropped'[g]
    <3>1. CASE Open(f) /\ g = f
      BY <3>1, LoadTypes DEF Open, TypeOK
    <3>2. CASE Drop(f) /\ g = f
      BY <3>2, LoadTypes DEF Drop, TypeOK
    <3>3. CASE g # f
      <4>1. counted'[g] = counted[g] /\ direct'[g] = direct[g] /\ dropped'[g] = dropped[g]
        BY <3>3 DEF Open, Drop, TypeOK
      <4> QED
        BY <4>1, LoadTypes
    <3> QED
      BY <3>1, <3>2, <3>3
  <2> QED
    BY <2>1, <2>2, LoadTypes, NextTypes DEF Eased
<1>4. steady' \subseteq Frontend /\ steady' \subseteq On'
  BY <1>1 DEF On, TypeOK
<1> QED
  BY <1>1, <1>2, <1>3, <1>4, StopKeepsEven

(* The end of the balancer, and a step that changes nothing.                *)
LEMMA RestKeepsEven ==
    ASSUME EvenInv, TypeOK', AcceptEnds \/ UNCHANGED vars
    PROVE  EvenPart'
<1> USE DEF EvenInv, EvenPart, BalancerInv, HeardPart
<1>1. /\ target' = target /\ state' = state /\ steady' = steady /\ spent' = spent
      /\ counted' = counted /\ direct' = direct /\ dropped' = dropped
  BY DEF AcceptEnds, vars, frontend, balancer
<1>2. \E S \in SUBSET Scanner : Stop(S)
  <2>1. CASE AcceptEnds
    BY <2>1 DEF AcceptEnds, End, Scanning
  <2>2. CASE UNCHANGED vars
    <3>1. Quietly
      BY <2>2 DEF Quietly, vars, balancer
    <3>2. Stop({}) /\ {} \in SUBSET Scanner
      BY <3>1, QuietlyStops
    <3> QED
      BY <3>2
  <2> QED
    BY <2>1, <2>2
<1>3. steady' \subseteq Frontend /\ steady' \subseteq On'
  BY <1>1 DEF On, TypeOK
<1> QED
  BY <1>1, <1>2, <1>3, StopEases, StopKeepsEven

LEMMA InitEven == Init => EvenInv
<1> SUFFICES ASSUME Init
             PROVE  EvenInv
  OBVIOUS
<1>1. BalancerInv /\ TypeOK
  BY InitInv DEF BalancerInv, HeardPart
<1>2. \A s \in Scanner : scan[s].pc = "idle" /\ scan[s].status = NoStatus
  BY NoScanType DEF Init
<1>3. Scanning = {}
  BY <1>2 DEF Scanning
<1>4. steady = On /\ steady \subseteq Frontend
  BY DEF Init, On
<1>5. ASSUME NEW f \in Frontend
      PROVE  Load(f) = 0 /\ counted[f] = 0 /\ direct[f] = 0 /\ dropped[f] = 0
  <2>1. Pending(f) = {}
    BY <1>2 DEF Pending, Scanner
  <2>2. Cardinality({}) = 0
    BY FS_EmptySet
  <2> QED
    BY <2>1, <2>2 DEF Load, Init
<1>6. ASSUME NEW s \in Scanner
      PROVE  AnswerInv(s)
  BY <1>2, <1>3, <1>4, <1>5, NoScanType DEF AnswerInv, Down
<1>7. Cardinality(Client) \in Nat
  BY Browsers
<1> QED
  BY <1>1, <1>3, <1>4, <1>5, <1>6, <1>7 DEF EvenInv, EvenPart, BoundInv

LEMMA ScannedKeepsEven ==
    ASSUME EvenInv, NEW s \in Scanner, Scanned(s)
    PROVE  EvenPart'
<1>1. scan[s] \in Scan /\ scan \in [Scanner -> Scan]
  BY DEF EvenInv, BalancerInv, HeardPart, TypeOK
<1>2. CASE Ask(s)
  BY <1>2, AskKeepsEven
<1>3. ASSUME Reset(s) \/ Clear(s) \/ Compare(s) \/ SetPort(s) \/ SetLeast(s)
      PROVE  /\ s \in Scanning
             /\ UNCHANGED <<frontend, balancer, target, alone, crossed>>
             /\ \A t \in Scanner : t # s => scan'[t] = scan[t]
             /\ scan'[s].status = scan[s].status
             /\ scan'[s].pc \notin {"idle", "sent"}
  <2>1. CASE Reset(s)
    BY <1>1, <2>1 DEF Reset, Scanning, Scan, history
  <2>2. CASE Clear(s)
    BY <1>1, <2>2 DEF Clear, Scanning, Scan, history
  <2>3. CASE Compare(s)
    BY <1>1, <2>3 DEF Compare, Scanning, Scan, history
  <2>4. CASE SetPort(s)
    BY <1>1, <2>4 DEF SetPort, Scanning, Scan, history
  <2>5. CASE SetLeast(s)
    BY <1>1, <2>5 DEF SetLeast, Scanning, Scan, history
  <2> QED
    BY <1>3, <2>1, <2>2, <2>3, <2>4, <2>5
<1>4. ASSUME Reset(s) \/ Clear(s) \/ Compare(s) \/ SetPort(s) \/ SetLeast(s)
      PROVE  Asked(s)' \subseteq Asked(s)
  <2>1. steady' = steady /\ steady \subseteq Frontend
    BY <1>3, <1>4 DEF frontend, EvenInv, BalancerInv, HeardPart, TypeOK
  <2>2. \/ scan'[s].next = scan[s].next /\ (Judging(s)' => Judging(s))
        \/ scan'[s].next = scan[s].next + 1 /\ Judging(s) /\ scan'[s].pc = "ask"
    <3>1. CASE Reset(s)
      BY <1>1, <3>1 DEF Reset, Judging, Scan
    <3>2. CASE Clear(s)
      BY <1>1, <3>2 DEF Clear, Judging, Scan
    <3>3. CASE Compare(s)
      BY <1>1, <3>3 DEF Compare, Judging, Scan
    <3>4. CASE SetPort(s)
      BY <1>1, <3>4 DEF SetPort, Judging, Scan
    <3>5. CASE SetLeast(s)
      BY <1>1, <3>5 DEF SetLeast, Judging, Scan
    <3> QED
      BY <1>4, <3>1, <3>2, <3>3, <3>4, <3>5
  <2>3. scan[s].next \in Nat /\ \A f \in steady : f \in Nat
    BY <1>1, <2>1, BalancerAssumption DEF Scan, Frontend
  <2>4. ASSUME NEW f \in Asked(s)'
        PROVE  f \in Asked(s)
    <3>1. f \in steady /\ f \in Nat
      BY <2>1, <2>3, <2>4 DEF Asked
    <3>2. CASE scan'[s].next = scan[s].next /\ (Judging(s)' => Judging(s))
      BY <2>4, <3>1, <3>2 DEF Asked
    <3>3. CASE scan'[s].next = scan[s].next + 1 /\ Judging(s) /\ scan'[s].pc = "ask"
      BY <2>3, <2>4, <3>1, <3>3 DEF Asked, Judging
    <3> QED
      BY <2>2, <3>2, <3>3
  <2> QED
    BY <2>4
<1> QED
  BY <1>2, <1>3, <1>4, QuietStep DEF Scanned

LEMMA NextEven == EvenInv /\ [Next]_vars => EvenInv'
<1> SUFFICES ASSUME EvenInv, [Next]_vars
             PROVE  EvenInv'
  OBVIOUS
<1>1. BalancerInv' /\ TypeOK' /\ TypeOK /\ steady \subseteq On
  BY NextInv DEF EvenInv, EvenPart, BalancerInv, HeardPart
<1>2. Client \subseteq Scanner /\ Watcher \subseteq Scanner
  BY DEF Scanner
<1>3. ASSUME NEW c \in Client, Request(c)
      PROVE  EvenPart'
  <2>1. /\ c \notin Scanning /\ Begin(c)
        /\ UNCHANGED <<state, steady, direct, dropped, spent>>
        /\ \A f \in steady : counted'[f] = counted[f] /\ c \notin Pending(f)
        /\ \A d \in Client : d # c => target'[d] = target[d]
    BY <1>3 DEF Request, Scanning, Pending, frontend, balancer
  <2> QED
    BY <1>2, <2>1, BeginKeepsEven
<1>4. ASSUME NEW w \in Watcher, Watch(w)
      PROVE  EvenPart'
  <2>1. /\ w \notin Scanning /\ Begin(w)
        /\ UNCHANGED <<state, steady, direct, dropped, spent>>
        /\ \A f \in steady : counted'[f] = counted[f] /\ w \notin Pending(f)
        /\ \A d \in Client : d # w => target'[d] = target[d]
    BY <1>4 DEF Watch, Scanning, Pending, frontend, balancer
  <2> QED
    BY <1>2, <2>1, BeginKeepsEven
<1>5. ASSUME NEW c \in Client, Return(c)
      PROVE  EvenPart'
  <2>1. /\ c \notin Scanning /\ UNCHANGED <<state, steady, direct, dropped, spent>>
        /\ Begin(c) \/ Leave(c)
    BY <1>5 DEF Return, Scanning, balancer
  <2>2. target[c] \notin steady
    BY <1>1, <1>5 DEF Return, On
  <2>3. \A f \in steady : counted'[f] = counted[f] /\ c \notin Pending(f)
    BY <1>1, <1>5, <2>2 DEF Return, Arrive, TypeOK, Pending
  <2>4. \A d \in Client : d # c => target'[d] = target[d]
    BY <1>1, <1>5 DEF Return, TypeOK
  <2>5. CASE Begin(c)
    BY <1>2, <2>1, <2>3, <2>4, <2>5, BeginKeepsEven
  <2>6. CASE Leave(c)
    BY <1>1, <1>2, <2>1, <2>3, <2>4, <2>6, LeaveKeepsEven
  <2> QED
    BY <2>1, <2>5, <2>6
<1>6. ASSUME NEW c \in Client, Fail(c)
      PROVE  EvenPart'
  <2>1. Leave(c) /\ UNCHANGED <<state, steady, direct, dropped, spent, counted>>
    BY <1>6 DEF Fail, frontend, balancer
  <2>2. \A d \in Client \ {c} : target'[d] = target[d]
    BY <1>1, <1>6 DEF Fail, TypeOK
  <2> QED
    BY <1>1, <1>2, <2>1, <2>2, LeaveKeepsEven
<1>7. ASSUME NEW w \in Watcher, Report(w)
      PROVE  EvenPart'
  <2>1. Leave(w) /\ UNCHANGED <<state, steady, direct, dropped, spent, counted, target>>
    BY <1>7 DEF Report, frontend, balancer
  <2> QED
    BY <1>1, <1>2, <2>1, LeaveKeepsEven
<1>8. ASSUME NEW c \in Client, Browse(c)
      PROVE  EvenPart'
  BY <1>1, <1>2, <1>5, <1>6, <1>8, ScannedKeepsEven, RedirectKeepsEven, VisitKeepsEven
     DEF Browse
<1>9. ASSUME NEW f \in Frontend, SwitchOff(f) \/ SwitchOn(f) \/ Die(f) \/ Start(f)
      PROVE  EvenPart'
  <2>1. PICK to \in {"on", "off", "dead"}, S \in SUBSET Scanner :
           /\ Change(f, to) /\ Stop(S)
           /\ \A g \in Frontend : g # f => counted'[g] = counted[g]
    BY <1>9, FrontendStep DEF EvenInv
  <2> QED
    BY <1>1, <2>1, ChangeKeepsEven
<1> QED
  BY <1>1, <1>2, <1>3, <1>4, <1>7, <1>8, <1>9, ScannedKeepsEven, ConnectionKeepsEven,
     RestKeepsEven DEF Next, EvenInv

(* The inductive invariant of the balancer: every scan that runs has heard  *)
(* of what stands in redirect_server_port (load_balancer.cc:205-240), and a *)
(* scan that runs alone finds the fewest of its answers in the globals.     *)
THEOREM BalancerInvariant == Spec => []BalancerInv
<1>1. Init => BalancerInv
  BY InitInv
<1>2. BalancerInv /\ [Next]_vars => BalancerInv'
  BY NextInv
<1> QED
  BY <1>1, <1>2, PTL DEF Spec

(* Type correctness of the balancer and the frontends' counters; the bound  *)
(* on min_connections (load_balancer.cc:206) needs the whole invariant.     *)
THEOREM TypeCorrect == Spec => []TypeOK
<1>1. BalancerInv => TypeOK
  BY DEF BalancerInv, HeardPart
<1> QED
  BY <1>1, BalancerInvariant, PTL

(* However many scans reset and compute the globals at the same time, no    *)
(* browser is redirected to a frontend that no running scan heard of        *)
(* (load_balancer.cc:176-190).                                              *)
THEOREM OnlyHeardOf == Spec => []HeardOf
<1>1. BalancerInv => HeardOf
  BY DEF BalancerInv, HeardPart
<1> QED
  BY <1>1, BalancerInvariant, PTL

(* A browser whose scan no other scan met is redirected to a frontend with  *)
(* the fewest connections of those that answered (load_balancer.cc:236).    *)
THEOREM AloneGetsLeast == Spec => []LeastLoaded
<1>1. BalancerInv => LeastLoaded
  BY DEF BalancerInv, AlonePart
<1> QED
  BY <1>1, BalancerInvariant, PTL

(* The load stays even as long as no two scans overlap and the balancer has *)
(* a descriptor for every frontend (load_balancer.cc:216): of two frontends *)
(* that were always on, one counts at most as many connections more as      *)
(* there are browsers, which choose the fewest of what they were told       *)
(* (load_balancer.cc:205-240) while others are still on their way, but for  *)
(* those opened to it without the balancer (httpserver.cc:580-584) and      *)
(* those the other has counted down (httpserver.cc:630-633).                *)
THEOREM LoadStaysEven == Spec => []EvenLoad
<1>1. Init => EvenInv
  BY InitEven
<1>2. EvenInv /\ [Next]_vars => EvenInv'
  BY NextEven
<1>3. EvenInv => EvenLoad
  <2> SUFFICES ASSUME EvenInv, ~crossed, ~spent, NEW f \in steady, NEW g \in steady
               PROVE  counted[f] <= counted[g] + Cardinality(Client) + direct[f] + dropped[g]
    BY DEF EvenLoad
  <2>1. TypeOK /\ f \in Frontend /\ g \in Frontend
    BY DEF EvenInv, BalancerInv, HeardPart, TypeOK
  <2>2. Load(f) <= counted[g] + Cardinality(Client) + direct[f] + dropped[g]
    BY DEF EvenInv, EvenPart
  <2> QED
    BY <2>1, <2>2, LoadTypes
<1> QED
  BY <1>1, <1>2, <1>3, PTL DEF Spec
=============================================================================
