--------------------------- MODULE PageMessagesProofs ---------------------------
(***************************************************************************)
(* Theorems about PageMessages, for any number of messages, interventions  *)
(* and connections, and every loss, refusal and timeout.                   *)
(***************************************************************************)
EXTENDS PageMessages, TLAPS

\* Interventions are sent one after the other, on connections that grow newer; the one
\* the panel awaits is the newest, and the only one whose promise waits.
AskInv ==
  /\ \A j, k \in Sends : j < k /\ ask[k] # "unsent" => ask[j] # "unsent" /\ asker[j] <= asker[k]
  /\ waiting # 0 => \A k \in Sends : k > waiting => ask[k] = "unsent"
  /\ mounted => \A k \in Sends : outcome[k] = "waiting" => k = waiting

\* A promise is settled by its own answer, or else by one that came late.
SettledInv ==
  \A k \in Sends :
    outcome[k] \in {"resolved", "rejected"} => ask[k] \in {"told queued", "told refused"} \/ Misled(k)

\* From the moment it joined the room, a connection brings what is announced.
RoomInv == Hears => Announced \subseteq earlier \cup heard

Inv == TypeOK /\ RoomInv /\ AskInv /\ SettledInv /\ AcksAreHonest

------------------------------------------------------------------------------
\* Initially nothing has been sent or shown.
LEMMA InvInit == Init => Inv
BY SocketsAssumption, MessagesAssumption DEF Init, ConnectionInit, Inv, TypeOK,
   ConnectionTypeOK, RoomInv, Hears, Announced, AskInv, SettledInv, AcksAreHonest, Sends


\* The steps that leave the interventions and their connections as they are.
LEMMA Quiet ==
  ASSUME [Next]_vars
  PROVE  \/ UNCHANGED askVars /\ mounted' = mounted /\ gen' = gen
         \/ Connect \/ LeavePage
         \/ \E k \in Sends : Send(k) \/ Intervene(k) \/ Answer(k)
         \/ Timeout
BY DEF Next, Change, Insert, Announce, OtherConnection, Silence, Token, Refusal, Drop,
   HandleDisconnect, ReadMessages, Load, LoadFails, FetchStep, connectionVars, askVars, vars

\* What the types say of the numbers.
LEMMA Numbers ==
  ASSUME TypeOK
  PROVE  /\ gen \in Nat /\ gen <= MaxSockets /\ stored \in Nat /\ stored <= MaxMessages
         /\ mread \in Int /\ waiting \in {0} \cup Sends
         /\ \A k \in Sends : k \in Nat \ {0} /\ asker[k] \in Nat /\ asker[k] <= gen
<1>1. gen \in 0..MaxSockets /\ stored \in 0..MaxMessages /\ mread \in -1..stored
      /\ asker \in [Sends -> 0..gen] /\ waiting \in {0} \cup Sends
  BY DEF TypeOK, ConnectionTypeOK
<1>2. gen \in Nat /\ gen <= MaxSockets /\ stored \in Nat /\ stored <= MaxMessages
  BY <1>1, SocketsAssumption, MessagesAssumption
<1>3. \A k \in Sends : asker[k] \in 0..gen
  BY <1>1
<1> QED BY <1>1, <1>2, <1>3, MessagesAssumption DEF Sends

\* The connection keeps its types.
LEMMA ConnectionNext ==
  ASSUME TypeOK, [Next]_vars
  PROVE  ConnectionTypeOK' /\ gen <= gen'
<1>0. ConnectionTypeOK
  BY DEF TypeOK
<1>n. gen \in Nat
  BY Numbers
<1> USE SocketsAssumption, <1>0 DEF ConnectionTypeOK, Sockets, connectionVars
<1>1. CASE Connect
  BY <1>1 DEF Connect, Handshake
<1>2. CASE OtherConnection
  <2>1. gen' = gen /\ room' \subseteq room /\ mounted' = mounted
    BY <1>2 DEF OtherConnection, Silence, Token, Refusal, Drop, HandleDisconnect
  <2>2. conn' \in {"token", "failed", "down", "up", "closed"}
    BY <1>2 DEF OtherConnection, Silence, Token, Refusal, Drop, HandleDisconnect
  <2> QED BY <1>n, <2>1, <2>2
<1>3. CASE LeavePage
  <2>1. gen' = gen /\ room' = room /\ mounted' \in BOOLEAN
    BY <1>3 DEF LeavePage, Leave
  <2>2. conn' \in {"token", "closed"}
    BY <1>3 DEF LeavePage, Leave
  <2> QED BY <1>n, <2>1, <2>2
<1>4. CASE UNCHANGED connectionVars
  BY <1>4, <1>n
<1>5. UNCHANGED connectionVars \/ Connect \/ OtherConnection \/ LeavePage
  BY DEF Next, Change, Insert, Announce, ReadMessages, Load, LoadFails, FetchStep, Send,
     Intervene, Answer, Timeout, AskStep, vars
<1> QED BY <1>1, <1>2, <1>3, <1>4, <1>5

\* Every step keeps the types of the page's messages and interventions.
LEMMA TypeNext == TypeOK /\ [Next]_vars => TypeOK'
<1> SUFFICES ASSUME TypeOK, [Next]_vars PROVE TypeOK'
  OBVIOUS
<1> USE DEF sessionVars, shownVars, askVars
<1>n. gen \in Nat /\ stored \in Nat /\ stored <= MaxMessages /\ MaxMessages \in Nat
  BY Numbers, MessagesAssumption
<1>c. ConnectionTypeOK' /\ gen <= gen' /\ gen \in Nat /\ gen' \in Nat
  <2>1. ConnectionTypeOK' /\ gen <= gen' /\ gen \in Nat
    BY ConnectionNext, Numbers
  <2>2. gen' \in 0..MaxSockets
    BY <2>1 DEF ConnectionTypeOK
  <2> QED BY <2>1, <2>2, SocketsAssumption
<1>1. CASE Change
  BY <1>1, <1>c DEF Change, TypeOK, connectionVars
<1>2. CASE Insert
  <2>1. stored' = stored + 1 /\ stored' \in 0..MaxMessages /\ unsaid' = unsaid \cup {stored'}
        /\ UNCHANGED <<connectionVars, stage, shownVars, askVars, earlier>>
    BY <1>2, <1>n DEF Insert
  <2>2. 1..stored \subseteq 1..stored' /\ -1..stored \subseteq -1..stored' /\ stored' \in 1..stored'
    BY <1>n, <2>1
  <2> QED BY <1>c, <2>1, <2>2 DEF TypeOK, connectionVars
<1>3. ASSUME NEW m \in unsaid, Announce(m) PROVE TypeOK'
  BY <1>3, <1>c DEF Announce, TypeOK, connectionVars
<1>4. CASE Connect
  <2>1. earlier' \subseteq 1..stored
    BY <1>4 DEF Connect, TypeOK, Announced
  <2>2. asker' \in [Sends -> 0..gen']
    <3>1. 0..gen \subseteq 0..gen'
      BY <1>c
    <3>2. asker' = asker /\ asker \in [Sends -> 0..gen]
      BY <1>4 DEF Connect, TypeOK
    <3> QED BY <3>1, <3>2
  <2> QED BY <1>4, <1>c, <2>1, <2>2 DEF Connect, TypeOK
<1>5. CASE OtherConnection
  <2>1. gen' = gen
    BY <1>5 DEF OtherConnection, Silence, Token, Refusal, Drop, HandleDisconnect
  <2> QED BY <1>5, <1>c, <2>1 DEF OtherConnection, TypeOK
<1>6. CASE LeavePage
  <2>1. /\ heard' = {} /\ mread' = -1 /\ loaded' = "loading" /\ waiting' = 0 /\ earlier' = {}
        /\ gen' = gen /\ UNCHANGED <<sessionVars, ask, asker, outcome>>
    BY <1>6 DEF LeavePage, Leave
  <2>2. -1 \in -1..stored
    BY <1>n
  <2> QED BY <1>c, <2>1, <2>2 DEF TypeOK
<1>7. CASE ReadMessages \/ Load \/ LoadFails
  <2>1. /\ UNCHANGED <<connectionVars, sessionVars, askVars, earlier, heard>>
        /\ mread' \in {mread, stored} /\ loaded' \in {loaded, "ok", "failed"}
    BY <1>7 DEF ReadMessages, Load, LoadFails, FetchStep
  <2>2. stored \in -1..stored
    BY <1>n
  <2> QED BY <1>c, <2>1, <2>2 DEF TypeOK, connectionVars
<1>8. ASSUME NEW k \in Sends, Send(k) PROVE TypeOK'
  <2>1. /\ ask' = [ask EXCEPT ![k] = "sent"] /\ asker' = [asker EXCEPT ![k] = gen]
        /\ outcome' = [outcome EXCEPT ![k] = "waiting"] /\ waiting' = k
        /\ UNCHANGED <<connectionVars, sessionVars, shownVars, earlier>>
    BY <1>8 DEF Send, AskStep
  <2>2. gen \in 0..gen
    BY <1>n
  <2>3. asker' \in [Sends -> 0..gen]
    BY <2>1, <2>2 DEF TypeOK
  <2>4. /\ waiting' \in {0} \cup {j \in Sends : outcome'[j] = "waiting"}
        /\ \A j \in Sends : (ask'[j] = "unsent") <=> (outcome'[j] = "none")
    BY <2>1 DEF TypeOK
  <2> QED BY <1>c, <2>1, <2>3, <2>4 DEF TypeOK, connectionVars
<1>9. ASSUME NEW k \in Sends, Intervene(k) PROVE TypeOK'
  BY <1>9, <1>c DEF Intervene, AskStep, TypeOK, connectionVars
<1>10. ASSUME NEW k \in Sends, Answer(k) PROVE TypeOK'
  BY <1>10, <1>c DEF Answer, AskStep, TypeOK, connectionVars
<1>11. CASE Timeout
  BY <1>11, <1>c DEF Timeout, AskStep, TypeOK, connectionVars
<1>12. CASE UNCHANGED vars
  BY <1>12, <1>c DEF vars, TypeOK, connectionVars
<1> QED
  BY <1>1, <1>2, <1>3, <1>4, <1>5, <1>6, <1>7, <1>8, <1>9, <1>10, <1>11, <1>12 DEF Next

------------------------------------------------------------------------------
(* The messages. *)

\* While a connection lasts, what is announced is heard; once it is lost, only another
\* brings the page into the room again.
LEMMA RoomNext == TypeOK /\ RoomInv /\ [Next]_vars => RoomInv'
<1> SUFFICES ASSUME TypeOK, RoomInv, [Next]_vars, Hears'
             PROVE  (Announced \subseteq earlier \cup heard)'
  BY DEF RoomInv
<1> USE DEF Hears, Announced, RoomInv
<1>1. CASE Connect
  BY <1>1 DEF Connect, sessionVars, shownVars
<1>2. CASE OtherConnection
  <2>1. Hears
    BY <1>2 DEF OtherConnection, Silence, Token, Refusal, Drop, HandleDisconnect
  <2> QED BY <1>2, <2>1 DEF OtherConnection, sessionVars, shownVars
<1>3. CASE LeavePage
  BY <1>3 DEF LeavePage, Leave
<1>4. CASE Insert
  <2>1. 1..stored' \subseteq (1..stored) \cup {stored'}
    BY <1>4, Numbers DEF Insert
  <2> QED BY <1>4, <2>1 DEF Insert, connectionVars, shownVars
<1>5. ASSUME NEW m \in unsaid, Announce(m) PROVE (Announced \subseteq earlier \cup heard)'
  BY <1>5 DEF Announce, connectionVars
<1>6. CASE UNCHANGED <<connectionVars, stored, unsaid, heard, earlier>>
  BY <1>6 DEF connectionVars
<1>7. \/ Connect \/ OtherConnection \/ LeavePage \/ Insert \/ \E m \in unsaid : Announce(m)
      \/ UNCHANGED <<connectionVars, stored, unsaid, heard, earlier>>
  BY DEF Next, Change, ReadMessages, Load, LoadFails, FetchStep, Send, Intervene, Answer,
     Timeout, AskStep, sessionVars, shownVars, vars
<1> QED BY <1>1, <1>2, <1>3, <1>4, <1>5, <1>6, <1>7

------------------------------------------------------------------------------
(* The interventions. *)

\* Interventions stay in order: one is sent when those before it were and none waits.
LEMMA AskNext == TypeOK /\ AskInv /\ [Next]_vars => AskInv'
<1> SUFFICES ASSUME TypeOK, AskInv, [Next]_vars PROVE AskInv'
  OBVIOUS
<1> USE MessagesAssumption DEF AskInv, Sends
<1>g. gen \in Nat /\ \A k \in Sends : asker[k] \in Nat /\ asker[k] <= gen
  BY Numbers
<1>w. waiting \in {0} \cup Sends
  BY DEF TypeOK
<1>1. CASE UNCHANGED askVars /\ mounted' = mounted /\ gen' = gen
  BY <1>1 DEF askVars
<1>2. CASE Connect
  BY <1>2 DEF Connect, Handshake, askVars
<1>3. CASE LeavePage
  BY <1>3 DEF LeavePage, Leave
<1>4. ASSUME NEW k \in Sends, Send(k) PROVE AskInv'
  <2>1. /\ ask[k] = "unsent" /\ waiting = 0 /\ waiting' = k /\ mounted /\ mounted' = mounted
        /\ ask' = [ask EXCEPT ![k] = "sent"] /\ asker' = [asker EXCEPT ![k] = gen]
        /\ outcome' = [outcome EXCEPT ![k] = "waiting"]
        /\ \A j \in 1..(k - 1) : ask[j] # "unsent"
    BY <1>4 DEF Send, AskStep, connectionVars
  <2>2. \A i \in Sends : i > k => ask[i] = "unsent"
    BY <2>1
  <2>3. \A i \in Sends : i < k => ask[i] # "unsent"
    BY <2>1
  <2>4. \A i \in Sends : /\ ask'[i] = IF i = k THEN "sent" ELSE ask[i]
                         /\ asker'[i] = IF i = k THEN gen ELSE asker[i]
                         /\ outcome'[i] = IF i = k THEN "waiting" ELSE outcome[i]
    BY <2>1 DEF TypeOK
  <2>5. \A i, j \in Sends : i < j /\ ask'[j] # "unsent" => ask'[i] # "unsent" /\ asker'[i] <= asker'[j]
    BY <1>g, <2>2, <2>3, <2>4
  <2>6. \A i \in Sends : i > waiting' => ask'[i] = "unsent"
    BY <2>1, <2>2, <2>4
  <2>7. mounted' => \A i \in Sends : outcome'[i] = "waiting" => i = waiting'
    <3>1. \A i \in Sends : outcome[i] # "waiting"
      BY <2>1, Numbers
    <3> QED BY <2>1, <2>4, <3>1
  <2> QED BY <2>5, <2>6, <2>7
<1>5. ASSUME NEW k \in Sends, Intervene(k) PROVE AskInv'
  BY <1>5 DEF Intervene, AskStep, TypeOK, connectionVars
<1>6. ASSUME NEW k \in Sends, Answer(k) PROVE AskInv'
  BY <1>6, <1>w DEF Answer, AskStep, TypeOK, connectionVars
<1>7. CASE Timeout
  BY <1>7, <1>w DEF Timeout, AskStep, TypeOK, connectionVars
<1> QED BY Quiet, <1>1, <1>2, <1>3, <1>4, <1>5, <1>6, <1>7

\* A promise that was settled keeps its outcome and its connection.
LEMMA OutcomesStay ==
  ASSUME TypeOK, [Next]_vars, NEW k \in Sends, outcome[k] \notin {"none", "waiting"}
  PROVE  /\ outcome'[k] = outcome[k] /\ asker'[k] = asker[k]
         /\ ask[k] \in {"told queued", "told refused"} => ask'[k] = ask[k]
         /\ Queued(k) => Queued(k)'
<1> USE DEF Queued
<1>w. waiting # 0 => outcome[waiting] = "waiting"
  BY DEF TypeOK
<1>1. CASE UNCHANGED askVars \/ Connect \/ LeavePage
  BY <1>1 DEF askVars, Connect, LeavePage
<1>2. ASSUME NEW j \in Sends, Send(j)
      PROVE  outcome'[k] = outcome[k] /\ asker'[k] = asker[k] /\ ask'[k] = ask[k]
  <2>1. j # k
    BY <1>2 DEF Send, TypeOK
  <2> QED BY <1>2, <2>1 DEF Send, TypeOK
<1>3. ASSUME NEW j \in Sends, Intervene(j)
      PROVE  /\ outcome'[k] = outcome[k] /\ asker'[k] = asker[k]
             /\ ask[k] # "sent" => ask'[k] = ask[k]
  BY <1>3 DEF Intervene, TypeOK
<1>4. ASSUME NEW j \in Sends, Answer(j)
      PROVE  /\ outcome'[k] = outcome[k] /\ asker'[k] = asker[k]
             /\ ask[k] \notin {"queued", "refused"} => ask'[k] = ask[k]
             /\ ask[k] = "queued" => ask'[k] \in {"queued", "told queued"}
  BY <1>4, <1>w DEF Answer, TypeOK
<1>5. CASE Timeout
  BY <1>5, <1>w DEF Timeout, TypeOK
<1> QED BY Quiet, <1>1, <1>2, <1>3, <1>4, <1>5

\* One that was misled stays so.
LEMMA MisledStays ==
  ASSUME TypeOK, [Next]_vars, NEW k \in Sends, Misled(k), outcome[k] \notin {"none", "waiting"}
  PROVE  Misled(k)'
<1>1. PICK j \in 1..(k - 1) : outcome[j] = "timedout" /\ asker[j] = asker[k]
  BY DEF Misled
<1>2. j \in Sends
  BY MessagesAssumption DEF Sends
<1>3. outcome'[j] = "timedout" /\ asker'[j] = asker[j] /\ asker'[k] = asker[k]
  BY <1>1, <1>2, OutcomesStay
<1> QED BY <1>1, <1>3 DEF Misled

\* An answer that settles another's promise comes late: its own was settled before it,
\* by the timer, or by an answer that was late itself.
LEMMA SettlingIsOwnOrLate ==
  ASSUME TypeOK, AskInv, SettledInv, NEW k \in Sends, Answer(k),
         Hears, gen = asker[k], waiting # 0
  PROVE  waiting = k \/ Misled(waiting)
<1> SUFFICES ASSUME waiting # k PROVE Misled(waiting)
  OBVIOUS
<1>g. gen \in Nat /\ \A i \in Sends : asker[i] \in Nat /\ asker[i] <= gen
  BY Numbers
<1>w. waiting \in Sends /\ outcome[waiting] = "waiting" /\ ask[waiting] # "unsent"
  BY DEF TypeOK
<1>1. ask[k] \in {"queued", "refused"}
  BY DEF Answer
<1>2. k < waiting
  BY <1>1, <1>w, MessagesAssumption DEF AskInv, Sends
<1>3. asker[waiting] = gen
  BY <1>2, <1>w, <1>g DEF AskInv
<1>4. outcome[k] \in {"resolved", "rejected", "timedout"}
  BY <1>1 DEF AskInv, TypeOK, Hears
<1>5. CASE outcome[k] = "timedout"
  <2>1. k \in 1..(waiting - 1)
    BY <1>2, <1>w, MessagesAssumption DEF Sends
  <2> QED BY <1>3, <1>5, <2>1 DEF Misled
<1>6. CASE outcome[k] \in {"resolved", "rejected"}
  <2>1. PICK j \in 1..(k - 1) : outcome[j] = "timedout" /\ asker[j] = asker[k]
    BY <1>1, <1>6 DEF SettledInv, Misled
  <2>2. j \in 1..(waiting - 1)
    BY <1>2, <1>w, MessagesAssumption DEF Sends
  <2> QED BY <1>3, <2>1, <2>2 DEF Misled
<1> QED BY <1>4, <1>5, <1>6

\* A promise is settled by its own answer, or was misled.
LEMMA SettledNext ==
  TypeOK /\ AskInv /\ SettledInv /\ AcksAreHonest /\ [Next]_vars
    => SettledInv' /\ AcksAreHonest'
<1> SUFFICES ASSUME TypeOK, AskInv, SettledInv, AcksAreHonest, [Next]_vars,
                    NEW k \in Sends, outcome'[k] \in {"resolved", "rejected"}
             PROVE  /\ ask'[k] \in {"told queued", "told refused"} \/ Misled(k)'
                    /\ outcome'[k] = "resolved" => Queued(k)' \/ Misled(k)'
  BY DEF SettledInv, AcksAreHonest
<1>1. CASE outcome[k] \in {"resolved", "rejected"}
  BY <1>1, OutcomesStay, MisledStays DEF SettledInv, AcksAreHonest
<1>2. CASE outcome[k] \notin {"resolved", "rejected"}
  <2>1. PICK j \in Sends : Answer(j)
    <3>1. UNCHANGED askVars \/ Connect \/ LeavePage => outcome' = outcome
      BY DEF askVars, Connect, LeavePage
    <3>2. \A j \in Sends : Send(j) \/ Intervene(j) => outcome'[k] \in {outcome[k], "waiting"}
      BY DEF Send, Intervene, TypeOK
    <3>3. Timeout => outcome'[k] \in {outcome[k], "timedout"}
      BY DEF Timeout, TypeOK
    <3> QED BY Quiet, <1>2, <3>1, <3>2, <3>3
  <2>2. /\ Hears /\ gen = asker[j] /\ waiting = k /\ waiting # 0
        /\ outcome' = [outcome EXCEPT ![k] = IF ask[j] = "queued" THEN "resolved" ELSE "rejected"]
        /\ asker' = asker
    BY <1>2, <2>1 DEF Answer, TypeOK
  <2>3. waiting = j \/ Misled(waiting)
    BY <2>1, <2>2, SettlingIsOwnOrLate
  <2>4. CASE k = j
    BY <2>1, <2>2, <2>4 DEF Answer, TypeOK, Queued
  <2>5. CASE Misled(k)
    <3>1. PICK i \in 1..(k - 1) : outcome[i] = "timedout" /\ asker[i] = asker[k]
      BY <2>5 DEF Misled
    <3>2. i \in Sends /\ i # k
      BY MessagesAssumption DEF Sends
    <3> QED BY <2>2, <3>1, <3>2, OutcomesStay DEF Misled
  <2> QED BY <2>2, <2>3, <2>4, <2>5
<1> QED BY <1>1, <1>2

------------------------------------------------------------------------------
(* The theorems. *)

\* Every step keeps the invariant.
LEMMA InvNext == Inv /\ [Next]_vars => Inv'
BY TypeNext, RoomNext, AskNext, SettledNext DEF Inv

\* The invariant holds of the specification.
THEOREM Invariance == Spec => []Inv
BY InvInit, InvNext, PTL DEF Spec

\* The page's messages and interventions keep their shape.
THEOREM TypeCorrect == Spec => []TypeOK
<1>1. Inv => TypeOK
  BY DEF Inv
<1> QED BY Invariance, <1>1, PTL

\* A connected page misses no message but those stored after its fetch had read and
\* announced before it last joined the room, whatever the number of messages and of
\* connections.
THEOREM MissesAreBeforeJoining == Spec => []MissedBeforeJoining
<1>1. Inv => MissedBeforeJoining
  BY DEF Inv, RoomInv, MissedBeforeJoining, Shown
<1> QED BY Invariance, <1>1, PTL

\* An intervention reported as sent was queued, unless an earlier one on its connection
\* had timed out.
THEOREM AcknowledgementsAreHonest == Spec => []AcksAreHonest
<1>1. Inv => AcksAreHonest
  BY DEF Inv
<1> QED BY Invariance, <1>1, PTL
==============================================================================
